------------------------------- MODULE QcRules -------------------------------
(***************************************************************************)
(* The two walks of the graph of QC parameters, an edge from a parameter to *)
(* each parameter its transfer reads: the linter's search for cycles and    *)
(* the registry's evaluation order.  Parameters are numbered in the order   *)
(* of qc_rules.yaml, which is taken to be the order of their names.         *)
(*                                                                          *)
(* graph is a function from parameters to the parameters each one reads;    *)
(* its domain is an interval from one.                                      *)
(***************************************************************************)
EXTENDS Naturals, Sequences, FiniteSets, SequencesExt

(* The search while it runs: the colour of each parameter, the path from    *)
(* the root of the search, and the cycles reported.                         *)
Unvisited(graph) ==
  [colour |-> [p \in DOMAIN graph |-> "white"], stack |-> << >>, cycles |-> {}]

Coloured(search, node, colour) == [search EXCEPT !.colour[node] = colour]

(* A grey neighbour closes a cycle: the part of the path from it on.        *)
CycleTo(search, node) ==
  LET start == SelectInSeq(search.stack, LAMBDA p : p = node)
  IN  Append(SubSeq(search.stack, start, Len(search.stack)), node)

(* Mutant of Follow: a parameter that reads itself is no cycle.             *)
FollowOthers(search, visit, node) ==
  CASE search.colour[node] = "grey" /\ Last(search.stack) # node ->
         [search EXCEPT !.cycles = @ \cup {CycleTo(search, node)}]
    [] search.colour[node] = "white" -> visit[search, node]
    [] OTHER -> search

(* What the search does at a neighbour, given how it visits one.            *)
Follow(search, visit, node) ==
  CASE search.colour[node] = "grey" ->
         [search EXCEPT !.cycles = @ \cup {CycleTo(search, node)}]
    [] search.colour[node] = "white" -> visit[search, node]
    [] OTHER -> search

Searches(graph) ==
  [colour : [DOMAIN graph -> {"white", "grey", "black"}],
   stack  : Seq(DOMAIN graph),
   cycles : SUBSET Seq(DOMAIN graph)]

Visit(graph) ==
  LET visit[search \in Searches(graph), node \in DOMAIN graph] ==
        LET entered  == [Coloured(search, node, "grey") EXCEPT !.stack = Append(@, node)]
            followed == FoldLeft(LAMBDA s, n : Follow(s, visit, n),
                                 entered, SetToSortSeq(graph[node], <))
        IN  [Coloured(followed, node, "black") EXCEPT !.stack = Front(@)]
  IN  visit

(* _qc_dependency_cycles: a search from every parameter no other reached.   *)
DependencyCycles(graph) ==
  FoldLeft(LAMBDA s, n : IF s.colour[n] = "white" THEN Visit(graph)[s, n] ELSE s,
           Unvisited(graph), SetToSortSeq(DOMAIN graph, <)).cycles

(* A loop over a sequence.                                                  *)
Through(op(_, _), base, s) ==
  LET f[i \in 0..Len(s)] == IF i = 0 THEN base ELSE op(f[i - 1], s[i])
  IN  f[Len(s)]

(* The members of a sequence that are in a set, in their order.             *)
Those(s, set) == Through(LAMBDA kept, x : IF x \in set THEN Append(kept, x) ELSE kept, << >>, s)

(* The parameters in the order of the file.                                 *)
Declared(graph) == [p \in DOMAIN graph |-> p]

(* One pass of the while loop over the parameters that remain: a parameter  *)
(* is placed when all it reads has been, in this pass or before.            *)
OnePass(graph, placed) ==
  Through(LAMBDA acc, p : IF p \notin ToSet(acc) /\ graph[p] \subseteq ToSet(acc)
                          THEN Append(acc, p) ELSE acc,
          placed, Declared(graph))

(* QcRegistry._topological_order.  A pass that places nothing is the last,  *)
(* so that there are no more of use than parameters.  What they place is    *)
(* short of parameters exactly when the code raises ValueError.             *)
EvaluationOrder(graph) ==
  LET passes[n \in 0..Cardinality(DOMAIN graph)] ==
        IF n = 0 THEN << >> ELSE OnePass(graph, passes[n - 1])
  IN  passes[Cardinality(DOMAIN graph)]
=============================================================================
