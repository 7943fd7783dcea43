----------------------------- MODULE StateRouting -----------------------------
(***************************************************************************)
(* StateRegistry.route, the breadth-first search for the shortest legal     *)
(* sequence of states, and Machine.force_route_to, which walks it.  The     *)
(* other modules take both as one step, MachineStates!ForceRoute; this one  *)
(* justifies that: for every transition table over N states the search      *)
(* finds the route it should and the walk is never refused on the way.      *)
(*                                                                          *)
(* States are numbered in the order sorted() gives them.                    *)
(***************************************************************************)
EXTENDS Naturals, Sequences, SequencesExt, FiniteSets

CONSTANT N    \* bound: the number of states of the table

ASSUME NPositive == N \in Nat \ {0}

Node == 1..N

VARIABLES
  table,     \* the states each state may move to directly
  source,    \* the machine's state when force_route_to is called
  target,    \* the state it is asked for
  pc,        \* "search", "walk" or "done"
  queue,     \* the search's queue: the path to each state waiting to be expanded
  seen,      \* the states already queued
  route,     \* the path found
  position   \* the machine's state during the walk

routing == <<table, source, target, pc, queue, seen, route, position>>

(* A state that moves to itself changes nothing: it is in seen by then.     *)
Tables == {t \in [Node -> SUBSET Node] : \A s \in Node : s \notin t[s]}

(* The call: a machine that is there already has the empty route.           *)
RoutingInit ==
  /\ table \in Tables
  /\ source \in Node /\ target \in Node
  /\ pc = IF source = target THEN "walk" ELSE "search"
  /\ queue = << << >> >>
  /\ seen = {source}
  /\ route = << >>
  /\ position = source

End(path)   == IF path = << >> THEN source ELSE Last(path)
Fresh(path) == table[End(path)] \ seen

(* The members of a set, each once, one before the next.                    *)
Ordered(S, precedes(_, _)) ==
  CHOOSE s \in [1..Cardinality(S) -> S] :
    \A i, j \in 1..Cardinality(S) : i < j => precedes(s[i], s[j])

(* The neighbours of a state, in the order the loop takes them.  Mutant:    *)
(* the other way round.                                                     *)
NeighboursDescending(path) == Ordered(Fresh(path), >)

Neighbours(path) == Ordered(Fresh(path), <)

(* What is queued is remembered, not what is expanded.                      *)
Remember(path) == seen \cup Fresh(path)

(* One turn of the while loop that does not meet the target.                *)
Expand ==
  LET path == Head(queue) IN
  /\ pc = "search" /\ queue # << >>
  /\ target \notin Fresh(path)
  /\ queue' = Tail(queue) \o [i \in DOMAIN Neighbours(path) |-> Append(path, Neighbours(path)[i])]
  /\ seen' = Remember(path)
  /\ UNCHANGED <<table, source, target, pc, route, position>>

(* The turn that meets it.                                                  *)
Found ==
  LET path == Head(queue) IN
  /\ pc = "search" /\ queue # << >>
  /\ target \in Fresh(path)
  /\ route' = Append(path, target)
  /\ pc' = "walk"
  /\ UNCHANGED <<table, source, target, queue, seen, position>>

(* No route: force_route_to returns False and the machine has not moved.    *)
NoRoute ==
  /\ pc = "search" /\ queue = << >>
  /\ pc' = "done"
  /\ UNCHANGED <<table, source, target, queue, seen, route, position>>

(* One transition_to of the walk; a refused one ends it where it is.        *)
Walk ==
  /\ pc = "walk" /\ route # << >>
  /\ IF Head(route) \in table[position]
     THEN position' = Head(route) /\ route' = Tail(route) /\ UNCHANGED pc
     ELSE pc' = "done" /\ UNCHANGED <<position, route>>
  /\ UNCHANGED <<table, source, target, queue, seen>>

Arrive ==
  /\ pc = "walk" /\ route = << >>
  /\ pc' = "done"
  /\ UNCHANGED <<table, source, target, queue, seen, route, position>>

RoutingNext == Expand \/ Found \/ NoRoute \/ Walk \/ Arrive

RoutingSpec == RoutingInit /\ [][RoutingNext]_routing

-----------------------------------------------------------------------------
(* All legal walks of k moves from source to target.                        *)
Walks(k) ==
  {w \in [1..k -> Node] : /\ w[k] = target
                          /\ w[1] \in table[source]
                          /\ \A i \in 1..(k - 1) : w[i + 1] \in table[w[i]]}

IsReachable == source = target \/ \E k \in 1..(N - 1) : Walks(k) # {}

Before(v, w) == \E i \in DOMAIN v : v[i] < w[i] /\ \A j \in 1..(i - 1) : v[j] = w[j]

(* Whatever the table, its cycles and dead ends, the call ends with the     *)
(* machine in the state asked for when there is any legal way there, and    *)
(* otherwise with the machine where it was; and it goes by a legal route,   *)
(* none is shorter, and of the shortest it is the first in the order of the *)
(* state names, so that it depends on nothing but the table.                *)
ForcedByTheFirstShortest ==
  /\ pc = "done" => position = IF IsReachable THEN target ELSE source
  /\ pc = "walk" /\ position = source /\ source # target =>
       /\ route \in Walks(Len(route))
       /\ \A k \in 1..(Len(route) - 1) : Walks(k) = {}
       /\ \A w \in Walks(Len(route)) : w = route \/ Before(route, w)
=============================================================================
