---------------------------- MODULE QualityControl ----------------------------
(***************************************************************************)
(* QcEngine: what each QC test of a batch is computed from.  The linter     *)
(* refuses rules whose parameters read each other in a circle, the registry *)
(* orders the rest, and a batch then passes the stages of its route: at the *)
(* end of each one the in-process tests of that stage are computed if what  *)
(* they read is there, and at the end of the batch everything outstanding   *)
(* is, with nominal values for what never was.                              *)
(*                                                                          *)
(* A value is abstracted to where it came from.  Engine drivers are always  *)
(* there and are left out.                                                  *)
(***************************************************************************)
EXTENDS Naturals, Sequences, SequencesExt, QcRules

CONSTANTS
  Params,    \* bound: the number of QC parameters
  Stage,     \* the process stages
  Routes     \* bound: the manufacturing processes tried

ASSUME QcAssumption ==
  /\ Params \in Nat \ {0}
  /\ Routes \in Seq(Seq(Stage) \ {<< >>}) /\ Routes # << >>

Param == 1..Params
(* One process parameter, which any stage may measure.                      *)
Tag == {Params + 1}

VARIABLES
  inputs,      \* QcParamSpec.transfer.inputs
  stageOf,     \* QcParamSpec.stage
  final,       \* the parameters of phase FINAL
  tests,       \* ProductSpec.qc_specifications
  process,     \* ProductSpec.manufacturing_process
  qcPhase,     \* "lint", "refused", "order", "unordered", "plan", "run" or "done"
  order,       \* QcRegistry._order
  completed,   \* how many of its stages are over
  parameters,  \* Batch.computed_parameters(): what each stage measured
  results      \* Batch.qc_results: the test, and where each input came from

rules == <<inputs, stageOf, final, tests, process>>
qc == <<inputs, stageOf, final, tests, process, qcPhase, order, completed, parameters, results>>

QcInit ==
  /\ inputs \in [Param -> SUBSET (Param \cup Tag)]
  /\ stageOf = [p \in Param |-> Routes[1][1]]
  /\ final = {} /\ tests = {} /\ process = << >>
  /\ qcPhase = "lint"
  /\ order = << >>
  /\ completed = 0
  /\ parameters = [s \in Stage |-> {}]
  /\ results = << >>

(* The QC parameters a parameter reads.                                     *)
Graph == [p \in Param |-> inputs[p] \cap Param]

LintRules ==
  /\ qcPhase = "lint"
  /\ qcPhase' = IF DependencyCycles(Graph) = {} THEN "order" ELSE "refused"
  /\ UNCHANGED <<rules, order, completed, parameters, results>>

OrderRules ==
  /\ qcPhase = "order"
  /\ order' = EvaluationOrder(Graph)
  /\ qcPhase' = IF Len(order') = Params THEN "plan" ELSE "unordered"
  /\ UNCHANGED <<rules, completed, parameters, results>>

(* A batch of some product.                                                 *)
Plan ==
  /\ qcPhase = "plan"
  /\ stageOf' \in [Param -> Stage]
  /\ final' \in SUBSET Param
  /\ tests' \in (SUBSET Param) \ {{}}
  /\ process' \in ToSet(Routes)
  /\ qcPhase' = "run"
  /\ UNCHANGED <<inputs, order, completed, parameters, results>>

(* The tests of the product whose stage is on its way; another one could    *)
(* not be measured.                                                         *)
Applicable == {p \in tests : stageOf[p] \in ToSet(process)}

(* QcRegistry.for_product.  Mutant: in the order of the file.               *)
ForProductAsWritten == Those([p \in Param |-> p], Applicable)

ForProduct == Those(order, Applicable)

Computed(done) == {done[i].test : i \in DOMAIN done}

(* _inputs_ready.                                                           *)
InputsReady(p, done, measured) ==
  \A n \in inputs[p] :
    n \in Computed(done) \/ \E s \in Stage : n \in measured[s]

(* _input_values, and what Transfer.evaluate puts in place of an input that *)
(* is not among them.                                                       *)
Source(p, n, done, measured) ==
  IF n \in measured[stageOf[p]] THEN "own stage"
  ELSE IF n \in Computed(done) THEN "computed"
  ELSE IF \E s \in Stage : n \in measured[s] THEN "other stage"
  ELSE IF n \in Param THEN "nominal"
  ELSE "left out"

(* _evaluate: in the registry's order, so that a test computed in this pass *)
(* is there for the next.                                                   *)
Evaluate(candidates, measured, required) ==
  Through(LAMBDA done, p :
            IF required /\ ~InputsReady(p, done, measured) THEN done
            ELSE Append(done, [test |-> p,
                               read |-> [n \in inputs[p] |-> Source(p, n, done, measured)]]),
          results, candidates)

(* Mutant: a stage the batch comes back to is tested again.                 *)
OfStageAgain(s) == Those(ForProduct, {p \in Param \ final : stageOf[p] = s})

(* The candidates of evaluate_stage.                                        *)
OfStage(s) == Those(ForProduct, {p \in Param \ final : stageOf[p] = s} \ Computed(results))

(* _complete_stage and _run_in_process_qc: the machine measured the process *)
(* parameter during the stage or it did not.  A stage the batch comes back  *)
(* to replaces what it measured before.                                     *)
CompleteStage ==
  /\ qcPhase = "run" /\ completed < Len(process)
  /\ \E achieved \in SUBSET Tag :
       LET s == process[completed + 1]
           measured == [parameters EXCEPT ![s] = achieved]
       IN  /\ parameters' = measured
           /\ results' = Evaluate(OfStage(s), measured, TRUE)
  /\ completed' = completed + 1
  /\ UNCHANGED <<rules, qcPhase, order>>

(* The candidates of evaluate_final.                                        *)
Outstanding == Those(ForProduct, Param \ Computed(results))

(* _finish_batch.                                                           *)
FinishBatch ==
  /\ qcPhase = "run" /\ completed = Len(process)
  /\ results' = Evaluate(Outstanding, parameters, FALSE)
  /\ qcPhase' = "done"
  /\ UNCHANGED <<rules, order, completed, parameters>>

QcNext == LintRules \/ OrderRules \/ Plan \/ CompleteStage \/ FinishBatch

QcSpec == QcInit /\ [][QcNext]_qc

-----------------------------------------------------------------------------
(* Reference: a graph is acyclic when every nonempty set of parameters has  *)
(* one that reads none of the others, itself included.                      *)
Acyclic(graph) ==
  \A S \in (SUBSET Param) \ {{}} : \E p \in S : graph[p] \cap S = {}

(* The linter's depth-first search refuses exactly the rules that have a    *)
(* cycle, a parameter that reads itself included, and what it lets through  *)
(* the registry can order, every parameter after all it reads.              *)
LintAgreesWithTheOrder ==
  /\ qcPhase = "refused" => ~Acyclic(Graph)
  /\ qcPhase \notin {"lint", "refused"} => Acyclic(Graph)
  /\ qcPhase # "unordered"
  /\ \A i \in DOMAIN order : Graph[order[i]] \subseteq ToSet(SubSeq(order, 1, i - 1))

(* When a test is computed it reads the result of every other test this     *)
(* product has, never its nominal value, however the tests are spread over  *)
(* stages and phases; and what its own stage measured, never the same tag   *)
(* of another stage.                                                        *)
InputsAsMeasured ==
  [][\A i \in (DOMAIN results') \ DOMAIN results :
       LET p == results'[i].test IN
       \A n \in inputs[p] :
         /\ n \in ToSet(ForProduct) => results'[i].read[n] = "computed"
         /\ results'[i].read[n] = "other stage" => n \notin parameters'[stageOf[p]]]_qc

(* By the end of the batch every test of the product whose stage is on its  *)
(* way has been computed, and none twice, although a stage may come twice   *)
(* and tests wait for what they read.                                       *)
EachTestOnce ==
  /\ \A i, j \in DOMAIN results : results[i].test = results[j].test => i = j
  /\ qcPhase = "done" => Computed(results) = ToSet(ForProduct)
=============================================================================
