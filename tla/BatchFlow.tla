------------------------------ MODULE BatchFlow ------------------------------
(***************************************************************************)
(* What the batch manager promises, without callbacks, failures or shifts:  *)
(* a bounded number of batches at a time, each passing the stages of the    *)
(* route in order, on one machine per stage that serves the stage and that  *)
(* no other batch is on, and finished exactly after the last.               *)
(***************************************************************************)
EXTENDS Naturals, FiniteSets

CONSTANTS Machine, Batch, Stages, Serves, MaxActive

VARIABLES
  status,   \* "unborn", "active" or "completed"
  stage,    \* stages completed
  holders   \* the machines a batch is on

flow == <<status, stage, holders>>

Active == {b \in Batch : status[b] = "active"}

Init ==
  /\ status = [b \in Batch |-> "unborn"]
  /\ stage = [b \in Batch |-> 0]
  /\ holders = [b \in Batch |-> {}]

Order(b) ==
  /\ status[b] = "unborn"
  /\ Cardinality(Active) < MaxActive
  /\ status' = [status EXCEPT ![b] = "active"]
  /\ UNCHANGED <<stage, holders>>

Take(b, m) ==
  /\ status[b] = "active"
  /\ holders[b] = {}
  /\ m \in Serves[stage[b] + 1]
  /\ \A c \in Batch : m \notin holders[c]
  /\ holders' = [holders EXCEPT ![b] = {m}]
  /\ UNCHANGED <<status, stage>>

Finish(b, m) ==
  /\ holders[b] = {m}
  /\ holders' = [holders EXCEPT ![b] = {}]
  /\ stage' = [stage EXCEPT ![b] = @ + 1]
  /\ status' = IF stage'[b] = Stages THEN [status EXCEPT ![b] = "completed"] ELSE status

Next ==
  \/ \E b \in Batch : Order(b)
  \/ \E b \in Batch, m \in Machine : Take(b, m)
  \/ \E b \in Batch, m \in Machine : Finish(b, m)

Spec == Init /\ [][Next]_flow
=============================================================================
