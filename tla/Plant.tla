-------------------------------- MODULE Plant --------------------------------
(***************************************************************************)
(* The plant floor: failures, maintenance, batches, shifts and duty acting  *)
(* on the same machines, one callback at a time, in any order the timers    *)
(* allow.                                                                   *)
(***************************************************************************)
EXTENDS BatchManager, Staffing

Next == FailureNext \/ MaintenanceNext \/ BatchNext \/ StaffingNext

Spec == Init /\ [][Next]_vars

-----------------------------------------------------------------------------
(* Safety                                                                   *)

(* "FAULT at the scheduled instant -> production stops" (README, causal     *)
(* chain): from the fault callback until a repair closes the episode the    *)
(* machine produces nothing, whatever the batch, duty, shift and cleaning   *)
(* callbacks do to it in between.                                           *)
UnrepairedFaultStopsProduction ==
  \A e \in Episode : epStatus[e] = "faulted" => ~IsProductive(state[epMachine[e]])

(* A machine that is down, or kept out of production for a repair, has work *)
(* booked or under way that will bring it back: no order of overlapping     *)
(* jobs, stage ends and cleaning ends leaves it out for good.               *)
NoMachineStranded ==
  \A m \in Machine : IsDowntime(state[m]) \/ pending[m] => OpenJobs(m) # {}

(* A fault is repaired, and once: from the fault until the episode is       *)
(* closed its machine is withheld from new work and the one repair booked   *)
(* for it is still to be done, whatever other jobs complete meanwhile; and  *)
(* no repair is booked for an episode that was averted or has not faulted   *)
(* yet, also when the fault callback and a completed job meet at an instant.*)
FaultHasOneRepair ==
  \A e \in Episode :
    LET repairs == {j \in Job : jobKind[j] = "CORRECTIVE" /\ jobCause[j] = e} IN
    /\ Cardinality(repairs) = IF epStatus[e] \in {"faulted", "repaired"} THEN 1 ELSE 0
    /\ epStatus[e] = "faulted" => pending[epMachine[e]] /\ repairs \subseteq OpenJobs(epMachine[e])

(* The callbacks that carry a batch forward.                                *)
Continuations(b) ==
  {t \in agenda : t[1] \in {"poll", "stage_end"} /\ t[2] = b}

(* Every active batch is carried by exactly one pending callback (or by the *)
(* one running), a finished or unordered one by none: a batch is never lost *)
(* and never driven twice.                                                  *)
OneContinuation ==
  \A b \in Batch :
    LET running == IF control[1] = "start_stage" /\ control[2] = b THEN 1 ELSE 0
    IN Cardinality(Continuations(b)) + running
         = IF batchStatus[b] = "active" THEN 1 ELSE 0

(* "One batch occupies one machine at a time": a machine holds a batch      *)
(* exactly while the end of a stage of that batch on that machine is        *)
(* booked, so no two machines hold one batch and no batch is on a machine   *)
(* another batch was given.                                                 *)
HeldWhileInStage ==
  \A m \in Machine, b \in Batch :
    currentBatch[m] = b <=> \E w \in 0..MaxRepairWaits : <<"stage_end", b, m, w>> \in agenda

(* Utilities on continuous duty are never handed a batch, although nothing  *)
(* in the choice of a machine looks at its duty.                            *)
ContinuousHoldsNoBatch ==
  \A m \in Machine : Duty[m] = "continuous" => currentBatch[m] = None

-----------------------------------------------------------------------------
(* Action properties                                                        *)

(* A utility that has been started stops only for failure or maintenance:   *)
(* it leaves production for downtime, or because a job on it was completed  *)
(* (the second of two overlapping jobs idles a machine that was restarted   *)
(* after the first); and no shift change powers it down.                    *)
ContinuousStopsOnlyForRepair ==
  [][\A m \in Machine : Duty[m] = "continuous" =>
       /\ IsProductive(state[m]) /\ ~IsProductive(state'[m])
            => \/ IsDowntime(state'[m])
               \/ \E j \in OpenJobs(m) : jobStatus'[j] = "COMPLETED"
       /\ ~IsOffline(state[m]) => ~IsOffline(state'[m])]_vars

-----------------------------------------------------------------------------
(* Refinement                                                               *)

Producing == {m \in Machine : IsProductive(state[m])}
Holders   == [b \in Batch |-> {m \in Machine : currentBatch[m] = b}]

Cycle == INSTANCE RepairCycle
           WITH on <- epMachine, outcome <- epStatus, producing <- Producing
Flow  == INSTANCE BatchFlow
           WITH status <- batchStatus, stage <- stageIndex, holders <- Holders

(* The plant implements the repair cycle: whatever order the warning, fault, *)
(* job, stage, cleaning, duty and shift callbacks run in, an episode faults  *)
(* at most once and is closed once, the fault stops the machine in the same  *)
(* step, and nothing starts a machine again while its fault is unrepaired.   *)
ImplementsRepairCycle == Cycle!Spec

(* The plant implements the batch flow: batches never exceed the limit, skip *)
(* or repeat a stage, share a machine, or run on one that does not serve     *)
(* their stage, whatever fails or is repaired under them.                    *)
ImplementsBatchFlow == Flow!Spec

-----------------------------------------------------------------------------
(* Fairness: the scheduler pops pending callbacks in time order and every    *)
(* callback is placed a finite time ahead, so none waits for ever although   *)
(* the periodic ticks keep running in between: strong fairness, because a    *)
(* tick makes every callback wait while it runs.  A callback that has begun  *)
(* finishes.  Ticks, shifts and hazards are given no fairness.               *)
Fairness ==
  /\ \A e \in Episode : SF_vars(Warn(e) \/ \E j \in Job : WarnAndPlan(e, j))
  /\ \A e \in Episode : SF_vars(\E j \in Job : Fault(e, j))
  /\ \A j \in Job : SF_vars(StartJob(j)) /\ SF_vars(CompleteJob(j))
  /\ \A b \in Batch :
       /\ SF_vars(Poll(b))
       /\ SF_vars(\E m \in Machine, w \in 0..MaxRepairWaits :
                    WaitForRepair(b, m, w) \/ CompleteStage(b, m, w))
  /\ WF_vars(control # Loop /\ BatchNext)

FairSpec == Spec /\ Fairness

(* Every degradation episode comes to an end: it is averted or repaired,     *)
(* whatever the ticks, shifts and batches do to the machine meanwhile.       *)
EpisodesEnd ==
  \A e \in Episode :
    epStatus[e] = "developing" ~> epStatus[e] \in {"averted", "repaired"}

(* A batch does not stay on a machine for ever, also when the machine is     *)
(* down each time the end of the stage comes round.                          *)
StagesEnd ==
  \A b \in Batch, i \in 0..(Stages - 1) :
    batchStatus[b] = "active" /\ stageIndex[b] = i /\ Holders[b] # {}
      ~> stageIndex[b] > i

(* Once every machine stays manned, every batch that was ordered completes.  *)
BatchesComplete ==
  <>[](\A m \in Machine : manned[m])
    => \A b \in Batch : batchStatus[b] = "active" ~> batchStatus[b] = "completed"
=============================================================================
