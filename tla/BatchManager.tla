---------------------------- MODULE BatchManager ----------------------------
(***************************************************************************)
(* BatchManager: orders batches up to the work-in-process limit and drives  *)
(* each through its route, one machine per stage: wait for a machine, hold  *)
(* it for the stage, wait out its repairs, release it for cleaning, go on.  *)
(*                                                                          *)
(* _start_stage is called from three callbacks (the replenishment loop, the *)
(* polling callback and the end of the stage before); they hand over to it  *)
(* through `control`, and nothing runs in between.                          *)
(*                                                                          *)
(* Not represented: durations, quantities, process parameters and QC.       *)
(***************************************************************************)
EXTENDS FailureEngine

ActiveBatches == {b \in Batch : batchStatus[b] = "active"}

(* replenish, one turn of its loop: _create_batch registers the batch and   *)
(* starts its first stage.                                                  *)
CreateBatch(b) ==
  /\ control = Replenish
  /\ Cardinality(ActiveBatches) < MaxActive
  /\ IsNext(batchStatus, b)
  /\ batchStatus' = [batchStatus EXCEPT ![b] = "active"]
  /\ control' = <<"start_stage", b, Replenish>>
  /\ UNCHANGED <<machineVars, episodeVars, jobVars, stageIndex, stageFaults,
                 failureIds, agenda>>

(* The loop ends when the limit is reached, and before that when the        *)
(* horizon has passed or a material is short.                               *)
EndReplenish ==
  /\ control = Replenish
  /\ control' = Loop
  /\ UNCHANGED <<machineVars, episodeVars, jobVars, batchVars, agenda>>

(* Mutants of Candidates: a machine waiting for maintenance, one that       *)
(* another batch is on, or one not fit for the stage is offered.            *)
CandidatesPending(b) ==
  {m \in Serves[stageIndex[b] + 1] : currentBatch[m] = None /\ ~IsDowntime(state[m])
                                     /\ ~IsOffline(state[m]) /\ manned[m]}
CandidatesOccupied(b) ==
  {m \in Serves[stageIndex[b] + 1] : ~pending[m] /\ ~IsDowntime(state[m])
                                     /\ ~IsOffline(state[m]) /\ manned[m]}

CandidatesUnfit(b) ==
  {m \in Machine : currentBatch[m] = None /\ ~pending[m] /\ ~IsDowntime(state[m])
                   /\ ~IsOffline(state[m]) /\ manned[m]}

(* _select_machine: the free machines of the stage.  Which one of them it   *)
(* prefers depends on tags and running hours.                               *)
Candidates(b) ==
  {m \in Serves[stageIndex[b] + 1] :
     /\ currentBatch[m] = None
     /\ ~pending[m]
     /\ ~IsDowntime(state[m])
     /\ ~IsOffline(state[m])
     /\ manned[m]}

(* _start_stage with a machine: it holds the batch, is set up, is driven to *)
(* production, and the end of the stage is booked.                          *)
Occupy(b, m, back, booked) ==
  /\ control = <<"start_stage", b, back>>
  /\ m \in Candidates(b)
  /\ currentBatch' = [currentBatch EXCEPT ![m] = b]
  /\ state' = [state EXCEPT ![m] = ForceRoute(@, First["productive"])]
  /\ stageFaults' = [stageFaults EXCEPT ![b] = {}]
  /\ agenda' = agenda \cup {<<"stage_end", b, m, 0>>} \cup booked
  /\ control' = back
  /\ UNCHANGED <<pending, manned, jobVars, batchStatus, stageIndex, failureIds>>

StartStage(b, m, back) ==
  /\ Occupy(b, m, back, {})
  /\ UNCHANGED episodeVars

(* _perform_setup went wrong and Simulator._on_setup_error turned it into a *)
(* degradation episode.                                                     *)
StartStageMisset(b, m, back, e, warns) ==
  /\ Occupy(b, m, back, Onset(e, warns))
  /\ Initiate(e, m)

(* _start_stage with no machine free: it will be called again later.        *)
WaitForMachine(b, back) ==
  /\ control = <<"start_stage", b, back>>
  /\ Candidates(b) = {}
  /\ agenda' = agenda \cup {<<"poll", b>>}
  /\ control' = back
  /\ UNCHANGED <<machineVars, episodeVars, jobVars, batchVars>>

(* The polling callback tries again.  Mutant: it also stays booked.         *)
PollRepeats(b) ==
  /\ control = Loop /\ <<"poll", b>> \in agenda
  /\ control' = <<"start_stage", b, Loop>>
  /\ UNCHANGED <<machineVars, episodeVars, jobVars, batchVars, agenda>>

Poll(b) ==
  /\ Pop(<<"poll", b>>, {})
  /\ control' = <<"start_stage", b, Loop>>
  /\ UNCHANGED <<machineVars, episodeVars, jobVars, batchVars>>

(* Mutants of WaitForRepair: one wait too many; the end of the stage lost.  *)
WaitForRepairTooOften(b, m, waits) ==
  /\ IsDowntime(state[m]) /\ waits <= MaxRepairWaits
  /\ Pop(<<"stage_end", b, m, waits>>, {<<"stage_end", b, m, waits + 1>>})
  /\ UNCHANGED <<machineVars, episodeVars, jobVars, batchVars, control>>
WaitForRepairDropped(b, m, waits) ==
  /\ IsDowntime(state[m]) /\ waits < MaxRepairWaits
  /\ Pop(<<"stage_end", b, m, waits>>, {})
  /\ UNCHANGED <<machineVars, episodeVars, jobVars, batchVars, control>>

(* The stage-end callback while the machine is down: the stage waits an     *)
(* hour for the repair, a limited number of times.                          *)
WaitForRepair(b, m, waits) ==
  /\ IsDowntime(state[m]) /\ waits < MaxRepairWaits
  /\ Pop(<<"stage_end", b, m, waits>>, {<<"stage_end", b, m, waits + 1>>})
  /\ UNCHANGED <<machineVars, episodeVars, jobVars, batchVars, control>>

(* The batch is linked to the failure of the last episode, in the order     *)
(* they began, that faulted on its machine during the stage.                *)
LastFault(b) == {e \in stageFaults[b] : \A x \in stageFaults[b] : x <= e}

(* Machine.force_route_to on release: clean down where the plant has a      *)
(* cleaning state that can be reached, otherwise straight to idle.          *)
Cleans(m)     == Has("cleaning") /\ CanRoute(state[m], First["cleaning"])
Released(m)   == IF Cleans(m) THEN First["cleaning"] ELSE ForceRoute(state[m], First["idle"])

(* _complete_stage: the machine is released, the batch moves on to its next *)
(* stage at once, or is finished (_finish_batch).                           *)
CompleteStage(b, m, waits) ==
  LET last == stageIndex[b] + 1 = Stages IN
  /\ ~IsDowntime(state[m]) \/ waits >= MaxRepairWaits
  /\ Pop(<<"stage_end", b, m, waits>>,
         IF Cleans(m) THEN {<<"clean_end", m, b, stageIndex[b] + 1>>} ELSE {})
  /\ currentBatch' = [currentBatch EXCEPT ![m] = None]
  /\ failureIds' = [failureIds EXCEPT ![b] = @ \cup LastFault(b)]
  /\ state' = [state EXCEPT ![m] = Released(m)]
  /\ stageIndex' = [stageIndex EXCEPT ![b] = @ + 1]
  /\ batchStatus' = IF last THEN [batchStatus EXCEPT ![b] = "completed"] ELSE batchStatus
  /\ control' = IF last THEN Loop ELSE <<"start_stage", b, Loop>>
  /\ stageFaults' = [stageFaults EXCEPT ![b] = {}]
  /\ UNCHANGED <<pending, manned, episodeVars, jobVars>>

(* The cleaning-end callback idles the machine, whatever it is doing by then. *)
EndCleaning(m, b, i) ==
  /\ Pop(<<"clean_end", m, b, i>>, {})
  /\ state' = [state EXCEPT ![m] = ForceRoute(@, First["idle"])]
  /\ UNCHANGED <<currentBatch, pending, manned, episodeVars, jobVars, batchVars, control>>

BatchNext ==
  \/ \E b \in Batch : CreateBatch(b)
  \/ EndReplenish
  \/ \E b \in Batch, m \in Machine, back \in {Loop, Replenish} : StartStage(b, m, back)
  \/ \E b \in Batch, m \in Machine, back \in {Loop, Replenish},
        e \in Episode, w \in BOOLEAN : StartStageMisset(b, m, back, e, w)
  \/ \E b \in Batch, back \in {Loop, Replenish} : WaitForMachine(b, back)
  \/ \E b \in Batch : Poll(b)
  \/ \E b \in Batch, m \in Machine, w \in 0..MaxRepairWaits : WaitForRepair(b, m, w)
  \/ \E b \in Batch, m \in Machine, w \in 0..MaxRepairWaits : CompleteStage(b, m, w)
  \/ \E m \in Machine, b \in Batch, i \in Stage : EndCleaning(m, b, i)
=============================================================================
