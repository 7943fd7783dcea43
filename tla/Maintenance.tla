----------------------------- MODULE Maintenance -----------------------------
(***************************************************************************)
(* MaintenanceEngine: preventive, predictive and corrective jobs, from the  *)
(* decision to book one to its completion.  Booking a job is a helper here  *)
(* because the warning and the fault callbacks book jobs too.               *)
(*                                                                          *)
(* Not represented: costs, parts, technicians, and the deferred preventive  *)
(* record, which is written once and never acted on.                        *)
(***************************************************************************)
EXTENDS Floor

Planned == {"PREVENTIVE", "PREDICTIVE"}

(* The bound on planned work leaves a job id for the repair of every        *)
(* episode, so that the bound never keeps a fault from booking its repair.  *)
PlannedJobs == {j \in Job : jobStatus[j] # "unborn" /\ jobKind[j] \in Planned}
MayPlan     == Cardinality(PlannedJobs) < MaxPlanned

(* Mutant of Schedule: a job for a machine that has one already is dropped. *)
ScheduleUnlessPending(j, m, kind, cause) ==
  IF pending[m] THEN UNCHANGED <<jobVars, pending>>
  ELSE /\ IsNext(jobStatus, j)
       /\ jobMachine' = [jobMachine EXCEPT ![j] = m]
       /\ jobKind' = [jobKind EXCEPT ![j] = kind]
       /\ jobCause' = [jobCause EXCEPT ![j] = cause]
       /\ jobStatus' = [jobStatus EXCEPT ![j] = "SCHEDULED"]
       /\ pending' = [pending EXCEPT ![m] = TRUE]

(* MaintenanceEngine.schedule: a new record in SCHEDULED, the machine       *)
(* flagged so that nothing new is put on it, and a start callback (which    *)
(* the calling action adds to the agenda).                                  *)
Schedule(j, m, kind, cause) ==
  /\ IsNext(jobStatus, j)
  /\ jobMachine' = [jobMachine EXCEPT ![j] = m]
  /\ jobKind' = [jobKind EXCEPT ![j] = kind]
  /\ jobCause' = [jobCause EXCEPT ![j] = cause]
  /\ jobStatus' = [jobStatus EXCEPT ![j] = "SCHEDULED"]
  /\ pending' = [pending EXCEPT ![m] = TRUE]

(* scan_preventive, for a machine whose interval is nearly up and whose     *)
(* work is not deferred.  The scan runs inside the hazard tick, machine by  *)
(* machine; what it does to one machine does not depend on the others, so   *)
(* one machine per step gives the same states.                              *)
ScanPreventive(m, j) ==
  /\ control = Loop
  /\ ~pending[m]
  /\ MayPlan
  /\ Schedule(j, m, "PREVENTIVE", None)
  /\ agenda' = agenda \cup {<<"start", j>>}
  /\ UNCHANGED <<state, currentBatch, manned, episodeVars, batchVars, control>>

(* The start callback.  Where the table gives no way to maintenance the     *)
(* callback re-books itself an hour later and changes nothing else, which   *)
(* leaves the agenda as it was: a stuttering step.                          *)
StartJob(j) ==
  LET m == jobMachine[j] IN
  /\ Pop(<<"start", j>>, {<<"end", j>>})
  /\ CanRoute(state[m], First["maintenance"])
  /\ state' = [state EXCEPT ![m] = ForceRoute(@, First["maintenance"])]
  /\ jobStatus' = [jobStatus EXCEPT ![j] = "IN_PROGRESS"]
  /\ UNCHANGED <<currentBatch, pending, manned, episodeVars, jobMachine,
                 jobKind, jobCause, batchVars, control>>

(* Mutant of Resolve: an episode that has faulted is left open.             *)
ResolveDeveloping(m) ==
  epStatus' = [e \in Episode |->
                 IF e \in ActiveEpisodes(m) /\ epStatus[e] = "developing"
                 THEN "averted" ELSE epStatus[e]]

(* Machine.resolve_episodes: every active episode of the machine is closed, *)
(* as averted when its fault had not arrived.                               *)
Resolve(m) ==
  epStatus' = [e \in Episode |->
                 IF e \notin ActiveEpisodes(m) THEN epStatus[e]
                 ELSE IF epStatus[e] = "developing" THEN "averted" ELSE "repaired"]

(* Mutant of CompleteJob: the machine is not handed back.                   *)
CompleteJobInPlace(j) ==
  /\ Pop(<<"end", j>>, {})
  /\ Resolve(jobMachine[j])
  /\ jobStatus' = [jobStatus EXCEPT ![j] = "COMPLETED"]
  /\ UNCHANGED <<machineVars, epMachine, hitBatch, jobMachine, jobKind, jobCause,
                 batchVars, control>>

(* The completion callback, record_maintenance included.                    *)
CompleteJob(j) ==
  LET m == jobMachine[j] IN
  /\ Pop(<<"end", j>>, {})
  /\ Resolve(m)
  /\ pending' = [pending EXCEPT ![m] = FALSE]
  /\ jobStatus' = [jobStatus EXCEPT ![j] = "COMPLETED"]
  /\ state' = [state EXCEPT ![m] = ForceRoute(@, First["idle"])]
  /\ UNCHANGED <<currentBatch, manned, epMachine, hitBatch, jobMachine,
                 jobKind, jobCause, batchVars, control>>

MaintenanceNext ==
  \/ \E m \in Machine, j \in Job : ScanPreventive(m, j)
  \/ \E j \in Job : StartJob(j)
  \/ \E j \in Job : CompleteJob(j)
=============================================================================
