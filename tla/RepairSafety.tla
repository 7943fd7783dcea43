----------------------------- MODULE RepairSafety -----------------------------
(***************************************************************************)
(* Proofs about the repairs of the plant floor, for every plant:            *)
(*                                                                          *)
(*   RepairedOnce       a fault has exactly one repair, open until the      *)
(*                      episode is closed                                   *)
(*   NothingStranded    a machine that is down or withheld has an open job  *)
(*   UtilitiesHoldNone  continuous utilities never hold a batch             *)
(*   UtilitiesKeepOn    and stop only for failure or repair                 *)
(*                                                                          *)
(* Few steps touch the jobs.  RepairSteps says what each step does to them  *)
(* and to the episodes that have faulted; the invariants follow from it     *)
(* case by case.                                                            *)
(***************************************************************************)
EXTENDS PlantSafety

-----------------------------------------------------------------------------
(* What a step does to jobs, faults and downtime                            *)

Faulted(e) == epStatus[e] \in {"faulted", "repaired"}

(* The step leaves alone the episodes that have faulted, makes no other one *)
(* fault, and puts no machine down.                                         *)
NoneFails ==
  /\ \A e \in Episode :
       Faulted(e) \/ Faulted(e)' => epStatus'[e] = epStatus[e] /\ epMachine'[e] = epMachine[e]
  /\ \A m \in Machine : IsDowntime(state'[m]) => IsDowntime(state[m])

(* The start and end callbacks of the jobs stay as they are.                *)
JobTasksKept ==
  \A j \in Job : /\ <<"start", j>> \in agenda' <=> <<"start", j>> \in agenda
                 /\ <<"end", j>> \in agenda' <=> <<"end", j>> \in agenda

(* Planned work is booked for machine m.                                    *)
Books(j, m) ==
  /\ \E kind \in Planned, cause \in Episode \cup {None} : Schedule(j, m, kind, cause)
  /\ agenda' \in {agenda \cup {<<"start", j>>}} \cup
                 {(agenda \ {<<"warn", e>>}) \cup {<<"start", j>>} : e \in Episode}
  /\ NoneFails

Apart == NoneFails /\ JobTasksKept /\ UNCHANGED <<jobVars, pending>>

RepairStep ==
  \/ Apart
  \/ \E j \in Job, m \in Machine : Books(j, m)
  \/ \E e \in Episode, j \in Job : Fault(e, j)
  \/ \E j \in Job : StartJob(j)
  \/ \E j \in Job : CompleteJob(j)

(* Every move but the fault and the start of a job leaves a machine up that *)
(* is up.                                                                   *)
LEMMA MovesKeepUp ==
  ASSUME NEW s \in State
  PROVE  /\ IsDowntime(TransitionTo(s, First["warning"])) => IsDowntime(s)
         /\ \A r \in {"productive", "idle", "cleaning", "offline"} :
              IsDowntime(ForceRoute(s, First[r])) => IsDowntime(s)
BY Recoverable DEF TransitionTo, ForceRoute, IsDowntime

(* A step that leaves the episodes alone, and moves no machine but in those *)
(* ways.                                                                    *)
LEMMA BeginningFailsNone ==
  ASSUME FaultInv, NEW e \in Episode, NEW m \in Machine, Initiate(e, m),
         \A x \in Machine : IsDowntime(state'[x]) => IsDowntime(state[x])
  PROVE  NoneFails
BY DEF NoneFails, Faulted, Initiate, IsNext, FaultInv, FaultTypes

LEMMA FailuresRepairStep ==
  ASSUME Types, FaultInv, FailureNext
  PROVE  RepairStep
<1> USE DEF Types, MachineTypes
<1>1. ASSUME NEW m \in Machine, NEW e \in Episode, NEW w \in BOOLEAN,
             EvaluateHazard(m, e, w) \/ Inject(m, e, w)
      PROVE  Apart
  <2>1. /\ Initiate(e, m) /\ agenda' = agenda \cup Onset(e, w)
        /\ UNCHANGED <<machineVars, jobVars>>
    BY <1>1 DEF EvaluateHazard, Inject
  <2>2. NoneFails
    BY <2>1, BeginningFailsNone DEF machineVars
  <2>3. JobTasksKept
    BY <2>1 DEF JobTasksKept, Onset
  <2>4. QED
    BY <2>1, <2>2, <2>3 DEF Apart, machineVars
<1>2. ASSUME NEW m \in Machine, WarnMachine(m), UNCHANGED episodeVars
      PROVE  NoneFails
  <2>1. \A x \in Machine : IsDowntime(state'[x]) => IsDowntime(state[x])
    BY <1>2, MovesKeepUp DEF WarnMachine
  <2>2. QED
    BY <1>2, <2>1 DEF NoneFails, Faulted, episodeVars
<1>3. ASSUME NEW e \in Episode, epStatus[e] = "developing"
      PROVE  epMachine[e] \in Machine
  BY <1>3 DEF FaultInv, EpisodesPlaced
<1>4. ASSUME NEW e \in Episode, Warn(e)
      PROVE  Apart
  <2>1. NoneFails
    BY <1>2, <1>3, <1>4 DEF Warn
  <2>2. JobTasksKept
    BY <1>4 DEF JobTasksKept, Warn, Pop
  <2>3. QED
    BY <1>4, <2>1, <2>2 DEF Apart, Warn
<1>5. ASSUME NEW e \in Episode, NEW j \in Job, WarnAndPlan(e, j)
      PROVE  Books(j, epMachine[e]) /\ epMachine[e] \in Machine
  <2>1. NoneFails
    BY <1>2, <1>3, <1>5 DEF WarnAndPlan
  <2>2. QED
    BY <1>3, <1>5, <2>1 DEF Books, WarnAndPlan, Pop, Planned
<1>6. ASSUME NEW kind \in {"warn", "fault"}, NEW e \in Episode, StaleCallback(kind, e)
      PROVE  Apart
  <2>1. NoneFails
    BY <1>6 DEF NoneFails, StaleCallback, machineVars, episodeVars, Faulted
  <2>2. JobTasksKept
    BY <1>6 DEF JobTasksKept, StaleCallback, Pop
  <2>3. QED
    BY <1>6, <2>1, <2>2 DEF Apart, StaleCallback, machineVars
<1>7. QED
  BY <1>1, <1>4, <1>5, <1>6 DEF FailureNext, RepairStep

LEMMA MaintenanceRepairStep ==
  ASSUME Types, MaintenanceNext
  PROVE  RepairStep
<1>1. ASSUME NEW m \in Machine, NEW j \in Job, ScanPreventive(m, j)
      PROVE  Books(j, m)
  <2>1. NoneFails
    BY <1>1 DEF NoneFails, ScanPreventive, episodeVars, Faulted
  <2>2. QED
    BY <1>1, <2>1 DEF Books, ScanPreventive, Planned
<1>2. QED
  BY <1>1 DEF MaintenanceNext, RepairStep

LEMMA BatchesRepairStep ==
  ASSUME Types, FaultInv, BatchNext
  PROVE  RepairStep
<1> USE DEF Types, MachineTypes
<1>1. ASSUME NEW b, NEW m \in Machine, NEW back, NEW booked, Occupy(b, m, back, booked)
      PROVE  /\ \A x \in Machine : IsDowntime(state'[x]) => IsDowntime(state[x])
             /\ agenda' = agenda \cup {<<"stage_end", b, m, 0>>} \cup booked
             /\ UNCHANGED <<jobVars, pending>>
  BY <1>1, MovesKeepUp DEF Occupy
<1>2. ASSUME NEW b \in Batch, NEW m \in Machine, NEW back, StartStage(b, m, back)
      PROVE  Apart
  <2>1. Occupy(b, m, back, {}) /\ UNCHANGED episodeVars
    BY <1>2 DEF StartStage
  <2>2. NoneFails
    BY <1>1, <2>1 DEF NoneFails, episodeVars, Faulted
  <2>3. agenda' = agenda \cup {<<"stage_end", b, m, 0>>} \cup {}
    BY <1>1, <2>1
  <2>4. JobTasksKept
    BY <2>3 DEF JobTasksKept
  <2>5. QED
    BY <1>1, <2>1, <2>2, <2>4 DEF Apart
<1>3. ASSUME NEW b \in Batch, NEW m \in Machine, NEW back, NEW e \in Episode,
             NEW w \in BOOLEAN, StartStageMisset(b, m, back, e, w)
      PROVE  Apart
  <2>1. Occupy(b, m, back, Onset(e, w)) /\ Initiate(e, m)
    BY <1>3 DEF StartStageMisset
  <2>2. NoneFails
    BY <1>1, <2>1, BeginningFailsNone
  <2>3. agenda' = agenda \cup {<<"stage_end", b, m, 0>>} \cup Onset(e, w)
    BY <1>1, <2>1
  <2>4. JobTasksKept
    BY <2>3 DEF JobTasksKept, Onset
  <2>5. QED
    BY <1>1, <2>1, <2>2, <2>4 DEF Apart
<1>4. ASSUME UNCHANGED <<machineVars, episodeVars, jobVars>>
      PROVE  NoneFails /\ UNCHANGED <<jobVars, pending>>
  BY <1>4 DEF NoneFails, machineVars, episodeVars, Faulted
<1>5. ASSUME NEW b \in Batch, CreateBatch(b) \/ EndReplenish \/ Poll(b)
      PROVE  Apart
  <2>1. JobTasksKept
    BY <1>5 DEF CreateBatch, EndReplenish, Poll, Pop, JobTasksKept
  <2>2. QED
    BY <1>4, <1>5, <2>1 DEF CreateBatch, EndReplenish, Poll, Apart
<1>6. ASSUME NEW b \in Batch, NEW back, WaitForMachine(b, back)
      PROVE  Apart
  <2>1. JobTasksKept
    BY <1>6 DEF WaitForMachine, JobTasksKept
  <2>2. QED
    BY <1>4, <1>6, <2>1 DEF WaitForMachine, Apart
<1>7. ASSUME NEW b \in Batch, NEW m \in Machine, NEW w, WaitForRepair(b, m, w)
      PROVE  Apart
  <2>1. JobTasksKept
    BY <1>7 DEF WaitForRepair, Pop, JobTasksKept
  <2>2. QED
    BY <1>4, <1>7, <2>1 DEF WaitForRepair, Apart
<1>8. ASSUME NEW b \in Batch, NEW m \in Machine, NEW w, CompleteStage(b, m, w)
      PROVE  Apart
  <2>1. \A x \in Machine : IsDowntime(state'[x]) => IsDowntime(state[x])
    <3>1. state' = [state EXCEPT ![m] = Released(m)]
      BY <1>8 DEF CompleteStage
    <3>2. IsDowntime(Released(m)) => IsDowntime(state[m])
      BY MovesKeepUp DEF Released, Cleans, ForceRoute
    <3>3. QED
      BY <3>1, <3>2
  <2>2. NoneFails
    BY <1>8, <2>1 DEF NoneFails, CompleteStage, episodeVars, Faulted
  <2>3. JobTasksKept
    BY <1>8 DEF CompleteStage, Pop, JobTasksKept
  <2>4. QED
    BY <1>8, <2>2, <2>3 DEF CompleteStage, Apart
<1>9. ASSUME NEW m \in Machine, NEW b, NEW i, EndCleaning(m, b, i)
      PROVE  Apart
  <2>1. \A x \in Machine : IsDowntime(state'[x]) => IsDowntime(state[x])
    BY <1>9, MovesKeepUp DEF EndCleaning
  <2>2. NoneFails
    BY <1>9, <2>1 DEF NoneFails, EndCleaning, episodeVars, Faulted
  <2>3. JobTasksKept
    BY <1>9 DEF EndCleaning, Pop, JobTasksKept
  <2>4. QED
    BY <1>9, <2>2, <2>3 DEF EndCleaning, Apart
<1>10. CASE EndReplenish
  <2>1. JobTasksKept
    BY <1>10 DEF EndReplenish, JobTasksKept
  <2>2. QED
    BY <1>4, <1>10, <2>1 DEF EndReplenish, Apart, RepairStep
<1>11. QED
  BY <1>2, <1>3, <1>5, <1>6, <1>7, <1>8, <1>9, <1>10 DEF BatchNext, RepairStep

LEMMA StaffingRepairStep ==
  ASSUME Types, StaffingNext
  PROVE  RepairStep
<1> USE DEF Types, MachineTypes
<1>1. \A m \in Machine : IsDowntime(ForceRoute(state[m], Parked)) => IsDowntime(state[m])
  BY MovesKeepUp DEF Parked
<1>2. \A m \in Machine : IsDowntime(AfterDuty(m)) => IsDowntime(state[m])
  BY MovesKeepUp DEF AfterDuty
<1>3. \A m \in Machine : IsDowntime(state'[m]) => IsDowntime(state[m])
  BY <1>1, <1>2, MovesKeepUp DEF StaffingNext, StartShift, ProductionTick
<1>4. UNCHANGED <<episodeVars, jobVars, pending, agenda>>
  BY DEF StaffingNext, StartShift, ProductionTick
<1>5. QED
  BY <1>3, <1>4 DEF RepairStep, Apart, NoneFails, JobTasksKept, episodeVars, Faulted

LEMMA RepairSteps ==
  ASSUME Types, FaultInv, [Next]_vars
  PROVE  RepairStep
<1>1. CASE UNCHANGED vars
  BY <1>1 DEF RepairStep, Apart, NoneFails, JobTasksKept, vars, machineVars, episodeVars,
              Faulted
<1>2. QED
  BY <1>1, FailuresRepairStep, MaintenanceRepairStep, BatchesRepairStep, StaffingRepairStep
  DEF Next

-----------------------------------------------------------------------------
(* One repair for each fault                                                *)

RepairsOf(e) == {j \in Job : jobKind[j] = "CORRECTIVE" /\ jobCause[j] = e}

(* An episode that has faulted, and no other, has a repair, and one only;   *)
(* until the episode is closed that repair is open on its machine.          *)
OneRepair ==
  \A e \in Episode :
    /\ \A i, j \in RepairsOf(e) : i = j
    /\ Faulted(e) <=> RepairsOf(e) # {}
    /\ epStatus[e] = "faulted" => RepairsOf(e) \subseteq OpenJobs(epMachine[e])

(* A job id that was not handed out is no repair.                           *)
UnbornRepairNothing == \A j \in Job : jobStatus[j] = "unborn" => jobKind[j] # "CORRECTIVE"

RepairInv == OneRepair /\ UnbornRepairNothing

LEMMA ApartKeepsRepairs ==
  ASSUME RepairInv, Apart
  PROVE  RepairInv'
<1>1. \A e \in Episode : RepairsOf(e)' = RepairsOf(e)
  BY DEF Apart, RepairsOf, jobVars
<1>2. \A m : OpenJobs(m)' = OpenJobs(m)
  BY DEF Apart, OpenJobs, jobVars
<1>3. OneRepair'
  BY <1>1, <1>2 DEF RepairInv, OneRepair, Apart, NoneFails, Faulted
<1>4. UnbornRepairNothing'
  BY DEF RepairInv, UnbornRepairNothing, Apart, jobVars
<1>5. QED
  BY <1>3, <1>4 DEF RepairInv

(* A planned job takes an id that no repair has, and is none itself.        *)
LEMMA BookingKeepsRepairs ==
  ASSUME Types, RepairInv, NEW j \in Job, NEW m \in Machine, Books(j, m)
  PROVE  RepairInv'
<1>1. PICK kind \in Planned, cause \in Episode \cup {None} : Schedule(j, m, kind, cause)
  BY DEF Books
<1>2. /\ jobStatus[j] = "unborn" /\ kind # "CORRECTIVE"
      /\ jobMachine' = [jobMachine EXCEPT ![j] = m]
      /\ jobKind' = [jobKind EXCEPT ![j] = kind]
      /\ jobCause' = [jobCause EXCEPT ![j] = cause]
      /\ jobStatus' = [jobStatus EXCEPT ![j] = "SCHEDULED"]
  BY <1>1 DEF Schedule, IsNext, Planned
<1>3. ASSUME NEW e \in Episode
      PROVE  RepairsOf(e)' = RepairsOf(e)
  BY <1>2 DEF RepairsOf, Types, JobTypes, RepairInv, UnbornRepairNothing
<1>4. ASSUME NEW x
      PROVE  OpenJobs(x) \subseteq OpenJobs(x)'
  BY <1>2 DEF OpenJobs, Types, JobTypes
<1>5. OneRepair'
  BY <1>3, <1>4 DEF RepairInv, OneRepair, Books, NoneFails, Faulted
<1>6. UnbornRepairNothing'
  BY <1>2 DEF RepairInv, UnbornRepairNothing, Types, JobTypes
<1>7. QED
  BY <1>5, <1>6 DEF RepairInv

(* The fault is that of an episode still developing, because its callback   *)
(* runs once, so the repair it books is the first.                          *)
LEMMA FaultKeepsRepairs ==
  ASSUME Types, CycleInv, RepairInv, NEW e \in Episode, NEW j \in Job, Fault(e, j)
  PROVE  RepairInv'
<1> DEFINE m == epMachine[e]
<1>1. epStatus[e] = "developing" /\ m \in Machine
  BY DEF Fault, Pop, Active, CycleInv, FaultBookedOnce, FaultInv, EpisodesPlaced
<1>2. /\ jobStatus[j] = "unborn"
      /\ jobMachine' = [jobMachine EXCEPT ![j] = m]
      /\ jobKind' = [jobKind EXCEPT ![j] = "CORRECTIVE"]
      /\ jobCause' = [jobCause EXCEPT ![j] = e]
      /\ jobStatus' = [jobStatus EXCEPT ![j] = "SCHEDULED"]
      /\ epStatus' = [epStatus EXCEPT ![e] = "faulted"]
      /\ epMachine' = epMachine
  BY DEF Fault, Schedule, IsNext
<1> USE DEF Types, JobTypes, EpisodeTypes
<1>3. j \in OpenJobs(m)'
  BY <1>2 DEF OpenJobs
<1>4. RepairsOf(e)' = {j}
  <2>1. RepairsOf(e) = {}
    BY <1>1 DEF RepairInv, OneRepair, Faulted
  <2>2. QED
    BY <1>2, <2>1 DEF RepairsOf
<1>5. ASSUME NEW f \in Episode \ {e}
      PROVE  /\ RepairsOf(f)' = RepairsOf(f)
             /\ epStatus'[f] = epStatus[f]
             /\ OpenJobs(epMachine[f]) \subseteq OpenJobs(epMachine[f])'
  <2>1. RepairsOf(f)' = RepairsOf(f)
    BY <1>2 DEF RepairsOf, RepairInv, UnbornRepairNothing
  <2>2. OpenJobs(epMachine[f]) \subseteq OpenJobs(epMachine[f])'
    BY <1>2 DEF OpenJobs
  <2>3. QED
    BY <1>2, <2>1, <2>2
<1>6. ASSUME NEW f \in Episode
      PROVE  /\ \A x, y \in RepairsOf(f)' : x = y
             /\ Faulted(f)' <=> RepairsOf(f)' # {}
             /\ epStatus'[f] = "faulted" => RepairsOf(f)' \subseteq OpenJobs(epMachine[f])'
  <2>1. CASE f = e
    BY <1>2, <1>3, <1>4, <2>1 DEF Faulted
  <2>2. CASE f # e
    BY <1>2, <1>5, <2>2 DEF RepairInv, OneRepair, Faulted
  <2>3. QED
    BY <2>1, <2>2
<1>7. OneRepair'
  BY <1>2, <1>6 DEF OneRepair, OpenJobs
<1>8. UnbornRepairNothing'
  BY <1>2 DEF RepairInv, UnbornRepairNothing
<1>9. QED
  BY <1>7, <1>8 DEF RepairInv

(* A job that starts stays open.                                            *)
LEMMA StartKeepsRepairs ==
  ASSUME Types, RepairInv, NEW j \in Job, StartJob(j)
  PROVE  RepairInv'
<1>1. /\ jobStatus' = [jobStatus EXCEPT ![j] = "IN_PROGRESS"]
      /\ UNCHANGED <<jobMachine, jobKind, jobCause, epMachine, epStatus>>
  BY DEF StartJob, episodeVars
<1>2. \A e \in Episode : RepairsOf(e)' = RepairsOf(e)
  BY <1>1 DEF RepairsOf
<1>3. ASSUME NEW e \in Episode, epStatus[e] = "faulted", NEW i \in RepairsOf(e)
      PROVE  i \in OpenJobs(epMachine[e])'
  BY <1>1, <1>3 DEF RepairInv, OneRepair, OpenJobs, Types, JobTypes
<1>4. OneRepair'
  BY <1>1, <1>2, <1>3 DEF RepairInv, OneRepair, Faulted
<1>5. UnbornRepairNothing'
  BY <1>1 DEF RepairInv, UnbornRepairNothing, Types, JobTypes
<1>6. QED
  BY <1>4, <1>5 DEF RepairInv

(* A job that ends closes every fault of its machine, so an episode still   *)
(* faulted afterwards is on another machine and the job is not its repair.  *)
LEMMA CompletionKeepsRepairs ==
  ASSUME Types, FaultInv, RepairInv, NEW j \in Job, CompleteJob(j)
  PROVE  RepairInv'
<1> DEFINE m == jobMachine[j]
<1>1. /\ Resolve(m)
      /\ jobStatus' = [jobStatus EXCEPT ![j] = "COMPLETED"]
      /\ UNCHANGED <<jobMachine, jobKind, jobCause, epMachine>>
  BY DEF CompleteJob
<1> USE DEF Types, JobTypes, EpisodeTypes
<1>2. \A e \in Episode : RepairsOf(e)' = RepairsOf(e) /\ (Faulted(e)' <=> Faulted(e))
  BY <1>1 DEF RepairsOf, Resolve, ActiveEpisodes, Faulted
<1>3. ASSUME NEW e \in Episode, epStatus'[e] = "faulted", NEW i \in RepairsOf(e)
      PROVE  i \in OpenJobs(epMachine[e])'
  <2>1. epStatus[e] = "faulted" /\ epMachine[e] # m
    BY <1>1, <1>3 DEF Resolve, ActiveEpisodes
  <2>2. i \in OpenJobs(epMachine[e])
    BY <1>3, <2>1 DEF RepairInv, OneRepair
  <2>3. i # j
    BY <2>1, <2>2 DEF OpenJobs
  <2>4. QED
    BY <1>1, <2>2, <2>3 DEF OpenJobs
<1>4. OneRepair'
  BY <1>1, <1>2, <1>3 DEF RepairInv, OneRepair
<1>5. UnbornRepairNothing'
  BY <1>1 DEF RepairInv, UnbornRepairNothing
<1>6. QED
  BY <1>4, <1>5 DEF RepairInv

LEMMA RepairInvHolds == Spec => []RepairInv
<1>1. Init => RepairInv
  <2> SUFFICES ASSUME Init
               PROVE  RepairInv
    OBVIOUS
  <2>1. \A e \in Episode : RepairsOf(e) = {} /\ ~Faulted(e) /\ epStatus[e] # "faulted"
    BY DEF Init, RepairsOf, Faulted
  <2>2. QED
    BY <2>1 DEF Init, RepairInv, OneRepair, UnbornRepairNothing
<1>2. BatchInv /\ CycleInv /\ RepairInv /\ [Next]_vars => RepairInv'
  <2> SUFFICES ASSUME BatchInv, CycleInv, RepairInv, [Next]_vars
               PROVE  RepairInv'
    OBVIOUS
  <2>1. Types /\ FaultInv
    BY DEF BatchInv, CycleInv
  <2>2. RepairStep
    BY <2>1, RepairSteps
  <2>3. QED
    BY <2>1, <2>2, ApartKeepsRepairs, BookingKeepsRepairs, FaultKeepsRepairs,
       StartKeepsRepairs, CompletionKeepsRepairs
    DEF RepairStep
<1>3. QED
  BY <1>1, <1>2, BatchInvHolds, CycleInvHolds, PTL DEF Spec

(* A fault is repaired, and once: from the fault until the episode is       *)
(* closed its machine is withheld and the one repair booked for it is still *)
(* to be done; an episode that was averted has none.                        *)
THEOREM RepairedOnce == Spec => []FaultHasOneRepair
<1>1. CycleInv /\ RepairInv => FaultHasOneRepair
  <2> SUFFICES ASSUME FaultInv, RepairInv, NEW e \in Episode
               PROVE  /\ Cardinality(RepairsOf(e))
                           = IF epStatus[e] \in {"faulted", "repaired"} THEN 1 ELSE 0
                      /\ epStatus[e] = "faulted" =>
                           /\ pending[epMachine[e]]
                           /\ RepairsOf(e) \subseteq OpenJobs(epMachine[e])
    BY DEF CycleInv, FaultHasOneRepair, RepairsOf
  <2>1. CASE Faulted(e)
    <3>1. PICK j : RepairsOf(e) = {j}
      BY <2>1 DEF RepairInv, OneRepair
    <3>2. Cardinality(RepairsOf(e)) = 1
      BY <3>1, FS_Singleton
    <3>3. QED
      BY <2>1, <3>2 DEF Faulted, RepairInv, OneRepair, FaultInv, FaultWithholds
  <2>2. CASE ~Faulted(e)
    <3>1. RepairsOf(e) = {}
      BY <2>2 DEF RepairInv, OneRepair
    <3>2. Cardinality(RepairsOf(e)) = 0
      BY <3>1, FS_EmptySet
    <3>3. QED
      BY <2>2, <3>2 DEF Faulted
  <2>3. QED
    BY <2>1, <2>2
<1>2. QED
  BY <1>1, CycleInvHolds, RepairInvHolds, PTL

-----------------------------------------------------------------------------
(* No machine is left standing                                              *)

LEMMA NoneStrandedKept ==
  ASSUME Types, FaultInv, NoMachineStranded, RepairStep
  PROVE  NoMachineStranded'
<1> USE DEF Types, MachineTypes, JobTypes
<1>1. CASE Apart
  <2>1. \A m : OpenJobs(m)' = OpenJobs(m)
    BY <1>1 DEF Apart, OpenJobs, jobVars
  <2>2. QED
    BY <1>1, <2>1 DEF Apart, NoneFails, NoMachineStranded, IsDowntime
<1>2. ASSUME NEW j \in Job, NEW m, NEW kind, NEW cause, Schedule(j, m, kind, cause)
      PROVE  /\ j \in OpenJobs(m)'
             /\ \A x : OpenJobs(x) \subseteq OpenJobs(x)'
             /\ \A x \in Machine \ {m} : pending'[x] = pending[x]
  BY <1>2 DEF Schedule, IsNext, OpenJobs
<1>3. ASSUME NEW j \in Job, NEW m \in Machine, Books(j, m)
      PROVE  NoMachineStranded'
  BY <1>2, <1>3 DEF Books, NoneFails, NoMachineStranded, IsDowntime
<1>4. ASSUME NEW e \in Episode, NEW j \in Job, Fault(e, j)
      PROVE  NoMachineStranded'
  <2> DEFINE m == epMachine[e]
  <2>1. /\ Schedule(j, m, "CORRECTIVE", e)
        /\ state' = [state EXCEPT ![m] = TransitionTo(@, First["fault"])]
    BY <1>4 DEF Fault
  <2>2. \A x \in Machine \ {m} : state'[x] = state[x] /\ pending'[x] = pending[x]
    BY <1>2, <2>1
  <2>3. QED
    BY <1>2, <2>1, <2>2 DEF NoMachineStranded, IsDowntime
<1>5. ASSUME NEW j \in Job, StartJob(j)
      PROVE  NoMachineStranded'
  <2> DEFINE m == jobMachine[j]
  <2>1. /\ state' = [state EXCEPT ![m] = ForceRoute(@, First["maintenance"])]
        /\ jobStatus' = [jobStatus EXCEPT ![j] = "IN_PROGRESS"]
        /\ UNCHANGED <<jobMachine, pending>>
    BY <1>5 DEF StartJob
  <2>2. j \in OpenJobs(m)' /\ \A x : OpenJobs(x) \subseteq OpenJobs(x)'
    BY <2>1 DEF OpenJobs
  <2>3. \A x \in Machine \ {m} : state'[x] = state[x] /\ pending'[x] = pending[x]
    BY <2>1
  <2>4. ASSUME NEW x \in Machine \ {m}, IsDowntime(state'[x]) \/ pending'[x]
        PROVE  OpenJobs(x)' # {}
    BY <2>2, <2>3, <2>4 DEF NoMachineStranded
  <2>5. QED
    BY <2>1, <2>2, <2>4 DEF NoMachineStranded, IsDowntime
<1>6. ASSUME NEW j \in Job, CompleteJob(j)
      PROVE  NoMachineStranded'
  <2> DEFINE m == jobMachine[j]
  <2>1. /\ state' = [state EXCEPT ![m] = ForceRoute(@, First["idle"])]
        /\ pending' = [pending EXCEPT ![m] = FALSE]
        /\ jobStatus' = [jobStatus EXCEPT ![j] = "COMPLETED"]
        /\ UNCHANGED jobMachine
    BY <1>6 DEF CompleteJob
  <2>2. \A x \in Machine \ {m} : /\ state'[x] = state[x] /\ pending'[x] = pending[x]
                                 /\ OpenJobs(x) \subseteq OpenJobs(x)'
    BY <2>1 DEF OpenJobs
  <2>3. m \in Machine => ~IsDowntime(state'[m]) /\ ~pending'[m]
    BY <2>1, Recoverable DEF ForceRoute, IsDowntime
  <2>4. ASSUME NEW x \in Machine, IsDowntime(state'[x]) \/ pending'[x]
        PROVE  OpenJobs(x)' # {}
    <3>1. x # m
      BY <2>3, <2>4
    <3>2. OpenJobs(x) # {} /\ OpenJobs(x) \subseteq OpenJobs(x)'
      BY <2>2, <2>4, <3>1 DEF NoMachineStranded
    <3>3. QED
      BY <3>2
  <2>5. QED
    BY <2>4 DEF NoMachineStranded, IsDowntime
<1>7. QED
  BY <1>1, <1>3, <1>4, <1>5, <1>6 DEF RepairStep

(* A machine that is down, or withheld, has work open that brings it back,  *)
(* in any order in which jobs, stage ends and cleaning ends overlap.        *)
THEOREM NothingStranded == Spec => []NoMachineStranded
<1>1. Init => NoMachineStranded
  BY Recoverable DEF Init, NoMachineStranded, IsDowntime
<1>2. BatchInv /\ CycleInv /\ NoMachineStranded /\ [Next]_vars => NoMachineStranded'
  BY RepairSteps, NoneStrandedKept DEF BatchInv, CycleInv
<1>3. QED
  BY <1>1, <1>2, BatchInvHolds, CycleInvHolds, PTL DEF Spec

-----------------------------------------------------------------------------
(* Utilities                                                                *)

Utility(m) == Duty[m] = "continuous"

(* Batches are kept off the utilities by the operators they never get, and  *)
(* cleaning is booked where a batch was.                                    *)
UtilityInv ==
  \A m \in Machine : Utility(m) =>
    /\ ~manned[m]
    /\ currentBatch[m] = None
    /\ \A b \in Batch, i \in Stage : <<"clean_end", m, b, i>> \notin agenda

(* A job that is to end is under way, and one that is to start is not.      *)
JobCallbacks ==
  \A j \in Job : /\ <<"start", j>> \in agenda => jobStatus[j] = "SCHEDULED"
                 /\ <<"end", j>> \in agenda => jobStatus[j] = "IN_PROGRESS"

LEMMA JobCallbacksKept ==
  ASSUME Types, JobCallbacks, RepairStep
  PROVE  JobCallbacks'
<1> USE DEF Types, JobTypes
<1>1. CASE Apart
  BY <1>1 DEF Apart, JobTasksKept, JobCallbacks, jobVars
<1>2. ASSUME NEW j \in Job, jobStatus[j] = "unborn",
             jobStatus' = [jobStatus EXCEPT ![j] = "SCHEDULED"],
             \A i \in Job : /\ <<"start", i>> \in agenda' => <<"start", i>> \in agenda \/ i = j
                            /\ <<"end", i>> \in agenda' => <<"end", i>> \in agenda
      PROVE  JobCallbacks'
  BY <1>2 DEF JobCallbacks
<1>3. ASSUME NEW j \in Job, NEW m \in Machine, Books(j, m)
      PROVE  JobCallbacks'
  <2>1. jobStatus[j] = "unborn" /\ jobStatus' = [jobStatus EXCEPT ![j] = "SCHEDULED"]
    BY <1>3 DEF Books, Schedule, IsNext
  <2>2. agenda' \subseteq agenda \cup {<<"start", j>>}
    BY <1>3 DEF Books
  <2>3. QED
    BY <1>2, <2>1, <2>2
<1>4. ASSUME NEW e \in Episode, NEW j \in Job, Fault(e, j)
      PROVE  JobCallbacks'
  <2>1. jobStatus[j] = "unborn" /\ jobStatus' = [jobStatus EXCEPT ![j] = "SCHEDULED"]
    BY <1>4 DEF Fault, Schedule, IsNext
  <2>2. agenda' \subseteq agenda \cup {<<"start", j>>}
    BY <1>4 DEF Fault, Pop
  <2>3. QED
    BY <1>2, <2>1, <2>2
<1>5. ASSUME NEW j \in Job, StartJob(j)
      PROVE  JobCallbacks'
  <2>1. /\ <<"start", j>> \in agenda
        /\ agenda' = (agenda \ {<<"start", j>>}) \cup {<<"end", j>>}
        /\ jobStatus' = [jobStatus EXCEPT ![j] = "IN_PROGRESS"]
    BY <1>5 DEF StartJob, Pop
  <2>2. QED
    BY <2>1 DEF JobCallbacks
<1>6. ASSUME NEW j \in Job, CompleteJob(j)
      PROVE  JobCallbacks'
  <2>1. /\ <<"end", j>> \in agenda
        /\ agenda' = agenda \ {<<"end", j>>}
        /\ jobStatus' = [jobStatus EXCEPT ![j] = "COMPLETED"]
    BY <1>6 DEF CompleteJob, Pop
  <2>2. QED
    BY <2>1 DEF JobCallbacks
<1>7. QED
  BY <1>1, <1>3, <1>4, <1>5, <1>6 DEF RepairStep

(* What a step may do to a utility.                                         *)
StopsOnlyForRepair(m) ==
  /\ IsProductive(state[m]) /\ ~IsProductive(state'[m])
       => \/ IsDowntime(state'[m])
          \/ \E j \in OpenJobs(m) : jobStatus'[j] = "COMPLETED"
  /\ ~IsOffline(state[m]) => ~IsOffline(state'[m])

UtilityStep ==
  UtilityInv' /\ \A m \in Machine : Utility(m) => StopsOnlyForRepair(m)

(* No cleaning is booked by the step.                                       *)
NoneCleaned ==
  \A m \in Machine, b \in Batch, i \in Stage :
    <<"clean_end", m, b, i>> \in agenda' => <<"clean_end", m, b, i>> \in agenda

LEMMA UtilityInvKept ==
  ASSUME UtilityInv, UNCHANGED <<manned, currentBatch>>, NoneCleaned
  PROVE  UtilityInv'
BY DEF UtilityInv, NoneCleaned

LEMMA WhereMovesLead ==
  ASSUME NEW s \in State
  PROVE  /\ \A r \in {"warning", "fault"} :
              ~IsOffline(s) => ~IsOffline(TransitionTo(s, First[r]))
         /\ \A r \in {"productive", "maintenance", "idle"} :
              ~IsOffline(s) => ~IsOffline(ForceRoute(s, First[r]))
         /\ Has("warning") /\ IsProductive(s)
              => IsProductive(TransitionTo(s, First["warning"]))
         /\ TransitionTo(s, First["fault"]) = s \/ IsDowntime(TransitionTo(s, First["fault"]))
         /\ \/ ForceRoute(s, First["maintenance"]) = s
            \/ IsDowntime(ForceRoute(s, First["maintenance"]))
BY Recoverable DEF TransitionTo, ForceRoute, IsOffline, IsProductive, IsDowntime

LEMMA FailuresKeepUtilities ==
  ASSUME Types, UtilityInv, FailureNext
  PROVE  UtilityStep
<1> USE DEF Types, MachineTypes
<1>1. UNCHANGED <<manned, currentBatch>>
  BY DEF FailureNext, EvaluateHazard, Inject, Warn, WarnAndPlan, Fault, StaleCallback,
         machineVars
<1>2. NoneCleaned
  <2>1. ASSUME NEW m \in Machine, NEW e \in Episode, NEW w \in BOOLEAN,
               EvaluateHazard(m, e, w) \/ Inject(m, e, w)
        PROVE  NoneCleaned
    <3>1. agenda' = agenda \cup Onset(e, w)
      BY <2>1 DEF EvaluateHazard, Inject
    <3>2. QED
      BY <3>1 DEF Onset, NoneCleaned
  <2>2. ASSUME NEW task, NEW j \in Job,
               Pop(task, {}) \/ Pop(task, {<<"start", j>>})
        PROVE  NoneCleaned
    BY <2>2 DEF Pop, NoneCleaned
  <2>3. \A task : Pop(task, {}) => NoneCleaned
    BY DEF Pop, NoneCleaned
  <2>4. QED
    BY <2>1, <2>2, <2>3 DEF FailureNext, Warn, WarnAndPlan, Fault, StaleCallback
<1>3. UtilityInv'
  BY <1>1, <1>2, UtilityInvKept
<1>4. ASSUME NEW m \in Machine
      PROVE  StopsOnlyForRepair(m)
  <2>1. ASSUME NEW x, WarnMachine(x)
        PROVE  StopsOnlyForRepair(m)
    BY <2>1, WhereMovesLead DEF WarnMachine, StopsOnlyForRepair
  <2>2. ASSUME NEW x, state' = [state EXCEPT ![x] = TransitionTo(@, First["fault"])]
        PROVE  StopsOnlyForRepair(m)
    BY <2>2, WhereMovesLead DEF StopsOnlyForRepair
  <2>3. ASSUME UNCHANGED machineVars
        PROVE  StopsOnlyForRepair(m)
    BY <2>3 DEF StopsOnlyForRepair, machineVars
  <2>4. QED
    BY <2>1, <2>2, <2>3
    DEF FailureNext, EvaluateHazard, Inject, Warn, WarnAndPlan, Fault, StaleCallback
<1>5. QED
  BY <1>3, <1>4 DEF UtilityStep

LEMMA MaintenanceKeepsUtilities ==
  ASSUME Types, UtilityInv, JobCallbacks, MaintenanceNext
  PROVE  UtilityStep
<1> USE DEF Types, MachineTypes, JobTypes
<1>1. UNCHANGED <<manned, currentBatch>>
  BY DEF MaintenanceNext, ScanPreventive, StartJob, CompleteJob
<1>2. NoneCleaned
  <2>1. \E j \in Job : agenda' \subseteq agenda \cup {<<"start", j>>, <<"end", j>>}
    BY DEF MaintenanceNext, ScanPreventive, StartJob, CompleteJob, Pop
  <2>2. QED
    BY <2>1 DEF NoneCleaned
<1>3. UtilityInv'
  BY <1>1, <1>2, UtilityInvKept
<1>4. ASSUME NEW m \in Machine
      PROVE  StopsOnlyForRepair(m)
  <2>1. ASSUME NEW x, NEW j, ScanPreventive(x, j)
        PROVE  StopsOnlyForRepair(m)
    BY <2>1 DEF ScanPreventive, StopsOnlyForRepair
  <2>2. ASSUME NEW j \in Job, StartJob(j)
        PROVE  StopsOnlyForRepair(m)
    <3>1. state' = [state EXCEPT ![jobMachine[j]] = ForceRoute(@, First["maintenance"])]
      BY <2>2 DEF StartJob
    <3>2. QED
      BY <3>1, WhereMovesLead DEF StopsOnlyForRepair
  <2>3. ASSUME NEW j \in Job, CompleteJob(j)
        PROVE  StopsOnlyForRepair(m)
    <3>1. /\ state' = [state EXCEPT ![jobMachine[j]] = ForceRoute(@, First["idle"])]
          /\ jobStatus' = [jobStatus EXCEPT ![j] = "COMPLETED"]
      BY <2>3 DEF CompleteJob
    <3>2. jobStatus[j] = "IN_PROGRESS"
      BY <2>3 DEF CompleteJob, Pop, JobCallbacks
    <3>3. CASE jobMachine[j] = m
      <4>1. j \in OpenJobs(m) /\ jobStatus'[j] = "COMPLETED"
        BY <3>1, <3>2, <3>3 DEF OpenJobs
      <4>2. QED
        BY <3>1, <3>3, <4>1, WhereMovesLead DEF StopsOnlyForRepair
    <3>4. CASE jobMachine[j] # m
      BY <3>1, <3>4 DEF StopsOnlyForRepair
    <3>5. QED
      BY <3>3, <3>4
  <2>4. QED
    BY <2>1, <2>2, <2>3 DEF MaintenanceNext
<1>5. QED
  BY <1>3, <1>4 DEF UtilityStep

(* Only the end of a stage books a cleaning, on the machine of the batch,   *)
(* which is no utility; and only a machine with an operator is given one.   *)
LEMMA BatchesKeepUtilities ==
  ASSUME BatchInv, UtilityInv, BatchNext
  PROVE  UtilityStep
<1> USE DEF BatchInv, Types, MachineTypes
<1>1. ASSUME UNCHANGED machineVars, NoneCleaned
      PROVE  UtilityStep
  BY <1>1, UtilityInvKept DEF UtilityStep, StopsOnlyForRepair, machineVars
<1>2. ASSUME NEW b, NEW m \in Machine, NEW back, NEW booked, Occupy(b, m, back, booked),
             \A x, c, i : <<"clean_end", x, c, i>> \notin booked
      PROVE  UtilityStep
  <2>1. /\ manned[m] /\ UNCHANGED manned
        /\ currentBatch' = [currentBatch EXCEPT ![m] = b]
        /\ state' = [state EXCEPT ![m] = ForceRoute(@, First["productive"])]
        /\ agenda' = agenda \cup {<<"stage_end", b, m, 0>>} \cup booked
    BY <1>2 DEF Occupy, Candidates
  <2>2. ~Utility(m)
    BY <2>1 DEF UtilityInv
  <2>3. NoneCleaned
    BY <1>2, <2>1 DEF NoneCleaned
  <2>4. UtilityInv'
    BY <2>1, <2>2, <2>3 DEF UtilityInv, NoneCleaned
  <2>5. \A x \in Machine : Utility(x) => StopsOnlyForRepair(x)
    BY <2>1, <2>2 DEF StopsOnlyForRepair
  <2>6. QED
    BY <2>4, <2>5 DEF UtilityStep
<1>3. ASSUME NEW b \in Batch, NEW m \in Machine, NEW back, StartStage(b, m, back)
      PROVE  UtilityStep
  <2>1. Occupy(b, m, back, {})
    BY <1>3 DEF StartStage
  <2>2. QED
    BY <1>2, <2>1
<1>4. ASSUME NEW b \in Batch, NEW m \in Machine, NEW back, NEW e \in Episode,
             NEW w \in BOOLEAN, StartStageMisset(b, m, back, e, w)
      PROVE  UtilityStep
  <2>1. Occupy(b, m, back, Onset(e, w))
    BY <1>4 DEF StartStageMisset
  <2>2. \A x, c, i : <<"clean_end", x, c, i>> \notin Onset(e, w)
    BY DEF Onset
  <2>3. QED
    BY <1>2, <2>1, <2>2
<1>5. ASSUME NEW b \in Batch, NEW m \in Machine, NEW w \in 0..MaxRepairWaits,
             CompleteStage(b, m, w)
      PROVE  UtilityStep
  <2>1. /\ <<"stage_end", b, m, w>> \in agenda
        /\ agenda' \subseteq agenda \cup {<<"clean_end", m, b, stageIndex[b] + 1>>}
        /\ currentBatch' = [currentBatch EXCEPT ![m] = None]
        /\ state' = [state EXCEPT ![m] = Released(m)]
        /\ UNCHANGED manned
    BY <1>5 DEF CompleteStage, Pop
  <2>2. b # None
    BY FloorParameters DEF Batch
  <2>3. ~Utility(m)
    <3>1. currentBatch[m] = b
      BY <2>1 DEF HeldWhileInStage
    <3>2. QED
      BY <2>2, <3>1 DEF UtilityInv
  <2>4. UtilityInv'
    BY <2>1, <2>3 DEF UtilityInv
  <2>5. \A x \in Machine : Utility(x) => StopsOnlyForRepair(x)
    BY <2>1, <2>3 DEF StopsOnlyForRepair
  <2>6. QED
    BY <2>4, <2>5 DEF UtilityStep
<1>6. ASSUME NEW m \in Machine, NEW b \in Batch, NEW i \in Stage, EndCleaning(m, b, i)
      PROVE  UtilityStep
  <2>1. /\ <<"clean_end", m, b, i>> \in agenda
        /\ agenda' = agenda \ {<<"clean_end", m, b, i>>}
        /\ state' = [state EXCEPT ![m] = ForceRoute(@, First["idle"])]
        /\ UNCHANGED <<manned, currentBatch>>
    BY <1>6 DEF EndCleaning, Pop
  <2>2. ~Utility(m)
    BY <2>1 DEF UtilityInv
  <2>3. UtilityInv'
    BY <2>1, UtilityInvKept DEF NoneCleaned
  <2>4. \A x \in Machine : Utility(x) => StopsOnlyForRepair(x)
    BY <2>1, <2>2 DEF StopsOnlyForRepair
  <2>5. QED
    BY <2>3, <2>4 DEF UtilityStep
<1>7. ASSUME NEW b \in Batch, CreateBatch(b) \/ Poll(b)
      PROVE  UtilityStep
  BY <1>1, <1>7 DEF CreateBatch, Poll, Pop, NoneCleaned
<1>8. CASE EndReplenish
  BY <1>1, <1>8 DEF EndReplenish, NoneCleaned
<1>9. ASSUME NEW b \in Batch, NEW back, WaitForMachine(b, back)
      PROVE  UtilityStep
  BY <1>1, <1>9 DEF WaitForMachine, NoneCleaned
<1>10. ASSUME NEW b \in Batch, NEW m \in Machine, NEW w, WaitForRepair(b, m, w)
      PROVE  UtilityStep
  BY <1>1, <1>10 DEF WaitForRepair, Pop, NoneCleaned
<1>11. QED
  BY <1>3, <1>4, <1>5, <1>6, <1>7, <1>8, <1>9, <1>10 DEF BatchNext

(* A shift leaves the utilities to themselves; the duty pass only starts    *)
(* them.                                                                    *)
LEMMA StaffingKeepsUtilities ==
  ASSUME Types, UtilityInv, StaffingNext
  PROVE  UtilityStep
<1> USE DEF Types, MachineTypes
<1>1. UNCHANGED <<currentBatch, agenda>>
  BY DEF StaffingNext, StartShift, ProductionTick
<1>2. ASSUME NEW m \in Machine, Utility(m)
      PROVE  manned'[m] = manned[m] /\ StopsOnlyForRepair(m)
  <2>1. ASSUME NEW staffed \in SUBSET Unit, StartShift(staffed)
        PROVE  manned'[m] = manned[m] /\ state'[m] = state[m]
    BY <1>2, <2>1 DEF StartShift, LosesOperator, GetsOperator, Utility
  <2>2. ASSUME ProductionTick
        PROVE  manned'[m] = manned[m] /\ StopsOnlyForRepair(m)
    <3>1. WantsProduction(m) /\ Duty[m] # "batch"
      BY <1>2 DEF WantsProduction, Utility
    <3>2. state'[m] \in {state[m], ForceRoute(state[m], First["productive"])}
          /\ (IsProductive(state[m]) => state'[m] = state[m])
      BY <2>2, <3>1 DEF ProductionTick, AfterDuty, IsProductive
    <3>3. QED
      BY <2>2, <3>2, WhereMovesLead DEF ProductionTick, StopsOnlyForRepair
  <2>3. QED
    BY <2>1, <2>2 DEF StaffingNext, StopsOnlyForRepair
<1>3. UtilityInv'
  BY <1>1, <1>2 DEF UtilityInv
<1>4. QED
  BY <1>2, <1>3 DEF UtilityStep

LEMMA UtilitySteps ==
  ASSUME BatchInv, UtilityInv, JobCallbacks, [Next]_vars
  PROVE  UtilityStep
<1>1. CASE UNCHANGED vars
  BY <1>1 DEF vars, machineVars, UtilityStep, UtilityInv, StopsOnlyForRepair
<1>2. QED
  BY <1>1, FailuresKeepUtilities, MaintenanceKeepsUtilities, BatchesKeepUtilities,
     StaffingKeepsUtilities
  DEF Next, BatchInv

LEMMA UtilityInvHolds == Spec => [](UtilityInv /\ JobCallbacks)
<1>1. Init => UtilityInv /\ JobCallbacks
  BY DEF Init, UtilityInv, JobCallbacks
<1>2. BatchInv /\ CycleInv /\ (UtilityInv /\ JobCallbacks) /\ [Next]_vars
        => (UtilityInv /\ JobCallbacks)'
  <2> SUFFICES ASSUME BatchInv, CycleInv, UtilityInv, JobCallbacks, [Next]_vars
               PROVE  UtilityInv' /\ JobCallbacks'
    OBVIOUS
  <2>1. UtilityInv'
    BY UtilitySteps DEF UtilityStep
  <2>2. JobCallbacks'
    BY RepairSteps, JobCallbacksKept DEF BatchInv, CycleInv
  <2>3. QED
    BY <2>1, <2>2
<1>3. QED
  BY <1>1, <1>2, BatchInvHolds, CycleInvHolds, PTL DEF Spec

(* Utilities on continuous duty are never handed a batch, although nothing  *)
(* in the choice of a machine looks at its duty: nobody operates them.      *)
THEOREM UtilitiesHoldNone == Spec => []ContinuousHoldsNoBatch
<1>1. UtilityInv => ContinuousHoldsNoBatch
  BY DEF UtilityInv, Utility, ContinuousHoldsNoBatch
<1>2. QED
  BY <1>1, UtilityInvHolds, PTL

(* A utility leaves production only for downtime or at the end of a job     *)
(* that was open on it, and nothing that happens on the floor powers it     *)
(* down.                                                                    *)
THEOREM UtilitiesKeepOn == Spec => ContinuousStopsOnlyForRepair
<1> DEFINE A == \A m \in Machine : Duty[m] = "continuous" =>
                  /\ IsProductive(state[m]) /\ ~IsProductive(state'[m])
                       => \/ IsDowntime(state'[m])
                          \/ \E j \in OpenJobs(m) : jobStatus'[j] = "COMPLETED"
                  /\ ~IsOffline(state[m]) => ~IsOffline(state'[m])
<1>1. BatchInv /\ (UtilityInv /\ JobCallbacks) /\ [Next]_vars => [A]_vars
  BY UtilitySteps DEF UtilityStep, StopsOnlyForRepair, Utility
<1>2. QED
  BY <1>1, BatchInvHolds, UtilityInvHolds, PTL DEF Spec, ContinuousStopsOnlyForRepair
=============================================================================
