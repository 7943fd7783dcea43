----------------------------- MODULE PlantSafety -----------------------------
(***************************************************************************)
(* Proofs about the plant floor, for any state model, any machines, units   *)
(* and duties, any route, and any number of episodes, jobs and batches:     *)
(*                                                                          *)
(*   FaultStopsProduction  a machine with an unrepaired fault produces      *)
(*                         nothing                                          *)
(*   RepairCycleRefined    the plant implements RepairCycle                 *)
(*   TypesHold             type correctness of the floor                    *)
(*   CarriedOnce           an active batch is carried by exactly one        *)
(*                         callback                                         *)
(*   HeldInStage           machines and batches in a stage hold each other  *)
(*   FlowRefined           the plant implements BatchFlow                   *)
(*                                                                          *)
(* None of them is inductive.  Production is kept off a faulted machine by  *)
(* the pending flag, so the invariant of the first two carries the flag     *)
(* along.  The rest hang together: a batch leaves the route's range of      *)
(* stages, or is put on two machines, only if two callbacks carry it.       *)
(***************************************************************************)
EXTENDS Plant, FiniteSetTheorems, TLAPS

-----------------------------------------------------------------------------
(* The transition table and the routes over it                              *)

(* Neither a single move nor a walk leaves the declared states.             *)
LEMMA MovesStayInState ==
  ASSUME NEW s \in State, NEW t
  PROVE  TransitionTo(s, t) \in State /\ ForceRoute(s, t) \in State
<1>1. TransitionTo(s, t) \in State
  BY StateModel DEF TransitionTo, CanTransition
<1>2. ForceRoute(s, t) \in State
  <2>1. Reachable[s] \subseteq State
    BY DEF Reachable
  <2>2. QED
    BY <2>1 DEF ForceRoute, CanRoute
<1>3. QED
  BY <1>1, <1>2

(* The moves that stop a machine leave it out of production, and a warning  *)
(* does not put a stopped machine back into production.                     *)
LEMMA StoppingMoves ==
  ASSUME NEW s \in State
  PROVE  /\ ~IsProductive(TransitionTo(s, First["fault"]))
         /\ ~IsProductive(s) => ~IsProductive(TransitionTo(s, First["warning"]))
         /\ \A r \in {"maintenance", "idle", "cleaning", "offline"} :
              ~IsProductive(s) => ~IsProductive(ForceRoute(s, First[r]))
<1>1. ~IsProductive(TransitionTo(s, First["fault"]))
  BY Stoppable DEF TransitionTo, CanTransition, IsProductive
<1>2. ~IsProductive(s) => ~IsProductive(TransitionTo(s, First["warning"]))
  BY Stoppable DEF TransitionTo, CanTransition, IsProductive
<1>3. ASSUME NEW r \in {"maintenance", "idle", "cleaning", "offline"}, ~IsProductive(s)
      PROVE  ~IsProductive(ForceRoute(s, First[r]))
  <2>1. First[r] \notin Role["productive"]
    BY Stoppable
  <2>2. QED
    BY <1>3, <2>1 DEF ForceRoute, IsProductive
<1>4. QED
  BY <1>1, <1>2, <1>3

-----------------------------------------------------------------------------
(* The invariant: the types of the variables it reads, every begun episode  *)
(* on a machine, and a machine with an unrepaired fault withheld and idle.  *)

FaultTypes ==
  /\ state \in [Machine -> State]
  /\ pending \in [Machine -> BOOLEAN]
  /\ epMachine \in [Episode -> Machine \cup {None}]
  /\ epStatus \in [Episode -> EpStatus]

EpisodesPlaced == \A e \in Episode : epStatus[e] # "unborn" => epMachine[e] \in Machine

FaultWithholds == \A e \in Episode : epStatus[e] = "faulted" => pending[epMachine[e]]

FaultInv ==
  FaultTypes /\ EpisodesPlaced /\ FaultWithholds /\ UnrepairedFaultStopsProduction

(* What an action has to show when it leaves the episodes alone: it clears  *)
(* no flag, and does not start a machine that is stopped and withheld.      *)
KeepsFaultyStopped ==
  /\ state' \in [Machine -> State]
  /\ pending' \in [Machine -> BOOLEAN]
  /\ \A m \in Machine : pending[m] =>
       pending'[m] /\ (~IsProductive(state[m]) => ~IsProductive(state'[m]))

LEMMA KeepingStopped ==
  ASSUME FaultInv, KeepsFaultyStopped, UNCHANGED <<epMachine, epStatus>>
  PROVE  FaultInv'
<1>1. FaultTypes' /\ EpisodesPlaced'
  BY DEF FaultInv, FaultTypes, EpisodesPlaced, KeepsFaultyStopped
<1>2. FaultWithholds' /\ UnrepairedFaultStopsProduction'
  <2> SUFFICES ASSUME NEW e \in Episode, epStatus[e] = "faulted"
               PROVE  pending'[epMachine[e]] /\ ~IsProductive(state'[epMachine[e]])
    BY DEF FaultWithholds, UnrepairedFaultStopsProduction, IsProductive
  <2>1. epMachine[e] \in Machine
    BY DEF FaultInv, EpisodesPlaced
  <2>2. pending[epMachine[e]] /\ ~IsProductive(state[epMachine[e]])
    BY DEF FaultInv, FaultWithholds, UnrepairedFaultStopsProduction
  <2>3. QED
    BY <2>1, <2>2 DEF KeepsFaultyStopped
<1>3. QED
  BY <1>1, <1>2 DEF FaultInv

(* The same when an episode begins as well.                                 *)
LEMMA BeginningEpisode ==
  ASSUME FaultInv, KeepsFaultyStopped, NEW e \in Episode, NEW m \in Machine,
         Initiate(e, m)
  PROVE  FaultInv'
<1>1. FaultTypes' /\ EpisodesPlaced'
  BY DEF FaultInv, FaultTypes, EpisodesPlaced, KeepsFaultyStopped, Initiate, EpStatus
<1>2. FaultWithholds' /\ UnrepairedFaultStopsProduction'
  <2> SUFFICES ASSUME NEW f \in Episode, epStatus'[f] = "faulted"
               PROVE  pending'[epMachine'[f]] /\ ~IsProductive(state'[epMachine'[f]])
    BY DEF FaultWithholds, UnrepairedFaultStopsProduction, IsProductive
  <2>1. epStatus[f] = "faulted" /\ epMachine'[f] = epMachine[f]
    BY DEF Initiate, IsNext, FaultInv, FaultTypes
  <2>2. epMachine[f] \in Machine
    BY <2>1 DEF FaultInv, EpisodesPlaced
  <2>3. pending[epMachine[f]] /\ ~IsProductive(state[epMachine[f]])
    BY <2>1 DEF FaultInv, FaultWithholds, UnrepairedFaultStopsProduction
  <2>4. QED
    BY <2>1, <2>2, <2>3 DEF KeepsFaultyStopped
<1>3. QED
  BY <1>1, <1>2 DEF FaultInv

-----------------------------------------------------------------------------
(* The actions, component by component                                      *)

(* Booking a job sets a flag and clears none; what a warning moves stays    *)
(* stopped if it was.                                                       *)
LEMMA FailuresKeepInv ==
  ASSUME FaultInv, FailureNext
  PROVE  FaultInv'
<1> USE DEF FaultInv
<1>1. ASSUME NEW m \in Machine, NEW e \in Episode, NEW w \in BOOLEAN,
             EvaluateHazard(m, e, w) \/ Inject(m, e, w)
      PROVE  FaultInv'
  <2>1. KeepsFaultyStopped
    BY <1>1 DEF EvaluateHazard, Inject, machineVars, KeepsFaultyStopped, FaultTypes
  <2>2. Initiate(e, m)
    BY <1>1 DEF EvaluateHazard, Inject
  <2>3. QED
    BY <2>1, <2>2, BeginningEpisode
<1>2. ASSUME NEW m, state \in [Machine -> State], WarnMachine(m)
      PROVE  /\ state' \in [Machine -> State]
             /\ \A x \in Machine : ~IsProductive(state[x]) => ~IsProductive(state'[x])
  <2>1. CASE Has("warning")
    <3>1. state' = [state EXCEPT ![m] = TransitionTo(@, First["warning"])]
      BY <1>2, <2>1 DEF WarnMachine
    <3>2. QED
      BY <1>2, <3>1, MovesStayInState, StoppingMoves
  <2>2. CASE ~Has("warning")
    BY <1>2, <2>2 DEF WarnMachine
  <2>3. QED
    BY <2>1, <2>2
<1>3. ASSUME NEW e \in Episode, Warn(e)
      PROVE  FaultInv'
  <2>1. KeepsFaultyStopped
    BY <1>2, <1>3 DEF Warn, KeepsFaultyStopped, FaultTypes
  <2>2. QED
    BY <1>3, <2>1, KeepingStopped DEF Warn, episodeVars
<1>4. ASSUME NEW e \in Episode, NEW j \in Job, WarnAndPlan(e, j)
      PROVE  FaultInv'
  <2>1. pending' = [pending EXCEPT ![epMachine[e]] = TRUE]
    BY <1>4 DEF WarnAndPlan, Schedule
  <2>2. KeepsFaultyStopped
    BY <1>2, <1>4, <2>1 DEF WarnAndPlan, KeepsFaultyStopped, FaultTypes
  <2>3. QED
    BY <1>4, <2>2, KeepingStopped DEF WarnAndPlan, episodeVars
<1>5. ASSUME NEW e \in Episode, NEW j \in Job, Fault(e, j)
      PROVE  FaultInv'
  <2> DEFINE m == epMachine[e]
  <2>1. m \in Machine
    BY <1>5 DEF Fault, Active, EpisodesPlaced
  <2>2. /\ epStatus' = [epStatus EXCEPT ![e] = "faulted"]
        /\ epMachine' = epMachine
        /\ state' = [state EXCEPT ![m] = TransitionTo(@, First["fault"])]
        /\ pending' = [pending EXCEPT ![m] = TRUE]
    BY <1>5 DEF Fault, Schedule
  <2>3. FaultTypes' /\ EpisodesPlaced'
    BY <2>1, <2>2, MovesStayInState DEF FaultTypes, EpisodesPlaced, EpStatus
  <2>4. FaultWithholds'
    BY <2>1, <2>2 DEF FaultTypes, EpisodesPlaced, FaultWithholds
  <2>5. UnrepairedFaultStopsProduction'
    <3> SUFFICES ASSUME NEW f \in Episode, epStatus'[f] = "faulted"
                 PROVE  ~IsProductive(state'[epMachine[f]])
      BY <2>2 DEF UnrepairedFaultStopsProduction, IsProductive
    <3>1. epMachine[f] \in Machine
      BY <1>5, <2>1, <2>2 DEF FaultTypes, EpisodesPlaced
    <3>2. CASE epMachine[f] = m
      BY <2>1, <2>2, <3>2, StoppingMoves DEF FaultTypes
    <3>3. CASE epMachine[f] # m
      BY <2>2, <3>1, <3>3 DEF FaultTypes, UnrepairedFaultStopsProduction
    <3>4. QED
      BY <3>2, <3>3
  <2>6. QED
    BY <2>3, <2>4, <2>5
<1>6. ASSUME NEW kind \in {"warn", "fault"}, NEW e \in Episode, StaleCallback(kind, e)
      PROVE  FaultInv'
  <2>1. KeepsFaultyStopped
    BY <1>6 DEF StaleCallback, machineVars, KeepsFaultyStopped, FaultTypes
  <2>2. QED
    BY <1>6, <2>1, KeepingStopped DEF StaleCallback, episodeVars
<1>7. QED
  BY <1>1, <1>3, <1>4, <1>5, <1>6 DEF FailureNext

(* A job that starts stops its machine; one that ends clears the flag, and  *)
(* closes every fault that relied on it in the same step.                   *)
LEMMA MaintenanceKeepsInv ==
  ASSUME FaultInv, MaintenanceNext
  PROVE  FaultInv'
<1> USE DEF FaultInv
<1>1. ASSUME NEW m \in Machine, NEW j \in Job, ScanPreventive(m, j)
      PROVE  FaultInv'
  <2>1. KeepsFaultyStopped
    BY <1>1 DEF ScanPreventive, Schedule, KeepsFaultyStopped, FaultTypes
  <2>2. QED
    BY <1>1, <2>1, KeepingStopped DEF ScanPreventive, episodeVars
<1>2. ASSUME NEW j \in Job, StartJob(j)
      PROVE  FaultInv'
  <2>1. KeepsFaultyStopped
    BY <1>2, MovesStayInState, StoppingMoves DEF StartJob, KeepsFaultyStopped, FaultTypes
  <2>2. QED
    BY <1>2, <2>1, KeepingStopped DEF StartJob, episodeVars
<1>3. ASSUME NEW j \in Job, CompleteJob(j)
      PROVE  FaultInv'
  <2> DEFINE m == jobMachine[j]
  <2>1. /\ Resolve(m)
        /\ epMachine' = epMachine
        /\ pending' = [pending EXCEPT ![m] = FALSE]
        /\ state' = [state EXCEPT ![m] = ForceRoute(@, First["idle"])]
    BY <1>3 DEF CompleteJob
  <2>2. FaultTypes' /\ EpisodesPlaced'
    BY <2>1, MovesStayInState
    DEF FaultTypes, EpisodesPlaced, Resolve, ActiveEpisodes, EpStatus
  <2>3. ASSUME NEW f \in Episode, epStatus'[f] = "faulted"
        PROVE  epStatus[f] = "faulted" /\ epMachine[f] \in Machine \ {m}
    BY <2>1, <2>3 DEF FaultTypes, EpisodesPlaced, Resolve, ActiveEpisodes
  <2>4. FaultWithholds' /\ UnrepairedFaultStopsProduction'
    BY <2>1, <2>3
    DEF FaultTypes, FaultWithholds, UnrepairedFaultStopsProduction, IsProductive
  <2>5. QED
    BY <2>2, <2>4
<1>4. QED
  BY <1>1, <1>2, <1>3 DEF MaintenanceNext

(* A batch is only put on a machine without the flag; the end of a stage    *)
(* and of a cleaning stop the machine.                                      *)
LEMMA BatchesKeepInv ==
  ASSUME FaultInv, BatchNext
  PROVE  FaultInv'
<1> USE DEF FaultInv
<1>1. ASSUME UNCHANGED <<machineVars, episodeVars>>
      PROVE  FaultInv'
  <2>1. KeepsFaultyStopped
    BY <1>1 DEF machineVars, KeepsFaultyStopped, FaultTypes
  <2>2. QED
    BY <1>1, <2>1, KeepingStopped DEF episodeVars
<1>2. ASSUME NEW b \in Batch, NEW m \in Machine, NEW back, NEW booked,
             Occupy(b, m, back, booked)
      PROVE  KeepsFaultyStopped
  <2>1. ~pending[m]
    BY <1>2 DEF Occupy, Candidates
  <2>2. /\ state' = [state EXCEPT ![m] = ForceRoute(@, First["productive"])]
        /\ pending' = pending
    BY <1>2 DEF Occupy
  <2>3. QED
    BY <2>1, <2>2, MovesStayInState DEF KeepsFaultyStopped, FaultTypes
<1>3. ASSUME NEW b \in Batch, NEW m \in Machine, NEW back, StartStage(b, m, back)
      PROVE  FaultInv'
  BY <1>2, <1>3, KeepingStopped DEF StartStage, episodeVars
<1>4. ASSUME NEW b \in Batch, NEW m \in Machine, NEW back, NEW e \in Episode,
             NEW w \in BOOLEAN, StartStageMisset(b, m, back, e, w)
      PROVE  FaultInv'
  BY <1>2, <1>4, BeginningEpisode DEF StartStageMisset
<1>5. ASSUME NEW b \in Batch, NEW m \in Machine, NEW w, CompleteStage(b, m, w)
      PROVE  FaultInv'
  <2>1. Released(m) \in State /\ (~IsProductive(state[m]) => ~IsProductive(Released(m)))
    BY MovesStayInState, StoppingMoves DEF Released, Cleans, FaultTypes, ForceRoute
  <2>2. KeepsFaultyStopped
    BY <1>5, <2>1 DEF CompleteStage, KeepsFaultyStopped, FaultTypes
  <2>3. QED
    BY <1>5, <2>2, KeepingStopped DEF CompleteStage, episodeVars
<1>6. ASSUME NEW m \in Machine, NEW b, NEW i, EndCleaning(m, b, i)
      PROVE  FaultInv'
  <2>1. KeepsFaultyStopped
    BY <1>6, MovesStayInState, StoppingMoves DEF EndCleaning, KeepsFaultyStopped, FaultTypes
  <2>2. QED
    BY <1>6, <2>1, KeepingStopped DEF EndCleaning, episodeVars
<1>7. QED
  BY <1>1, <1>3, <1>4, <1>5, <1>6
  DEF BatchNext, CreateBatch, EndReplenish, WaitForMachine, Poll, WaitForRepair

(* A shift change parks or wakes machines, neither of which is production;  *)
(* the duty pass starts only machines without the flag.                     *)
LEMMA StaffingKeepsInv ==
  ASSUME FaultInv, StaffingNext
  PROVE  FaultInv'
<1> USE DEF FaultInv
<1>1. ASSUME NEW staffed \in SUBSET Unit, StartShift(staffed)
      PROVE  FaultInv'
  <2>1. ASSUME NEW s \in State
        PROVE  /\ ForceRoute(s, Parked) \in State
               /\ ~IsProductive(s) => ~IsProductive(ForceRoute(s, Parked))
    BY MovesStayInState, StoppingMoves DEF Parked
  <2>2. KeepsFaultyStopped
    BY <1>1, <2>1, MovesStayInState, StoppingMoves
    DEF StartShift, KeepsFaultyStopped, FaultTypes
  <2>3. QED
    BY <1>1, <2>2, KeepingStopped DEF StartShift, episodeVars
<1>2. CASE ProductionTick
  <2>1. ASSUME NEW m \in Machine
        PROVE  /\ AfterDuty(m) \in State
               /\ pending[m] /\ ~IsProductive(state[m]) => ~IsProductive(AfterDuty(m))
    BY MovesStayInState, StoppingMoves DEF AfterDuty, Available, FaultTypes
  <2>2. KeepsFaultyStopped
    BY <1>2, <2>1 DEF ProductionTick, KeepsFaultyStopped, FaultTypes
  <2>3. QED
    BY <1>2, <2>2, KeepingStopped DEF ProductionTick, episodeVars
<1>3. QED
  BY <1>1, <1>2 DEF StaffingNext

-----------------------------------------------------------------------------
(* The theorem                                                              *)

LEMMA FaultInvHolds == Spec => []FaultInv
<1>1. Init => FaultInv
  BY StateModel
  DEF Init, FaultInv, FaultTypes, EpisodesPlaced, FaultWithholds,
      UnrepairedFaultStopsProduction, EpStatus
<1>2. FaultInv /\ [Next]_vars => FaultInv'
  <2> SUFFICES ASSUME FaultInv, [Next]_vars
               PROVE  FaultInv'
    OBVIOUS
  <2>1. CASE Next
    BY <2>1, FailuresKeepInv, MaintenanceKeepsInv, BatchesKeepInv, StaffingKeepsInv DEF Next
  <2>2. CASE UNCHANGED vars
    BY <2>2
    DEF vars, machineVars, episodeVars, FaultInv, FaultTypes, EpisodesPlaced,
        FaultWithholds, UnrepairedFaultStopsProduction, IsProductive
  <2>3. QED
    BY <2>1, <2>2
<1>3. QED
  BY <1>1, <1>2, PTL DEF Spec

(* "FAULT at the scheduled instant -> production stops": from the fault to   *)
(* the repair the machine produces nothing, for every plant.                *)
THEOREM FaultStopsProduction == Spec => []UnrepairedFaultStopsProduction
<1>1. FaultInv => UnrepairedFaultStopsProduction
  BY DEF FaultInv
<1>2. QED
  BY <1>1, FaultInvHolds, PTL

-----------------------------------------------------------------------------
(* The plant implements the repair cycle.  An episode faults once because   *)
(* its fault callback is booked once, when it begins.                       *)

FaultBookedOnce ==
  \A e \in Episode : epStatus[e] \in {"unborn", "faulted"} => <<"fault", e>> \notin agenda

CycleInv == FaultInv /\ FaultBookedOnce

LEMMA CycleInvHolds == Spec => []CycleInv
<1>1. Init => FaultBookedOnce
  BY DEF Init, FaultBookedOnce
<1>2. FaultInv /\ FaultBookedOnce /\ [Next]_vars => FaultBookedOnce'
  <2> SUFFICES ASSUME FaultInv, FaultBookedOnce, [Next]_vars,
                      NEW e \in Episode, epStatus'[e] \in {"unborn", "faulted"}
               PROVE  <<"fault", e>> \notin agenda'
    BY DEF FaultBookedOnce
  <2> USE DEF FaultInv, FaultTypes
  <2>1. ASSUME NEW x \in Episode, NEW m \in Machine, NEW w \in BOOLEAN, Initiate(x, m),
               agenda' = agenda \cup Onset(x, w)
        PROVE  <<"fault", e>> \notin agenda'
    <3>1. e # x /\ epStatus[e] \in {"unborn", "faulted"}
      BY <2>1 DEF Initiate, IsNext
    <3>2. <<"fault", e>> \notin agenda /\ <<"fault", e>> \notin Onset(x, w)
      BY <3>1 DEF FaultBookedOnce, Onset
    <3>3. QED
      BY <2>1, <3>2
  <2>2. CASE FailureNext
    <3>1. ASSUME NEW m \in Machine, NEW x \in Episode, NEW w \in BOOLEAN,
                 EvaluateHazard(m, x, w) \/ Inject(m, x, w)
          PROVE  <<"fault", e>> \notin agenda'
      BY <2>1, <3>1 DEF EvaluateHazard, Inject
    <3>2. ASSUME NEW x \in Episode, Warn(x)
          PROVE  <<"fault", e>> \notin agenda'
      BY <3>2 DEF Warn, Pop, episodeVars, FaultBookedOnce
    <3>3. ASSUME NEW x \in Episode, NEW j \in Job, WarnAndPlan(x, j)
          PROVE  <<"fault", e>> \notin agenda'
      BY <3>3 DEF WarnAndPlan, Pop, episodeVars, FaultBookedOnce
    <3>4. ASSUME NEW x \in Episode, NEW j \in Job, Fault(x, j)
          PROVE  <<"fault", e>> \notin agenda'
      BY <3>4 DEF Fault, Pop, FaultBookedOnce
    <3>5. ASSUME NEW k \in {"warn", "fault"}, NEW x \in Episode, StaleCallback(k, x)
          PROVE  <<"fault", e>> \notin agenda'
      BY <3>5 DEF StaleCallback, Pop, episodeVars, FaultBookedOnce
    <3>6. QED
      BY <2>2, <3>1, <3>2, <3>3, <3>4, <3>5 DEF FailureNext
  <2>3. CASE MaintenanceNext
    <3>1. epStatus[e] \in {"unborn", "faulted"}
      BY <2>3
      DEF MaintenanceNext, ScanPreventive, StartJob, CompleteJob, Resolve, episodeVars
    <3>2. \E j \in Job : agenda' \subseteq agenda \cup {<<"start", j>>, <<"end", j>>}
      BY <2>3 DEF MaintenanceNext, ScanPreventive, StartJob, CompleteJob, Pop
    <3>3. QED
      BY <3>1, <3>2 DEF FaultBookedOnce
  <2>4. CASE BatchNext
    <3>1. ASSUME NEW b \in Batch, NEW m \in Machine, NEW back, NEW x \in Episode,
                 NEW w \in BOOLEAN, StartStageMisset(b, m, back, x, w)
          PROVE  <<"fault", e>> \notin agenda'
      <4>1. e # x /\ epStatus[e] \in {"unborn", "faulted"}
        BY <3>1 DEF StartStageMisset, Initiate, IsNext
      <4>2. <<"fault", e>> \notin Onset(x, w)
        BY <4>1 DEF Onset
      <4>3. agenda' = agenda \cup {<<"stage_end", b, m, 0>>} \cup Onset(x, w)
        BY <3>1 DEF StartStageMisset, Occupy
      <4>4. <<"fault", e>> # <<"stage_end", b, m, 0>>
        OBVIOUS
      <4>5. QED
        BY <4>1, <4>2, <4>3, <4>4 DEF FaultBookedOnce
    <3>2. ASSUME NEW b \in Batch, NEW m \in Machine, NEW back, StartStage(b, m, back)
          PROVE  <<"fault", e>> \notin agenda'
      BY <3>2 DEF StartStage, Occupy, episodeVars, FaultBookedOnce
    <3>3. ASSUME NEW b \in Batch, NEW m \in Machine, NEW w, WaitForRepair(b, m, w)
          PROVE  <<"fault", e>> \notin agenda'
      BY <3>3 DEF WaitForRepair, Pop, episodeVars, FaultBookedOnce
    <3>4. ASSUME NEW b \in Batch, NEW m \in Machine, NEW w, CompleteStage(b, m, w)
          PROVE  <<"fault", e>> \notin agenda'
      BY <3>4 DEF CompleteStage, Pop, episodeVars, FaultBookedOnce
    <3>5. ASSUME NEW b \in Batch, CreateBatch(b) \/ Poll(b)
          PROVE  <<"fault", e>> \notin agenda'
      BY <3>5 DEF CreateBatch, Poll, Pop, episodeVars, FaultBookedOnce
    <3>6. ASSUME NEW b \in Batch, NEW back, WaitForMachine(b, back)
          PROVE  <<"fault", e>> \notin agenda'
      BY <3>6 DEF WaitForMachine, episodeVars, FaultBookedOnce
    <3>7. ASSUME NEW m \in Machine, NEW b \in Batch, NEW i, EndCleaning(m, b, i)
          PROVE  <<"fault", e>> \notin agenda'
      BY <3>7 DEF EndCleaning, Pop, episodeVars, FaultBookedOnce
    <3>8. CASE EndReplenish
      BY <3>8 DEF EndReplenish, episodeVars, FaultBookedOnce
    <3>9. QED
      BY <2>4, <3>1, <3>2, <3>3, <3>4, <3>5, <3>6, <3>7, <3>8 DEF BatchNext
  <2>5. CASE StaffingNext \/ UNCHANGED vars
    BY <2>5
    DEF StaffingNext, StartShift, ProductionTick, vars, episodeVars, FaultBookedOnce
  <2>6. QED
    BY <2>2, <2>3, <2>4, <2>5 DEF Next
<1>3. QED
  BY <1>1, <1>2, FaultInvHolds, PTL DEF Spec, CycleInv

(* Whatever leaves the episodes alone only starts and stops production, and *)
(* whatever begins one begins it in the abstract cycle as well: in both     *)
(* cases the machines that are broken before the step are still broken, and *)
(* stopped, after it.                                                       *)
LEMMA BrokenStaysStopped ==
  ASSUME FaultInv',
         \A e \in Episode : epStatus[e] = "faulted"
                            => epStatus'[e] = "faulted" /\ epMachine'[e] = epMachine[e]
  PROVE  Cycle!Dispatch
<1>1. ASSUME NEW e \in Episode, epStatus[e] = "faulted"
      PROVE  ~IsProductive(state'[epMachine[e]])
  BY <1>1 DEF FaultInv, UnrepairedFaultStopsProduction, IsProductive
<1>2. Producing' = {m \in Machine : IsProductive(state'[m])}
  BY DEF Producing, IsProductive
<1>3. QED
  BY <1>1, <1>2 DEF Cycle!Dispatch, Cycle!Broken

LEMMA OnlyOperates ==
  ASSUME FaultInv', UNCHANGED <<epMachine, epStatus>>
  PROVE  [Cycle!Next]_<<epMachine, epStatus, Producing>>
BY BrokenStaysStopped DEF Cycle!Next, Cycle!Operate

LEMMA OnlyBegins ==
  ASSUME FaultInv, FaultInv', NEW e \in Episode, NEW m \in Machine, Initiate(e, m)
  PROVE  [Cycle!Next]_<<epMachine, epStatus, Producing>>
<1>1. \A x \in Episode : epStatus[x] = "faulted"
                         => epStatus'[x] = "faulted" /\ epMachine'[x] = epMachine[x]
  BY DEF Initiate, IsNext, FaultInv, FaultTypes
<1>2. Cycle!Dispatch
  BY <1>1, BrokenStaysStopped
<1>3. Cycle!Begin(e, m)
  BY <1>2 DEF Initiate, IsNext, Cycle!Begin
<1>4. QED
  BY <1>3 DEF Cycle!Next

LEMMA FailuresImplement ==
  ASSUME CycleInv, FaultInv', FailureNext
  PROVE  [Cycle!Next]_<<epMachine, epStatus, Producing>>
<1> USE DEF CycleInv
<1>1. ASSUME NEW m \in Machine, NEW e \in Episode, NEW w \in BOOLEAN,
             EvaluateHazard(m, e, w) \/ Inject(m, e, w)
      PROVE  [Cycle!Next]_<<epMachine, epStatus, Producing>>
  <2>1. Initiate(e, m)
    BY <1>1 DEF EvaluateHazard, Inject
  <2>2. QED
    BY <2>1, OnlyBegins
<1>2. ASSUME NEW e \in Episode, NEW j \in Job, Fault(e, j)
      PROVE  [Cycle!Next]_<<epMachine, epStatus, Producing>>
  <2> DEFINE m == epMachine[e]
  <2>1. epStatus[e] = "developing"
    BY <1>2 DEF Fault, Pop, Active, FaultBookedOnce
  <2>2. /\ epStatus' = [epStatus EXCEPT ![e] = "faulted"]
        /\ epMachine' = epMachine
        /\ state' = [state EXCEPT ![m] = TransitionTo(@, First["fault"])]
    BY <1>2 DEF Fault
  <2>3. m \in Machine
    BY <2>1 DEF FaultInv, EpisodesPlaced
  <2>4. ~IsProductive(state'[m])
    BY <2>2, <2>3, StoppingMoves DEF FaultInv, FaultTypes
  <2>5. Producing' = Producing \ {m}
    BY <2>2, <2>3, <2>4 DEF Producing, IsProductive, FaultInv, FaultTypes
  <2>6. Cycle!Fail(e)
    BY <2>1, <2>2, <2>5 DEF Cycle!Fail
  <2>7. QED
    BY <2>6 DEF Cycle!Next
<1>3. ASSUME UNCHANGED episodeVars
      PROVE  [Cycle!Next]_<<epMachine, epStatus, Producing>>
  BY <1>3, OnlyOperates DEF episodeVars
<1>4. QED
  BY <1>1, <1>2, <1>3 DEF FailureNext, Warn, WarnAndPlan, StaleCallback

LEMMA MaintenanceImplements ==
  ASSUME CycleInv, FaultInv', MaintenanceNext
  PROVE  [Cycle!Next]_<<epMachine, epStatus, Producing>>
<1> USE DEF CycleInv
<1>1. ASSUME NEW j \in Job, CompleteJob(j)
      PROVE  [Cycle!Next]_<<epMachine, epStatus, Producing>>
  <2> DEFINE m == jobMachine[j]
  <2>1. /\ Resolve(m)
        /\ epMachine' = epMachine
        /\ state' = [state EXCEPT ![m] = ForceRoute(@, First["idle"])]
    BY <1>1 DEF CompleteJob
  <2>2. CASE m \in Machine
    <3>1. epStatus' = [e \in Episode |->
                         IF epMachine[e] = m /\ epStatus[e] = "developing" THEN "averted"
                         ELSE IF epMachine[e] = m /\ epStatus[e] = "faulted" THEN "repaired"
                         ELSE epStatus[e]]
      BY <2>1 DEF Resolve, ActiveEpisodes
    <3>2. Producing' \in {Producing, Producing \ {m}}
      <4>1. state'[m] = state[m] \/ ~IsProductive(state'[m])
        BY <2>1, <2>2, Stoppable DEF ForceRoute, IsProductive, FaultInv, FaultTypes
      <4>2. \A x \in Machine \ {m} : state'[x] = state[x]
        BY <2>1 DEF FaultInv, FaultTypes
      <4>3. QED
        BY <2>2, <4>1, <4>2 DEF Producing, IsProductive
    <3>3. Cycle!Repair(m)
      BY <2>1, <3>1, <3>2 DEF Cycle!Repair
    <3>4. QED
      BY <2>2, <3>3 DEF Cycle!Next
  <2>3. CASE m \notin Machine
    <3>1. epStatus' = epStatus
      BY <2>1, <2>3 DEF Resolve, ActiveEpisodes, FaultInv, FaultTypes, EpisodesPlaced, EpStatus
    <3>2. QED
      BY <2>1, <3>1, OnlyOperates
  <2>4. QED
    BY <2>2, <2>3
<1>2. ASSUME UNCHANGED episodeVars
      PROVE  [Cycle!Next]_<<epMachine, epStatus, Producing>>
  BY <1>2, OnlyOperates DEF episodeVars
<1>3. QED
  BY <1>1, <1>2 DEF MaintenanceNext, ScanPreventive, StartJob

LEMMA BatchesImplement ==
  ASSUME CycleInv, FaultInv', BatchNext
  PROVE  [Cycle!Next]_<<epMachine, epStatus, Producing>>
<1>1. ASSUME NEW b \in Batch, NEW m \in Machine, NEW back, NEW e \in Episode,
             NEW w \in BOOLEAN, StartStageMisset(b, m, back, e, w)
      PROVE  [Cycle!Next]_<<epMachine, epStatus, Producing>>
  BY <1>1, OnlyBegins DEF StartStageMisset, CycleInv
<1>2. ASSUME UNCHANGED episodeVars
      PROVE  [Cycle!Next]_<<epMachine, epStatus, Producing>>
  BY <1>2, OnlyOperates DEF episodeVars
<1>3. QED
  BY <1>1, <1>2
  DEF BatchNext, CreateBatch, EndReplenish, StartStage, WaitForMachine, Poll,
      WaitForRepair, CompleteStage, EndCleaning

(* Every plant implements the repair cycle.                                 *)
THEOREM RepairCycleRefined == Spec => ImplementsRepairCycle
<1>1. Init => Cycle!Init
  BY DEF Init, Cycle!Init, Producing
<1>2. CycleInv /\ FaultInv' /\ [Next]_vars => [Cycle!Next]_<<epMachine, epStatus, Producing>>
  <2> SUFFICES ASSUME CycleInv, FaultInv', [Next]_vars
               PROVE  [Cycle!Next]_<<epMachine, epStatus, Producing>>
    OBVIOUS
  <2>1. CASE Next
    <3>1. CASE StaffingNext
      BY <3>1, OnlyOperates DEF StaffingNext, StartShift, ProductionTick, episodeVars
    <3>2. QED
      BY <2>1, <3>1, FailuresImplement, MaintenanceImplements, BatchesImplement DEF Next
  <2>2. CASE UNCHANGED vars
    BY <2>2, OnlyOperates DEF vars, episodeVars
  <2>3. QED
    BY <2>1, <2>2
<1>3. CycleInv => FaultInv
  BY DEF CycleInv
<1>4. QED
  BY <1>1, <1>2, <1>3, CycleInvHolds, PTL DEF Spec, ImplementsRepairCycle, Cycle!Spec, Cycle!cycle

-----------------------------------------------------------------------------
(* Type correctness, by groups of variables                                 *)

MachineTypes ==
  /\ state \in [Machine -> State]
  /\ currentBatch \in [Machine -> Batch \cup {None}]
  /\ pending \in [Machine -> BOOLEAN]
  /\ manned \in [Machine -> BOOLEAN]

EpisodeTypes ==
  /\ epMachine \in [Episode -> Machine \cup {None}]
  /\ epStatus \in [Episode -> EpStatus]
  /\ hitBatch \in [Episode -> Batch \cup {None}]

JobTypes ==
  /\ jobMachine \in [Job -> Machine \cup {None}]
  /\ jobKind \in [Job -> JobKind]
  /\ jobCause \in [Job -> Episode \cup {None}]
  /\ jobStatus \in [Job -> JobStatus]

BatchTypes ==
  /\ batchStatus \in [Batch -> {"unborn", "active", "completed"}]
  /\ stageIndex \in [Batch -> 0..Stages]
  /\ stageFaults \in [Batch -> SUBSET Episode]
  /\ failureIds \in [Batch -> SUBSET Episode]

Types == /\ MachineTypes /\ EpisodeTypes /\ JobTypes /\ BatchTypes
         /\ agenda \subseteq Task /\ control \in Control

LEMMA TypesAreTypeOK == Types <=> TypeOK
BY DEF Types, TypeOK, MachineTypes, EpisodeTypes, JobTypes, BatchTypes

(* The callbacks there are.                                                 *)
LEMMA Tasks ==
  /\ \A e \in Episode : <<"warn", e>> \in Task /\ <<"fault", e>> \in Task
  /\ \A j \in Job : <<"start", j>> \in Task /\ <<"end", j>> \in Task
  /\ \A b \in Batch : <<"poll", b>> \in Task
  /\ \A b \in Batch, m \in Machine, w \in 0..MaxRepairWaits : <<"stage_end", b, m, w>> \in Task
  /\ \A m \in Machine, b \in Batch, i \in Stage : <<"clean_end", m, b, i>> \in Task
BY DEF Task

(* The invariant: who carries a batch, how far it is, and what it is on.    *)
Carriers   == {t \in agenda : t[1] \in {"poll", "stage_end"}}
Running(b) == control[1] = "start_stage" /\ control[2] = b

Carried ==
  \A b \in Batch :
    /\ \A t, u \in Continuations(b) : t = u
    /\ Running(b) => Continuations(b) = {}
    /\ batchStatus[b] = "active" <=> Running(b) \/ Continuations(b) # {}
    /\ batchStatus[b] # "completed" => stageIndex[b] < Stages

BatchInv == Types /\ Carried /\ HeldWhileInStage

-----------------------------------------------------------------------------
(* Types are kept, component by component                                   *)

LEMMA BookingTypes ==
  ASSUME MachineTypes, JobTypes, NEW j \in Job, NEW m \in Machine \cup {None},
         NEW kind \in JobKind, NEW cause \in Episode \cup {None},
         Schedule(j, m, kind, cause)
  PROVE  JobTypes' /\ pending' \in [Machine -> BOOLEAN]
BY DEF Schedule, JobTypes, MachineTypes, JobStatus

LEMMA OnsetTypes ==
  ASSUME EpisodeTypes, NEW e \in Episode, NEW m \in Machine, NEW w \in BOOLEAN, Initiate(e, m)
  PROVE  EpisodeTypes' /\ Onset(e, w) \subseteq Task
BY Tasks DEF Initiate, EpisodeTypes, EpStatus, Onset

LEMMA FailuresKeepTypes ==
  ASSUME Types, FaultInv, FailureNext
  PROVE  Types'
<1> USE DEF Types
<1>1. ASSUME NEW m \in Machine, NEW e \in Episode, NEW w \in BOOLEAN,
             EvaluateHazard(m, e, w) \/ Inject(m, e, w)
      PROVE  Types'
  <2>1. EpisodeTypes' /\ agenda' \subseteq Task
    BY <1>1, OnsetTypes DEF EvaluateHazard, Inject
  <2>2. MachineTypes' /\ JobTypes' /\ BatchTypes' /\ control' \in Control
    BY <1>1 DEF EvaluateHazard, Inject, machineVars, jobVars, batchVars,
                MachineTypes, JobTypes, BatchTypes
  <2>3. QED
    BY <2>1, <2>2
<1>2. ASSUME NEW m, WarnMachine(m)
      PROVE  state' \in [Machine -> State]
  BY <1>2, MovesStayInState DEF WarnMachine, MachineTypes
<1>3. ASSUME NEW e \in Episode, Warn(e)
      PROVE  Types'
  <2>1. MachineTypes'
    BY <1>2, <1>3 DEF Warn, MachineTypes
  <2>2. EpisodeTypes' /\ JobTypes' /\ BatchTypes' /\ control' \in Control
    BY <1>3 DEF Warn, episodeVars, jobVars, batchVars, EpisodeTypes, JobTypes, BatchTypes
  <2>3. agenda' \subseteq Task
    BY <1>3 DEF Warn, Pop
  <2>4. QED
    BY <2>1, <2>2, <2>3
<1>4. ASSUME NEW e \in Episode, NEW j \in Job, WarnAndPlan(e, j)
      PROVE  Types'
  <2>1. epMachine[e] \in Machine \cup {None}
    BY DEF EpisodeTypes
  <2>2. JobTypes' /\ pending' \in [Machine -> BOOLEAN]
    BY <1>4, <2>1, BookingTypes DEF WarnAndPlan, JobKind
  <2>3. MachineTypes'
    BY <1>2, <1>4, <2>2 DEF WarnAndPlan, MachineTypes
  <2>4. EpisodeTypes' /\ BatchTypes' /\ control' \in Control
    BY <1>4 DEF WarnAndPlan, episodeVars, batchVars, EpisodeTypes, BatchTypes
  <2>5. agenda' \subseteq Task
    BY <1>4, Tasks DEF WarnAndPlan, Pop
  <2>6. QED
    BY <2>2, <2>3, <2>4, <2>5
<1>5. ASSUME NEW e \in Episode, NEW j \in Job, Fault(e, j)
      PROVE  Types'
  <2> DEFINE m == epMachine[e]
  <2>1. m \in Machine
    BY <1>5 DEF Fault, Active, FaultInv, EpisodesPlaced
  <2>2. JobTypes' /\ pending' \in [Machine -> BOOLEAN]
    BY <1>5, <2>1, BookingTypes DEF Fault, JobKind
  <2>3. MachineTypes'
    BY <1>5, <2>1, <2>2, MovesStayInState DEF Fault, MachineTypes
  <2>4. EpisodeTypes'
    BY <1>5, <2>1 DEF Fault, EpisodeTypes, MachineTypes, EpStatus
  <2>5. BatchTypes' /\ control' \in Control
    BY <1>5, <2>1 DEF Fault, BatchTypes, MachineTypes
  <2>6. agenda' \subseteq Task
    BY <1>5, Tasks DEF Fault, Pop
  <2>7. QED
    BY <2>2, <2>3, <2>4, <2>5, <2>6
<1>6. ASSUME NEW kind \in {"warn", "fault"}, NEW e \in Episode, StaleCallback(kind, e)
      PROVE  Types'
  BY <1>6 DEF StaleCallback, Pop, machineVars, episodeVars, jobVars, batchVars,
              MachineTypes, EpisodeTypes, JobTypes, BatchTypes
<1>7. QED
  BY <1>1, <1>3, <1>4, <1>5, <1>6 DEF FailureNext

LEMMA MaintenanceKeepsTypes ==
  ASSUME Types, MaintenanceNext
  PROVE  Types'
<1> USE DEF Types
<1>1. ASSUME NEW m \in Machine, NEW j \in Job, ScanPreventive(m, j)
      PROVE  Types'
  <2>1. JobTypes' /\ pending' \in [Machine -> BOOLEAN]
    BY <1>1, BookingTypes DEF ScanPreventive, JobKind
  <2>2. MachineTypes'
    BY <1>1, <2>1 DEF ScanPreventive, MachineTypes
  <2>3. EpisodeTypes' /\ BatchTypes' /\ control' \in Control
    BY <1>1 DEF ScanPreventive, episodeVars, batchVars, EpisodeTypes, BatchTypes
  <2>4. agenda' \subseteq Task
    BY <1>1, Tasks DEF ScanPreventive
  <2>5. QED
    BY <2>1, <2>2, <2>3, <2>4
<1>2. ASSUME NEW j \in Job, StartJob(j)
      PROVE  Types'
  <2>1. MachineTypes'
    BY <1>2, MovesStayInState DEF StartJob, MachineTypes
  <2>2. JobTypes'
    BY <1>2 DEF StartJob, JobTypes, JobStatus
  <2>3. EpisodeTypes' /\ BatchTypes' /\ control' \in Control
    BY <1>2 DEF StartJob, episodeVars, batchVars, EpisodeTypes, BatchTypes
  <2>4. agenda' \subseteq Task
    BY <1>2, Tasks DEF StartJob, Pop
  <2>5. QED
    BY <2>1, <2>2, <2>3, <2>4
<1>3. ASSUME NEW j \in Job, CompleteJob(j)
      PROVE  Types'
  <2>1. MachineTypes'
    BY <1>3, MovesStayInState DEF CompleteJob, MachineTypes
  <2>2. EpisodeTypes'
    BY <1>3 DEF CompleteJob, Resolve, EpisodeTypes, EpStatus
  <2>3. JobTypes'
    BY <1>3 DEF CompleteJob, JobTypes, JobStatus
  <2>4. BatchTypes' /\ control' \in Control
    BY <1>3 DEF CompleteJob, batchVars, BatchTypes
  <2>5. agenda' \subseteq Task
    BY <1>3 DEF CompleteJob, Pop
  <2>6. QED
    BY <2>1, <2>2, <2>3, <2>4, <2>5
<1>4. QED
  BY <1>1, <1>2, <1>3 DEF MaintenanceNext

(* The end of a stage is only booked for a batch that is still on the route. *)
LEMMA BatchesKeepTypes ==
  ASSUME Types, Carried, BatchNext
  PROVE  Types'
<1> USE DEF Types
<1>1. ASSUME NEW b \in Batch, CreateBatch(b)
      PROVE  Types'
  BY <1>1 DEF CreateBatch, Control, machineVars, episodeVars, jobVars,
              MachineTypes, EpisodeTypes, JobTypes, BatchTypes
<1>2. ASSUME EndReplenish
      PROVE  Types'
  BY <1>2 DEF EndReplenish, Control, machineVars, episodeVars, jobVars, batchVars,
              MachineTypes, EpisodeTypes, JobTypes, BatchTypes
<1>3. ASSUME NEW b \in Batch, NEW m \in Machine, NEW back \in {Loop, Replenish},
             NEW booked \in SUBSET Task, Occupy(b, m, back, booked)
      PROVE  MachineTypes' /\ JobTypes' /\ BatchTypes' /\ agenda' \subseteq Task /\ control' \in Control
  <2>1. MachineTypes'
    BY <1>3, MovesStayInState DEF Occupy, MachineTypes
  <2>2. JobTypes' /\ BatchTypes' /\ control' \in Control
    BY <1>3 DEF Occupy, jobVars, JobTypes, BatchTypes, Control
  <2>3. <<"stage_end", b, m, 0>> \in Task
    BY Tasks, FloorParameters
  <2>4. agenda' \subseteq Task
    BY <1>3, <2>3 DEF Occupy
  <2>5. QED
    BY <2>1, <2>2, <2>4
<1>4. ASSUME NEW b \in Batch, NEW m \in Machine, NEW back \in {Loop, Replenish},
             StartStage(b, m, back)
      PROVE  Types'
  BY <1>3, <1>4 DEF StartStage, episodeVars, EpisodeTypes
<1>5. ASSUME NEW b \in Batch, NEW m \in Machine, NEW back \in {Loop, Replenish},
             NEW e \in Episode, NEW w \in BOOLEAN, StartStageMisset(b, m, back, e, w)
      PROVE  Types'
  <2>1. EpisodeTypes' /\ Onset(e, w) \subseteq Task
    BY <1>5, OnsetTypes DEF StartStageMisset
  <2>2. QED
    BY <1>3, <1>5, <2>1 DEF StartStageMisset
<1>6. ASSUME NEW b \in Batch, NEW back \in {Loop, Replenish}, WaitForMachine(b, back)
      PROVE  Types'
  <2>1. agenda' \subseteq Task
    BY <1>6, Tasks DEF WaitForMachine
  <2>2. QED
    BY <1>6, <2>1 DEF WaitForMachine, Control, machineVars, episodeVars, jobVars, batchVars,
                      MachineTypes, EpisodeTypes, JobTypes, BatchTypes
<1>7. ASSUME NEW b \in Batch, Poll(b)
      PROVE  Types'
  BY <1>7 DEF Poll, Pop, Control, machineVars, episodeVars, jobVars, batchVars,
              MachineTypes, EpisodeTypes, JobTypes, BatchTypes
<1>8. ASSUME NEW b \in Batch, NEW m \in Machine, NEW w \in 0..MaxRepairWaits,
             WaitForRepair(b, m, w)
      PROVE  Types'
  <2>1. w + 1 \in 0..MaxRepairWaits
    BY <1>8, FloorParameters DEF WaitForRepair
  <2>2. agenda' \subseteq Task
    BY <1>8, <2>1, Tasks DEF WaitForRepair, Pop
  <2>3. QED
    BY <1>8, <2>2 DEF WaitForRepair, machineVars, episodeVars, jobVars, batchVars,
                      MachineTypes, EpisodeTypes, JobTypes, BatchTypes
<1>9. ASSUME NEW b \in Batch, NEW m \in Machine, NEW w \in 0..MaxRepairWaits,
             CompleteStage(b, m, w)
      PROVE  Types'
  <2>1. stageIndex[b] + 1 \in Stage
    <3>1. <<"stage_end", b, m, w>> \in Continuations(b)
      BY <1>9 DEF CompleteStage, Pop, Continuations
    <3>2. stageIndex[b] \in 0..Stages /\ stageIndex[b] < Stages
      BY <3>1 DEF Carried, BatchTypes
    <3>3. QED
      BY <3>2, FloorParameters DEF Stage
  <2>2. MachineTypes'
    <3>1. Released(m) \in State
      BY MovesStayInState, StateModel DEF Released, Cleans, Has, MachineTypes, RoleName
    <3>2. QED
      BY <1>9, <3>1 DEF CompleteStage, MachineTypes
  <2>3. LastFault(b) \subseteq Episode
    BY DEF LastFault, BatchTypes
  <2>4. BatchTypes'
    <3>1. stageIndex' \in [Batch -> 0..Stages]
      BY <1>9, <2>1 DEF CompleteStage, BatchTypes, Stage
    <3>2. batchStatus' \in [Batch -> {"unborn", "active", "completed"}]
      BY <1>9 DEF CompleteStage, BatchTypes
    <3>3. stageFaults' \in [Batch -> SUBSET Episode] /\ failureIds' \in [Batch -> SUBSET Episode]
      BY <1>9, <2>3 DEF CompleteStage, BatchTypes
    <3>4. QED
      BY <3>1, <3>2, <3>3 DEF BatchTypes
  <2>5. EpisodeTypes' /\ JobTypes' /\ control' \in Control
    BY <1>9 DEF CompleteStage, episodeVars, jobVars, EpisodeTypes, JobTypes, Control
  <2>6. agenda' \subseteq Task
    BY <1>9, <2>1, Tasks DEF CompleteStage, Pop
  <2>7. QED
    BY <2>2, <2>4, <2>5, <2>6
<1>10. ASSUME NEW b \in Batch, NEW m \in Machine, NEW i \in Stage, EndCleaning(m, b, i)
      PROVE  Types'
  <2>1. MachineTypes'
    BY <1>10, MovesStayInState DEF EndCleaning, MachineTypes
  <2>2. QED
    BY <1>10, <2>1 DEF EndCleaning, Pop, episodeVars, jobVars, batchVars,
                       EpisodeTypes, JobTypes, BatchTypes
<1>11. QED
  BY <1>1, <1>2, <1>4, <1>5, <1>6, <1>7, <1>8, <1>9, <1>10 DEF BatchNext

LEMMA StaffingKeepsTypes ==
  ASSUME Types, StaffingNext
  PROVE  Types'
<1> USE DEF Types
<1>1. ASSUME NEW staffed \in SUBSET Unit, StartShift(staffed)
      PROVE  Types'
  <2>1. manned' \in [Machine -> BOOLEAN]
    BY <1>1 DEF StartShift, MachineTypes, LosesOperator, GetsOperator
  <2>2. state' \in [Machine -> State]
    BY <1>1, MovesStayInState DEF StartShift, MachineTypes
  <2>3. QED
    BY <1>1, <2>1, <2>2 DEF StartShift, MachineTypes, episodeVars, jobVars, batchVars,
                            EpisodeTypes, JobTypes, BatchTypes
<1>2. ASSUME ProductionTick
      PROVE  Types'
  <2>1. \A m \in Machine : AfterDuty(m) \in State
    BY MovesStayInState DEF AfterDuty, MachineTypes
  <2>2. state' \in [Machine -> State]
    BY <1>2, <2>1 DEF ProductionTick
  <2>3. QED
    BY <1>2, <2>2 DEF ProductionTick, Control, MachineTypes, episodeVars, jobVars, batchVars,
                      EpisodeTypes, JobTypes, BatchTypes
<1>3. QED
  BY <1>1, <1>2 DEF StaffingNext

-----------------------------------------------------------------------------
(* Carrying a batch, and holding it                                         *)

(* What neither touches the batches nor moves their callbacks keeps both.   *)
LEMMA CarriedKept ==
  ASSUME Carried, HeldWhileInStage, Carriers' = Carriers,
         UNCHANGED <<batchStatus, stageIndex, currentBatch>>,
         \A b \in Batch : Running(b)' <=> Running(b)
  PROVE  Carried' /\ HeldWhileInStage'
<1>1. \A b \in Batch : Continuations(b)' = Continuations(b)
  BY DEF Carriers, Continuations
<1>2. \A b \in Batch, m \in Machine, w \in 0..MaxRepairWaits :
        <<"stage_end", b, m, w>> \in agenda' <=> <<"stage_end", b, m, w>> \in agenda
  BY DEF Carriers
<1>3. QED
  BY <1>1, <1>2 DEF Carried, HeldWhileInStage

(* Outside _start_stage no batch is running.                                *)
LEMMA NoneRuns ==
  /\ \A b : control \in {Loop, Replenish} => ~Running(b)
  /\ \A b : control' \in {Loop, Replenish} => ~Running(b)'
<1>1. Loop[1] = "loop" /\ Replenish[1] = "replenish"
  BY DEF Loop, Replenish
<1>2. QED
  BY <1>1 DEF Running

LEMMA FailuresKeepCarried ==
  ASSUME Carried, HeldWhileInStage, FailureNext
  PROVE  Carried' /\ HeldWhileInStage'
<1>1. UNCHANGED <<batchStatus, stageIndex, currentBatch, control>>
  BY DEF FailureNext, EvaluateHazard, Inject, Warn, WarnAndPlan, Fault, StaleCallback,
         machineVars, batchVars
<1>2. Carriers' = Carriers
  <2>1. ASSUME NEW e \in Episode, NEW w, agenda' = agenda \cup Onset(e, w)
        PROVE  Carriers' = Carriers
    <3>1. \A t \in Onset(e, w) : t[1] \notin {"poll", "stage_end"}
      BY DEF Onset
    <3>2. QED
      BY <2>1, <3>1 DEF Carriers
  <2>2. ASSUME NEW kind \in {"warn", "fault"}, NEW e \in Episode, NEW new, Pop(<<kind, e>>, new),
               \A t \in new : t[1] = "start"
        PROVE  Carriers' = Carriers
    <3>1. <<kind, e>>[1] \notin {"poll", "stage_end"}
      OBVIOUS
    <3>2. QED
      BY <2>2, <3>1 DEF Pop, Carriers
  <2>3. \A j \in Job : \A t \in {<<"start", j>>} : t[1] = "start"
    OBVIOUS
  <2>4. ASSUME NEW e \in Episode, Warn(e)
        PROVE  Carriers' = Carriers
    BY <2>2, <2>4 DEF Warn
  <2>5. ASSUME NEW e \in Episode, NEW j \in Job, WarnAndPlan(e, j) \/ Fault(e, j)
        PROVE  Carriers' = Carriers
    <3>1. Pop(<<"warn", e>>, {<<"start", j>>}) \/ Pop(<<"fault", e>>, {<<"start", j>>})
      BY <2>5 DEF WarnAndPlan, Fault
    <3>2. QED
      BY <2>2, <2>3, <3>1
  <2>6. ASSUME NEW e \in Episode, NEW kind \in {"warn", "fault"}, StaleCallback(kind, e)
        PROVE  Carriers' = Carriers
    BY <2>2, <2>6 DEF StaleCallback
  <2>7. QED
    BY <2>1, <2>4, <2>5, <2>6 DEF FailureNext, EvaluateHazard, Inject
<1>3. QED
  BY <1>1, <1>2, CarriedKept DEF Running

LEMMA MaintenanceKeepsCarried ==
  ASSUME Carried, HeldWhileInStage, MaintenanceNext
  PROVE  Carried' /\ HeldWhileInStage'
<1>1. UNCHANGED <<batchStatus, stageIndex, currentBatch, control>>
  BY DEF MaintenanceNext, ScanPreventive, StartJob, CompleteJob, batchVars, machineVars
<1>2. Carriers' = Carriers
  <2>1. \A j \in Job : <<"start", j>>[1] = "start" /\ <<"end", j>>[1] = "end"
    OBVIOUS
  <2>2. QED
    BY <2>1 DEF MaintenanceNext, ScanPreventive, StartJob, CompleteJob, Pop, Carriers
<1>3. QED
  BY <1>1, <1>2, CarriedKept DEF Running

LEMMA StaffingKeepsCarried ==
  ASSUME Carried, HeldWhileInStage, StaffingNext
  PROVE  Carried' /\ HeldWhileInStage'
<1>1. UNCHANGED <<batchStatus, stageIndex, currentBatch, agenda>>
  BY DEF StaffingNext, StartShift, ProductionTick, batchVars
<1>2. \A b \in Batch : Running(b)' <=> Running(b)
  <2>1. control \in {Loop, Replenish} /\ control' \in {Loop, Replenish}
    BY DEF StaffingNext, StartShift, ProductionTick
  <2>2. QED
    BY <2>1, NoneRuns
<1>3. QED
  BY <1>1, <1>2, CarriedKept DEF Carriers

(* A step that moves one batch leaves the others carried as they were.      *)
Moves(b) ==
  \A c \in Batch \ {b} :
    /\ Continuations(c)' = Continuations(c)
    /\ Running(c)' <=> Running(c)
    /\ batchStatus'[c] = batchStatus[c]
    /\ stageIndex'[c] = stageIndex[c]

LEMMA OneMoves ==
  ASSUME Carried, NEW b \in Batch, Moves(b),
         \A t, u \in Continuations(b)' : t = u,
         Running(b)' => Continuations(b)' = {},
         batchStatus'[b] = "active" <=> Running(b)' \/ Continuations(b)' # {},
         batchStatus'[b] # "completed" => stageIndex'[b] < Stages
  PROVE  Carried'
BY DEF Carried, Moves

LEMMA OneRuns ==
  /\ \A b, c, back : control = <<"start_stage", b, back>> => (Running(c) <=> c = b)
  /\ \A b, c, back : control' = <<"start_stage", b, back>> => (Running(c)' <=> c = b)
BY DEF Running

LEMMA CreateBatchCarries ==
  ASSUME Types, Carried, HeldWhileInStage, NEW b \in Batch, CreateBatch(b)
  PROVE  Carried' /\ HeldWhileInStage'
<1>1. /\ batchStatus[b] = "unborn"
      /\ batchStatus' = [batchStatus EXCEPT ![b] = "active"]
      /\ control = Replenish /\ control' = <<"start_stage", b, Replenish>>
      /\ UNCHANGED <<stageIndex, agenda, currentBatch>>
  BY DEF CreateBatch, IsNext, machineVars
<1>2. \A c \in Batch : Continuations(c)' = Continuations(c)
  BY <1>1 DEF Continuations
<1>3. \A c \in Batch : ~Running(c) /\ (Running(c)' <=> c = b)
  BY <1>1, NoneRuns, OneRuns
<1>4. Continuations(b) = {} /\ stageIndex[b] < Stages
  BY <1>1 DEF Carried
<1>5. Moves(b)
  BY <1>1, <1>2, <1>3 DEF Moves, Types, BatchTypes
<1>6. Carried'
  BY <1>1, <1>2, <1>3, <1>4, <1>5, OneMoves DEF Types, BatchTypes
<1>7. QED
  BY <1>1, <1>6 DEF HeldWhileInStage

LEMMA OccupyCarries ==
  ASSUME Types, Carried, HeldWhileInStage, NEW b \in Batch, NEW m \in Machine,
         NEW back \in {Loop, Replenish}, NEW booked, Occupy(b, m, back, booked),
         \A t \in booked : t[1] \notin {"poll", "stage_end"}
  PROVE  Carried' /\ HeldWhileInStage'
<1> DEFINE task == <<"stage_end", b, m, 0>>
<1>1. /\ control = <<"start_stage", b, back>> /\ control' \in {Loop, Replenish}
      /\ currentBatch[m] = None
      /\ currentBatch' = [currentBatch EXCEPT ![m] = b]
      /\ agenda' = agenda \cup {task} \cup booked
      /\ UNCHANGED <<batchStatus, stageIndex>>
  BY DEF Occupy, Candidates
<1>2. task[1] = "stage_end" /\ task[2] = b
  OBVIOUS
<1>3. \A c \in Batch : (Running(c) <=> c = b) /\ ~Running(c)'
  BY <1>1, NoneRuns, OneRuns
<1>4. /\ Continuations(b)' = {task}
      /\ \A c \in Batch \ {b} : Continuations(c)' = Continuations(c)
  <2>1. Continuations(b) = {}
    BY <1>3 DEF Carried
  <2>2. QED
    BY <1>1, <1>2, <2>1 DEF Continuations
<1>5. Carried'
  <2>1. Moves(b)
    BY <1>1, <1>3, <1>4 DEF Moves
  <2>2. batchStatus[b] = "active"
    BY <1>3 DEF Carried
  <2>3. QED
    BY <1>1, <1>3, <1>4, <2>1, <2>2, OneMoves DEF Carried
<1>6. HeldWhileInStage'
  <2> SUFFICES ASSUME NEW x \in Machine, NEW c \in Batch
               PROVE  currentBatch'[x] = c <=>
                        \E w \in 0..MaxRepairWaits : <<"stage_end", c, x, w>> \in agenda'
    BY DEF HeldWhileInStage
  <2>1. \A w \in 0..MaxRepairWaits :
          <<"stage_end", c, x, w>> \in agenda'
            <=> <<"stage_end", c, x, w>> \in agenda \/ (c = b /\ x = m /\ w = 0)
    BY <1>1
  <2>2. 0 \in 0..MaxRepairWaits
    BY FloorParameters
  <2>3. currentBatch'[x] = IF x = m THEN b ELSE currentBatch[x]
    BY <1>1 DEF Types, MachineTypes
  <2>4. c # None
    BY FloorParameters DEF Batch
  <2>5. currentBatch[x] = c <=> \E w \in 0..MaxRepairWaits : <<"stage_end", c, x, w>> \in agenda
    BY DEF HeldWhileInStage
  <2>6. QED
    BY <1>1, <2>1, <2>2, <2>3, <2>4, <2>5
<1>7. QED
  BY <1>5, <1>6

LEMMA WaitForMachineCarries ==
  ASSUME Carried, HeldWhileInStage, NEW b \in Batch, NEW back \in {Loop, Replenish},
         WaitForMachine(b, back)
  PROVE  Carried' /\ HeldWhileInStage'
<1> DEFINE task == <<"poll", b>>
<1>1. /\ control = <<"start_stage", b, back>> /\ control' \in {Loop, Replenish}
      /\ agenda' = agenda \cup {task}
      /\ UNCHANGED <<batchStatus, stageIndex, currentBatch>>
  BY DEF WaitForMachine, batchVars, machineVars
<1>2. task[1] = "poll" /\ task[2] = b
  OBVIOUS
<1>3. \A c \in Batch : (Running(c) <=> c = b) /\ ~Running(c)'
  BY <1>1, NoneRuns, OneRuns
<1>4. /\ Continuations(b)' = {task}
      /\ \A c \in Batch \ {b} : Continuations(c)' = Continuations(c)
  <2>1. Continuations(b) = {}
    BY <1>3 DEF Carried
  <2>2. QED
    BY <1>1, <1>2, <2>1 DEF Continuations
<1>5. Moves(b)
  BY <1>1, <1>3, <1>4 DEF Moves
<1>6. batchStatus[b] = "active"
  BY <1>3 DEF Carried
<1>7. Carried'
  BY <1>1, <1>3, <1>4, <1>5, <1>6, OneMoves DEF Carried
<1>8. \A c, m, w : <<"stage_end", c, m, w>> # task
  OBVIOUS
<1>9. HeldWhileInStage'
  BY <1>1, <1>8 DEF HeldWhileInStage
<1>10. QED
  BY <1>7, <1>9

LEMMA PollCarries ==
  ASSUME Carried, HeldWhileInStage, NEW b \in Batch, Poll(b)
  PROVE  Carried' /\ HeldWhileInStage'
<1> DEFINE task == <<"poll", b>>
<1>1. /\ control = Loop /\ control' = <<"start_stage", b, Loop>>
      /\ task \in agenda /\ agenda' = agenda \ {task}
      /\ UNCHANGED <<batchStatus, stageIndex, currentBatch>>
  BY DEF Poll, Pop, batchVars, machineVars
<1>2. task[1] = "poll" /\ task[2] = b
  OBVIOUS
<1>3. \A c \in Batch : ~Running(c) /\ (Running(c)' <=> c = b)
  BY <1>1, NoneRuns, OneRuns
<1>4. /\ Continuations(b) = {task} /\ Continuations(b)' = {}
      /\ \A c \in Batch \ {b} : Continuations(c)' = Continuations(c)
  <2>1. task \in Continuations(b)
    BY <1>1, <1>2 DEF Continuations
  <2>2. Continuations(b) = {task}
    BY <2>1 DEF Carried
  <2>3. QED
    BY <1>1, <1>2, <2>2 DEF Continuations
<1>5. Moves(b)
  BY <1>1, <1>3, <1>4 DEF Moves
<1>6. batchStatus[b] = "active"
  BY <1>4 DEF Carried
<1>7. Carried'
  BY <1>1, <1>3, <1>4, <1>5, <1>6, OneMoves DEF Carried
<1>8. \A c, m, w : <<"stage_end", c, m, w>> # task
  OBVIOUS
<1>9. HeldWhileInStage'
  BY <1>1, <1>8 DEF HeldWhileInStage
<1>10. QED
  BY <1>7, <1>9

LEMMA WaitForRepairCarries ==
  ASSUME Carried, HeldWhileInStage, NEW b \in Batch, NEW m \in Machine,
         NEW w \in 0..MaxRepairWaits, WaitForRepair(b, m, w)
  PROVE  Carried' /\ HeldWhileInStage'
<1> DEFINE old == <<"stage_end", b, m, w>>
           new == <<"stage_end", b, m, w + 1>>
<1>1. /\ control = Loop /\ control' = Loop
      /\ old \in agenda /\ agenda' = (agenda \ {old}) \cup {new}
      /\ UNCHANGED <<batchStatus, stageIndex, currentBatch>>
  BY DEF WaitForRepair, Pop, batchVars, machineVars
<1>2. old[1] = "stage_end" /\ old[2] = b /\ new[1] = "stage_end" /\ new[2] = b
  OBVIOUS
<1>3. \A c \in Batch : ~Running(c) /\ ~Running(c)'
  BY <1>1, NoneRuns
<1>4. /\ Continuations(b) = {old} /\ Continuations(b)' = {new}
      /\ \A c \in Batch \ {b} : Continuations(c)' = Continuations(c)
  <2>1. old \in Continuations(b)
    BY <1>1, <1>2 DEF Continuations
  <2>2. Continuations(b) = {old}
    BY <2>1 DEF Carried
  <2>3. QED
    BY <1>1, <1>2, <2>2 DEF Continuations
<1>5. Moves(b)
  BY <1>1, <1>3, <1>4 DEF Moves
<1>6. batchStatus[b] = "active"
  BY <1>4 DEF Carried
<1>7. Carried'
  BY <1>1, <1>3, <1>4, <1>5, <1>6, OneMoves DEF Carried
<1>8. HeldWhileInStage'
  <2>1. w + 1 \in 0..MaxRepairWaits
    BY FloorParameters DEF WaitForRepair
  <2>2. currentBatch[m] = b
    BY <1>1 DEF HeldWhileInStage
  <2> SUFFICES ASSUME NEW x \in Machine, NEW c \in Batch
               PROVE  currentBatch[x] = c <=>
                        \E v \in 0..MaxRepairWaits : <<"stage_end", c, x, v>> \in agenda'
    BY <1>1 DEF HeldWhileInStage
  <2>3. CASE c = b /\ x = m
    BY <1>1, <2>1, <2>2, <2>3
  <2>4. CASE ~(c = b /\ x = m)
    <3>1. \A v \in 0..MaxRepairWaits :
            <<"stage_end", c, x, v>> \in agenda' <=> <<"stage_end", c, x, v>> \in agenda
      BY <1>1, <2>4
    <3>2. QED
      BY <3>1 DEF HeldWhileInStage
  <2>5. QED
    BY <2>3, <2>4
<1>9. QED
  BY <1>7, <1>8

LEMMA CompleteStageCarries ==
  ASSUME Types, Carried, HeldWhileInStage, NEW b \in Batch, NEW m \in Machine,
         NEW w \in 0..MaxRepairWaits, CompleteStage(b, m, w)
  PROVE  Carried' /\ HeldWhileInStage'
<1> DEFINE old == <<"stage_end", b, m, w>>
           clean == <<"clean_end", m, b, stageIndex[b] + 1>>
           last == stageIndex[b] + 1 = Stages
<1>1. PICK new \in SUBSET {clean} :
        /\ control = Loop
        /\ control' = IF last THEN Loop ELSE <<"start_stage", b, Loop>>
        /\ old \in agenda /\ agenda' = (agenda \ {old}) \cup new
        /\ currentBatch' = [currentBatch EXCEPT ![m] = None]
        /\ stageIndex' = [stageIndex EXCEPT ![b] = @ + 1]
        /\ batchStatus' = IF last THEN [batchStatus EXCEPT ![b] = "completed"] ELSE batchStatus
  BY DEF CompleteStage, Pop
<1>2. /\ old[1] = "stage_end" /\ old[2] = b /\ clean[1] = "clean_end"
      /\ \A c, x, v : <<"stage_end", c, x, v>> # clean
  OBVIOUS
<1>3. /\ Continuations(b) = {old} /\ Continuations(b)' = {}
      /\ \A c \in Batch \ {b} : Continuations(c)' = Continuations(c)
  <2>1. old \in Continuations(b)
    BY <1>1, <1>2 DEF Continuations
  <2>2. Continuations(b) = {old}
    BY <2>1 DEF Carried
  <2>3. QED
    BY <1>1, <1>2, <2>2 DEF Continuations
<1>4. /\ batchStatus[b] = "active" /\ stageIndex[b] \in Nat /\ stageIndex[b] < Stages
      /\ Stages \in Nat
  <2>1. batchStatus[b] = "active"
    BY <1>3 DEF Carried
  <2>2. stageIndex[b] < Stages
    BY <2>1 DEF Carried
  <2>3. stageIndex[b] \in 0..Stages /\ Stages \in Nat
    BY FloorParameters DEF Types, BatchTypes
  <2>4. QED
    BY <2>1, <2>2, <2>3
<1>5. \A c \in Batch : ~Running(c) /\ (Running(c)' <=> c = b /\ ~last)
  BY <1>1, NoneRuns, OneRuns
<1>6. Moves(b)
  BY <1>1, <1>3, <1>5 DEF Moves, Types, BatchTypes
<1>7. /\ stageIndex'[b] = stageIndex[b] + 1
      /\ batchStatus'[b] = IF last THEN "completed" ELSE "active"
  BY <1>1, <1>4 DEF Types, BatchTypes
<1>8. Carried'
  BY <1>3, <1>4, <1>5, <1>6, <1>7, OneMoves
<1>9. HeldWhileInStage'
  <2>1. currentBatch[m] = b
    BY <1>1 DEF HeldWhileInStage
  <2> SUFFICES ASSUME NEW x \in Machine, NEW c \in Batch
               PROVE  currentBatch'[x] = c <=>
                        \E v \in 0..MaxRepairWaits : <<"stage_end", c, x, v>> \in agenda'
    BY DEF HeldWhileInStage
  <2>2. \A v \in 0..MaxRepairWaits :
          <<"stage_end", c, x, v>> \in agenda'
            <=> <<"stage_end", c, x, v>> \in agenda /\ <<"stage_end", c, x, v>> # old
    BY <1>1, <1>2
  <2>3. currentBatch'[x] = IF x = m THEN None ELSE currentBatch[x]
    BY <1>1 DEF Types, MachineTypes
  <2>4. c # None
    BY FloorParameters DEF Batch
  <2>5. currentBatch[x] = c <=> \E v \in 0..MaxRepairWaits : <<"stage_end", c, x, v>> \in agenda
    BY DEF HeldWhileInStage
  <2>6. CASE x = m /\ c = b
    <3>1. \A v \in 0..MaxRepairWaits : <<"stage_end", c, x, v>> \in agenda => <<"stage_end", c, x, v>> = old
      <4>1. \A v : <<"stage_end", b, m, v>>[1] = "stage_end" /\ <<"stage_end", b, m, v>>[2] = b
        OBVIOUS
      <4>2. QED
        BY <1>3, <2>6, <4>1 DEF Continuations
    <3>2. QED
      BY <2>2, <2>3, <2>4, <2>6, <3>1
  <2>7. CASE ~(x = m /\ c = b)
    BY <2>1, <2>2, <2>3, <2>4, <2>5, <2>7
  <2>8. QED
    BY <2>6, <2>7
<1>10. QED
  BY <1>8, <1>9

LEMMA BatchesKeepCarried ==
  ASSUME Types, Carried, HeldWhileInStage, BatchNext
  PROVE  Carried' /\ HeldWhileInStage'
<1>1. ASSUME NEW b \in Batch, NEW m \in Machine, NEW back \in {Loop, Replenish},
             StartStage(b, m, back)
      PROVE  Carried' /\ HeldWhileInStage'
  BY <1>1, OccupyCarries DEF StartStage
<1>2. ASSUME NEW b \in Batch, NEW m \in Machine, NEW back \in {Loop, Replenish},
             NEW e \in Episode, NEW w \in BOOLEAN, StartStageMisset(b, m, back, e, w)
      PROVE  Carried' /\ HeldWhileInStage'
  <2>1. \A t \in Onset(e, w) : t[1] \notin {"poll", "stage_end"}
    BY DEF Onset
  <2>2. QED
    BY <1>2, <2>1, OccupyCarries DEF StartStageMisset
<1>3. ASSUME EndReplenish
      PROVE  Carried' /\ HeldWhileInStage'
  <2>1. \A b \in Batch : Running(b)' <=> Running(b)
    <3>1. control \in {Loop, Replenish} /\ control' \in {Loop, Replenish}
      BY <1>3 DEF EndReplenish
    <3>2. QED
      BY <3>1, NoneRuns
  <2>2. QED
    BY <1>3, <2>1, CarriedKept DEF EndReplenish, machineVars, batchVars, Carriers
<1>4. ASSUME NEW m \in Machine, NEW b \in Batch, NEW i \in Stage, EndCleaning(m, b, i)
      PROVE  Carried' /\ HeldWhileInStage'
  <2>1. <<"clean_end", m, b, i>>[1] = "clean_end"
    OBVIOUS
  <2>2. Carriers' = Carriers
    BY <1>4, <2>1 DEF EndCleaning, Pop, Carriers
  <2>3. UNCHANGED <<batchStatus, stageIndex, currentBatch, control>>
    BY <1>4 DEF EndCleaning, batchVars
  <2>4. QED
    BY <2>2, <2>3, CarriedKept DEF Running
<1>5. QED
  BY <1>1, <1>2, <1>3, <1>4, CreateBatchCarries, WaitForMachineCarries, PollCarries,
     WaitForRepairCarries, CompleteStageCarries
  DEF BatchNext

-----------------------------------------------------------------------------
(* The invariant holds, and what follows from it                            *)

LEMMA BatchInvHolds == Spec => []BatchInv
<1>1. Init => BatchInv
  <2> SUFFICES ASSUME Init
               PROVE  BatchInv
    OBVIOUS
  <2>1. MachineTypes /\ EpisodeTypes /\ JobTypes
    BY StateModel DEF Init, MachineTypes, EpisodeTypes, JobTypes, EpStatus, JobKind, JobStatus
  <2>2. BatchTypes
    BY FloorParameters DEF Init, BatchTypes
  <2>3. agenda \subseteq Task /\ control \in Control
    BY DEF Init, Control
  <2>4. Carried
    <3>1. \A b \in Batch : ~Running(b) /\ Continuations(b) = {}
      BY NoneRuns DEF Init, Continuations
    <3>2. QED
      BY <3>1, FloorParameters DEF Init, Carried
  <2>5. HeldWhileInStage
    BY FloorParameters DEF Init, HeldWhileInStage, Batch
  <2>6. QED
    BY <2>1, <2>2, <2>3, <2>4, <2>5 DEF BatchInv, Types
<1>2. BatchInv /\ FaultInv /\ [Next]_vars => BatchInv'
  <2> SUFFICES ASSUME Types, Carried, HeldWhileInStage, FaultInv, [Next]_vars
               PROVE  Types' /\ Carried' /\ HeldWhileInStage'
    BY DEF BatchInv
  <2>1. CASE FailureNext
    BY <2>1, FailuresKeepTypes, FailuresKeepCarried
  <2>2. CASE MaintenanceNext
    BY <2>2, MaintenanceKeepsTypes, MaintenanceKeepsCarried
  <2>3. CASE BatchNext
    BY <2>3, BatchesKeepTypes, BatchesKeepCarried
  <2>4. CASE StaffingNext
    BY <2>4, StaffingKeepsTypes, StaffingKeepsCarried
  <2>5. CASE UNCHANGED vars
    <3>1. Types'
      BY <2>5 DEF vars, machineVars, episodeVars, jobVars, batchVars, Types,
                  MachineTypes, EpisodeTypes, JobTypes, BatchTypes
    <3>2. Carried' /\ HeldWhileInStage'
      BY <2>5, CarriedKept DEF vars, machineVars, batchVars, Carriers, Running
    <3>3. QED
      BY <3>1, <3>2
  <2>6. QED
    BY <2>1, <2>2, <2>3, <2>4, <2>5 DEF Next
<1>3. QED
  BY <1>1, <1>2, FaultInvHolds, PTL DEF Spec

(* Type correctness of the floor, for every plant: among others, no batch   *)
(* runs past the end of its route and no stage waits for repair more often  *)
(* than _MAX_REPAIR_WAITS.                                                  *)
THEOREM TypesHold == Spec => []TypeOK
<1>1. BatchInv => TypeOK
  BY TypesAreTypeOK DEF BatchInv
<1>2. QED
  BY <1>1, BatchInvHolds, PTL

(* An active batch is carried by exactly one pending or running callback,   *)
(* and no other batch by any: _start_stage is never called twice for the    *)
(* same stage and no batch is forgotten.                                    *)
THEOREM CarriedOnce == Spec => []OneContinuation
<1>1. BatchInv => OneContinuation
  <2> SUFFICES ASSUME Carried, NEW b \in Batch
               PROVE  Cardinality(Continuations(b)) + (IF Running(b) THEN 1 ELSE 0)
                        = IF batchStatus[b] = "active" THEN 1 ELSE 0
    BY DEF BatchInv, OneContinuation, Running
  <2>1. CASE Continuations(b) = {}
    BY <2>1, FS_EmptySet DEF Carried
  <2>2. CASE Continuations(b) # {}
    <3>1. PICK t \in Continuations(b) : TRUE
      BY <2>2
    <3>2. Continuations(b) = {t}
      BY <3>1 DEF Carried
    <3>3. Cardinality(Continuations(b)) = 1
      BY <3>2, FS_Singleton
    <3>4. QED
      BY <2>2, <3>3 DEF Carried
  <2>3. QED
    BY <2>1, <2>2
<1>2. QED
  BY <1>1, BatchInvHolds, PTL

(* "One batch occupies one machine at a time": machines hold batches exactly *)
(* while a stage of that batch on that machine is booked to end, so neither  *)
(* is ever shared.                                                           *)
THEOREM HeldInStage == Spec => []HeldWhileInStage
<1>1. BatchInv => HeldWhileInStage
  BY DEF BatchInv
<1>2. QED
  BY <1>1, BatchInvHolds, PTL

-----------------------------------------------------------------------------
(* Refinement of BatchFlow                                                  *)

FlowStep == [Flow!Next]_<<batchStatus, stageIndex, Holders>>

(* Most callbacks leave the batches where they are.                         *)
LEMMA FlowStutters ==
  ASSUME UNCHANGED <<batchStatus, stageIndex, currentBatch>>
  PROVE  FlowStep
BY DEF FlowStep, Holders

(* A batch that is being started is on no machine, and the machine it is    *)
(* given is on no batch.                                                    *)
LEMMA OccupyTakes ==
  ASSUME BatchInv, NEW b \in Batch, NEW m \in Machine, NEW back, NEW booked,
         Occupy(b, m, back, booked)
  PROVE  FlowStep
<1>1. /\ currentBatch[m] = None /\ m \in Serves[stageIndex[b] + 1]
      /\ currentBatch' = [currentBatch EXCEPT ![m] = b]
      /\ UNCHANGED <<batchStatus, stageIndex>>
  BY DEF Occupy, Candidates
<1>2. Running(b)
  BY OneRuns DEF Occupy
<1>3. batchStatus[b] = "active" /\ Continuations(b) = {}
  BY <1>2 DEF BatchInv, Carried
<1>4. Holders[b] = {}
  <2>1. \A x \in Machine, w \in 0..MaxRepairWaits : <<"stage_end", b, x, w>> \notin agenda
    <3>1. \A x, w : <<"stage_end", b, x, w>>[1] = "stage_end" /\ <<"stage_end", b, x, w>>[2] = b
      OBVIOUS
    <3>2. QED
      BY <1>3, <3>1 DEF Continuations
  <2>2. QED
    BY <2>1 DEF Holders, BatchInv, HeldWhileInStage
<1>5. \A c \in Batch : m \notin Holders[c]
  BY <1>1, FloorParameters DEF Holders, Batch
<1>6. Holders' = [Holders EXCEPT ![b] = {m}]
  <2>1. \A x \in Machine : currentBatch'[x] = IF x = m THEN b ELSE currentBatch[x]
    BY <1>1 DEF BatchInv, Types, MachineTypes
  <2>2. \A c \in Batch : {x \in Machine : currentBatch'[x] = c}
                          = IF c = b THEN {m} ELSE {x \in Machine : currentBatch[x] = c}
    BY <1>4, <1>5, <2>1 DEF Holders
  <2>3. QED
    BY <2>2 DEF Holders
<1>7. Flow!Take(b, m)
  BY <1>1, <1>3, <1>4, <1>5, <1>6 DEF Flow!Take
<1>8. QED
  BY <1>7 DEF FlowStep, Flow!Next

(* The machine that finishes a stage is the only one the batch is on.       *)
LEMMA CompleteStageFinishes ==
  ASSUME BatchInv, NEW b \in Batch, NEW m \in Machine, NEW w \in 0..MaxRepairWaits,
         CompleteStage(b, m, w)
  PROVE  FlowStep
<1> DEFINE old == <<"stage_end", b, m, w>>
           last == stageIndex[b] + 1 = Stages
<1>1. /\ old \in agenda
      /\ currentBatch' = [currentBatch EXCEPT ![m] = None]
      /\ stageIndex' = [stageIndex EXCEPT ![b] = @ + 1]
      /\ batchStatus' = IF last THEN [batchStatus EXCEPT ![b] = "completed"] ELSE batchStatus
  BY DEF CompleteStage, Pop
<1>2. Holders[b] = {m}
  <2>1. currentBatch[m] = b
    BY <1>1 DEF BatchInv, HeldWhileInStage
  <2>2. ASSUME NEW x \in Machine, currentBatch[x] = b
        PROVE  x = m
    <3>1. PICK v \in 0..MaxRepairWaits : <<"stage_end", b, x, v>> \in agenda
      BY <2>2 DEF BatchInv, HeldWhileInStage
    <3>2. <<"stage_end", b, x, v>> \in Continuations(b) /\ old \in Continuations(b)
      BY <1>1, <3>1 DEF Continuations
    <3>3. <<"stage_end", b, x, v>> = old
      BY <3>2 DEF BatchInv, Carried
    <3>4. QED
      BY <3>3
  <2>3. QED
    BY <2>1, <2>2 DEF Holders
<1>3. Holders' = [Holders EXCEPT ![b] = {}]
  <2>1. \A x \in Machine : currentBatch'[x] = IF x = m THEN None ELSE currentBatch[x]
    BY <1>1 DEF BatchInv, Types, MachineTypes
  <2>2. \A c \in Batch : c # None
    BY FloorParameters DEF Batch
  <2>3. \A c \in Batch : {x \in Machine : currentBatch'[x] = c}
                          = IF c = b THEN {} ELSE {x \in Machine : currentBatch[x] = c}
    BY <1>2, <2>1, <2>2 DEF Holders
  <2>4. QED
    BY <2>3 DEF Holders
<1>4. stageIndex'[b] = stageIndex[b] + 1
  BY <1>1 DEF BatchInv, Types, BatchTypes
<1>5. Flow!Finish(b, m)
  BY <1>1, <1>2, <1>3, <1>4 DEF Flow!Finish
<1>6. QED
  BY <1>5 DEF FlowStep, Flow!Next

LEMMA BatchesFlow ==
  ASSUME BatchInv, BatchNext
  PROVE  FlowStep
<1>1. ASSUME NEW b \in Batch, CreateBatch(b)
      PROVE  FlowStep
  <2>1. Flow!Active = ActiveBatches
    BY DEF ActiveBatches, Flow!Active
  <2>2. Holders' = Holders
    BY <1>1 DEF CreateBatch, machineVars, Holders
  <2>3. Flow!Cardinality(Flow!Active) = Cardinality(ActiveBatches)
    BY <2>1, Zenon DEF Cardinality, Flow!Cardinality
  <2>4. Flow!Order(b)
    BY <1>1, <2>2, <2>3 DEF CreateBatch, IsNext, Flow!Order
  <2>5. QED
    BY <2>4 DEF FlowStep, Flow!Next
<1>2. ASSUME NEW b \in Batch, NEW m \in Machine, NEW back \in {Loop, Replenish},
             \/ StartStage(b, m, back)
             \/ \E e \in Episode, w \in BOOLEAN : StartStageMisset(b, m, back, e, w)
      PROVE  FlowStep
  BY <1>2, OccupyTakes DEF StartStage, StartStageMisset
<1>3. CASE UNCHANGED <<batchStatus, stageIndex, currentBatch>>
  BY <1>3, FlowStutters
<1>4. QED
  BY <1>1, <1>2, <1>3, CompleteStageFinishes
  DEF BatchNext, EndReplenish, WaitForMachine, Poll, WaitForRepair, EndCleaning,
      machineVars, batchVars

(* Every plant implements the batch flow: the limit on active batches holds, *)
(* stages are passed in order, each on one machine that serves it and that   *)
(* no other batch is on, whatever fails or is repaired in the meantime.      *)
THEOREM FlowRefined == Spec => ImplementsBatchFlow
<1>1. Init => Flow!Init
  <2> SUFFICES ASSUME Init
               PROVE  Holders = [b \in Batch |-> {}]
    BY DEF Init, Flow!Init
  <2>1. \A b \in Batch : b # None
    BY FloorParameters DEF Batch
  <2>2. QED
    BY <2>1 DEF Init, Holders
<1>2. BatchInv /\ [Next]_vars => FlowStep
  <2> SUFFICES ASSUME BatchInv, [Next]_vars
               PROVE  FlowStep
    OBVIOUS
  <2>1. CASE BatchNext
    BY <2>1, BatchesFlow
  <2>2. CASE FailureNext \/ MaintenanceNext \/ StaffingNext \/ UNCHANGED vars
    <3>1. UNCHANGED <<batchStatus, stageIndex, currentBatch>>
      BY <2>2 DEF FailureNext, EvaluateHazard, Inject, Warn, WarnAndPlan, Fault, StaleCallback,
                  MaintenanceNext, ScanPreventive, StartJob, CompleteJob, StaffingNext,
                  StartShift, ProductionTick, vars, machineVars, batchVars
    <3>2. QED
      BY <3>1, FlowStutters
  <2>3. QED
    BY <2>1, <2>2 DEF Next
<1>3. QED
  BY <1>1, <1>2, BatchInvHolds, PTL
  DEF Spec, FlowStep, ImplementsBatchFlow, Flow!Spec, Flow!flow
=============================================================================
