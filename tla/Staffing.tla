------------------------------- MODULE Staffing -------------------------------
(***************************************************************************)
(* ShiftManager's assignment of operators at a shift start, and             *)
(* DutyManager's production tick, which keeps the machines that batches do  *)
(* not drive (continuous utilities, coupled line support) running or idle.  *)
(*                                                                          *)
(* Not represented: who the operators are, attendance and breaks, OEE.      *)
(***************************************************************************)
EXTENDS Floor

(* A model with no offline state parks unstaffed machines in idle.          *)
Parked == IF Has("offline") THEN First["offline"] ELSE First["idle"]

(* Mutants: a utility's duty does not keep it powered; utilities are given  *)
(* operators.                                                               *)
LosesOperatorOnDuty(m, staffed)   == UnitOf[m] \notin staffed /\ currentBatch[m] = None
GetsOperatorAnyDuty(m, staffed)   == UnitOf[m] \in staffed

(* _assign_machines in a unit where nobody came: machines in the middle of  *)
(* a batch and continuous utilities are left alone, the others lose their   *)
(* operator and are parked.                                                 *)
LosesOperator(m, staffed) ==
  UnitOf[m] \notin staffed /\ currentBatch[m] = None /\ Duty[m] # "continuous"

(* In a staffed unit every machine but the utilities gets an operator, and  *)
(* a parked one is brought back to idle.                                    *)
GetsOperator(m, staffed) == UnitOf[m] \in staffed /\ Duty[m] # "continuous"
IsParked(m) == IsOffline(state[m]) \/ state[m] = Parked

StartShift(staffed) ==
  /\ control = Loop
  /\ manned' = [m \in Machine |->
                  IF LosesOperator(m, staffed) THEN FALSE
                  ELSE GetsOperator(m, staffed) \/ manned[m]]
  /\ state' = [m \in Machine |->
                 IF LosesOperator(m, staffed) THEN ForceRoute(state[m], Parked)
                 ELSE IF GetsOperator(m, staffed) /\ IsParked(m)
                      THEN ForceRoute(state[m], First["idle"])
                      ELSE state[m]]
  /\ UNCHANGED <<currentBatch, pending, episodeVars, jobVars, batchVars, agenda, control>>

(* DutyManager._available                                                   *)
Available(m) ==
  /\ ~pending[m]
  /\ IsOffline(state[m]) \/ ~(\/ IsDowntime(state[m])
                              \/ IsPlannedStop(state[m])
                              \/ IsStarting(state[m]))

(* A line is active when a batch machine of the unit is making product.     *)
LineActive(u) == \E m \in Machine : /\ UnitOf[m] = u
                                    /\ Duty[m] = "batch"
                                    /\ currentBatch[m] # None
                                    /\ IsProductive(state[m])

WantsProduction(m) == Duty[m] = "continuous" \/ LineActive(UnitOf[m])

AfterDuty(m) ==
  IF Duty[m] = "batch" \/ IsProductive(state[m]) = WantsProduction(m) THEN state[m]
  ELSE IF ~WantsProduction(m) THEN ForceRoute(state[m], First["idle"])
  ELSE IF Available(m) THEN ForceRoute(state[m], First["productive"])
  ELSE state[m]

(* Simulator._production_tick: the duty pass over the plant, then replenish. *)
ProductionTick ==
  /\ control = Loop
  /\ state' = [m \in Machine |-> AfterDuty(m)]
  /\ control' = Replenish
  /\ UNCHANGED <<currentBatch, pending, manned, episodeVars, jobVars, batchVars, agenda>>

StaffingNext ==
  \/ \E staffed \in SUBSET Unit : StartShift(staffed)
  \/ ProductionTick
=============================================================================
