------------------------------- MODULE MCPlant -------------------------------
(***************************************************************************)
(* Instances of the plant floor for TLC.  The state models are the two the  *)
(* repository ships: config/states.yaml and the five-state model of         *)
(* config/examples/minimal_factory/states.yaml.                             *)
(***************************************************************************)
EXTENDS Plant, TLC

CONSTANTS m1, m2, m3, NoRole

ShippedTransitions ==
  [OFFLINE     |-> {"IDLE", "MAINTENANCE"},
   IDLE        |-> {"STARTING", "CLEANING", "CHANGEOVER", "MAINTENANCE", "OFFLINE"},
   STARTING    |-> {"RUNNING", "FAULT", "IDLE"},
   RUNNING     |-> {"WARNING", "FAULT", "IDLE", "CLEANING", "CHANGEOVER", "MAINTENANCE"},
   WARNING     |-> {"RUNNING", "FAULT", "MAINTENANCE", "IDLE"},
   FAULT       |-> {"MAINTENANCE", "IDLE"},
   MAINTENANCE |-> {"IDLE", "STARTING", "OFFLINE"},
   CLEANING    |-> {"IDLE", "STARTING"},
   CHANGEOVER  |-> {"IDLE", "STARTING"}]
ShippedState == DOMAIN ShippedTransitions
ShippedRole ==
  [productive |-> {"RUNNING", "WARNING"}, downtime |-> {"FAULT", "MAINTENANCE"},
   idle |-> {"IDLE"}, warning |-> {"WARNING"}, fault |-> {"FAULT"},
   maintenance |-> {"MAINTENANCE"}, cleaning |-> {"CLEANING"},
   offline |-> {"OFFLINE"}, starting |-> {"STARTING"},
   planned_stop |-> {"CLEANING", "CHANGEOVER", "OFFLINE"}]
ShippedFirst ==
  [productive |-> "RUNNING", downtime |-> "FAULT", idle |-> "IDLE",
   warning |-> "WARNING", fault |-> "FAULT", maintenance |-> "MAINTENANCE",
   cleaning |-> "CLEANING", offline |-> "OFFLINE", starting |-> "STARTING",
   planned_stop |-> "OFFLINE"]

MinimalTransitions ==
  [DOWN      |-> {"READY", "SERVICE"},
   READY     |-> {"PRODUCING", "SERVICE", "DOWN"},
   PRODUCING |-> {"DEGRADED", "READY", "SERVICE"},
   DEGRADED  |-> {"PRODUCING", "READY", "SERVICE"},
   SERVICE   |-> {"READY", "DOWN"}]
MinimalState == DOMAIN MinimalTransitions
MinimalRole ==
  [productive |-> {"PRODUCING", "DEGRADED"}, downtime |-> {"SERVICE"},
   idle |-> {"READY"}, warning |-> {"DEGRADED"}, fault |-> {"SERVICE"},
   maintenance |-> {"SERVICE"}, cleaning |-> {}, offline |-> {"DOWN"},
   starting |-> {}, planned_stop |-> {"DOWN"}]
MinimalFirst ==
  [productive |-> "PRODUCING", downtime |-> "SERVICE", idle |-> "READY",
   warning |-> "DEGRADED", fault |-> "SERVICE", maintenance |-> "SERVICE",
   cleaning |-> NoRole, offline |-> "DOWN", starting |-> NoRole,
   planned_stop |-> "DOWN"]

(* One production machine alone: everything that can happen to it.          *)
One         == {m1}
OneUnitOf   == [m \in One |-> "U1"]
OneDuty     == [m \in One |-> "batch"]
OneServes   == <<{m1}>>

(* Two machines in a row, the second one also able to do the first stage.   *)
Two       == {m1, m2}
TwoUnitOf == [m \in Two |-> "U1"]
TwoDuty   == [m \in Two |-> "batch"]
TwoServes == <<{m1, m2}, {m2}>>

(* A line: a production machine and its coupled support in one unit, with a *)
(* utility.  The utility carries the first stage's tags too, so that only   *)
(* staffing keeps batches off it.                                           *)
Line       == {m1, m2, m3}
LineUnitOf == [m \in Line |-> "U1"]
LineDuty   == (m1 :> "batch" @@ m2 :> "coupled" @@ m3 :> "continuous")
LineServes == <<{m1, m3}, {m1}>>
=============================================================================
