------------------------------ MODULE MCTimeline ------------------------------
(***************************************************************************)
(* Instances of the timeline for TLC: days of three units, and the shift     *)
(* patterns a pattern file could hold: two shifts that tile the day, one of *)
(* twenty-four hours, two with gaps between them, and two that overlap.     *)
(***************************************************************************)
EXTENDS Timeline

Shift(s, e, b) == [start |-> s, end |-> e, breaks |-> b]

ShiftPatterns ==
  { << Shift(0, 2, {1}), Shift(2, 0, {}) >>,
    << Shift(1, 1, {0}) >>,
    << Shift(2, 0, {}), Shift(0, 1, {}) >>,
    << Shift(0, 2, {}), Shift(1, 0, {2}) >> }

\* The roles of config/states.yaml, for four of its states.
ShippedBuckets ==
  [IDLE |-> "idle", RUNNING |-> "runtime", MAINTENANCE |-> "downtime",
   OFFLINE |-> "planned_stop"]
ShippedStates == DOMAIN ShippedBuckets
Early == {-1}
=============================================================================
