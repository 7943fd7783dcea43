CONSTANTS
  m1 = m1
  m2 = m2
  m3 = m3
  NoRole = NoRole
  None = None
  NoState = NoRole
  Initial = "OFFLINE"
  State <- ShippedState
  Transitions <- ShippedTransitions
  Role <- ShippedRole
  First <- ShippedFirst
  Machine <- Line
  Unit = {"U1"}
  UnitOf <- LineUnitOf
  Duty <- LineDuty
  Stages = 2
  Serves <- LineServes
  MaxModes = 1
  MaxRepairWaits = 1
  MaxActive = 2
  MaxBatches = 2
  MaxEpisodes = 1
  MaxPlanned = 1
SPECIFICATION Spec
INVARIANTS
  ContinuousHoldsNoBatch
  OneContinuation
  HeldWhileInStage
PROPERTIES
  ContinuousStopsOnlyForRepair
  ImplementsBatchFlow
