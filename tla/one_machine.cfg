CONSTANTS
  m1 = m1
  m2 = m2
  m3 = m3
  NoRole = NoRole
  None = None
  NoState = NoRole
  Initial = "OFFLINE"
  State <- ShippedState
  Transitions <- ShippedTransitions
  Role <- ShippedRole
  First <- ShippedFirst
  Machine <- One
  Unit = {"U1"}
  UnitOf <- OneUnitOf
  Duty <- OneDuty
  Stages = 1
  Serves <- OneServes
  MaxModes = 2
  MaxRepairWaits = 1
  MaxActive = 1
  MaxBatches = 2
  MaxEpisodes = 2
  MaxPlanned = 1
SPECIFICATION Spec
INVARIANTS
  TypeOK
  UnrepairedFaultStopsProduction
  FaultHasOneRepair
  NoMachineStranded
PROPERTIES
  ImplementsRepairCycle
