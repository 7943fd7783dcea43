SPECIFICATION Spec
CONSTANTS
  OfflineBuffer = 2
  QueueSize = 1
  BatchSize = 2
  Chunk = 2
  MaxMessages = 4
  MaxStops = 2
INVARIANTS
  InOrder
  LossesCounted
  OrderlyStop
PROPERTIES
  SimulationNeverStalls
  ShutdownEnds
CHECK_DEADLOCK FALSE
