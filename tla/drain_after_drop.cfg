SPECIFICATION Spec
CONSTANTS
  OfflineBuffer = 2
  QueueSize = 1
  BatchSize = 1
  Chunk = 1
  MaxMessages = 3
  MaxStops = 1
INVARIANT DrainWaitsForWork
CHECK_DEADLOCK FALSE
