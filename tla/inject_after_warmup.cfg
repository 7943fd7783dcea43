SPECIFICATION Spec
CONSTANTS
  Backends = {"sqlite", "postgres"}
  FlushThresholds = {2, 7}
  TelemetryThreshold = 3
  ChunkSize = 3
  Sessions <- TwoRuns
  Batches = {1}
  Episodes = {1}
  Fuses = {1, 2}
INVARIANTS
  TicksKeepRunning
