SPECIFICATION Spec
CONSTANTS
  Backends = {"sqlite", "postgres"}
  FlushThresholds = {2, 7}
  TelemetryThreshold = 3
  ChunkSize = 3
  Sessions <- EverySession
  Batches = {1}
  Episodes = {1}
  Fuses = {1, 2}
INVARIANTS
  NoRowRefused
  EverythingStored
  LossesDescend
  EvaluationIsConsistent
