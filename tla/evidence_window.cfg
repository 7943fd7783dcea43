CONSTANTS
  None = None
  Machine = {m1, m2}
  MaxBatches = 2
  MaxDeviations = 2
  Required = 2
  Unset = Unset
  Tag <- Tags
  Factor <- Factors
  Productive = {"RUNNING"}
  Running = "RUNNING"
  Idle = "IDLE"
  Down = "FAULT"
  Service = "MAINTENANCE"
  Cadence = 2
  LiveCadence = 1
  Width = 2
  Lookback = 8
  Delay = 2
  StuckFor = 3
  Value = {1, 5}
  Scale = {1, 2}
  Low = 1
  High = 3
  MaxTime = 10
  Busy = 10
  MaxStages = 2
  MaxDropouts = 1
  MaxJobs = 1
SPECIFICATION InvestigationSpec
INVARIANT EvidenceIsComplete
CHECK_DEADLOCK FALSE
