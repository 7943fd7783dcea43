\* Runs that fast-forward, that go live, and that do one after the other.
SPECIFICATION Spec
CONSTANTS
  Day = 3
  Patterns <- ShiftPatterns
  Starts = {4}
  Horizons = {7}
  Jitters <- Early
  Overtimes = {1}
  State <- ShippedStates
  BucketOf <- ShippedBuckets
  IdleState = "IDLE"
  OfflineState = "OFFLINE"
  RunningState = "RUNNING"
  None = None
  Minute = 1
  Tick = 2
  MaxTime = 8
  MaxMoves = 2
INVARIANTS
  ShiftsOpenOnTime
  NothingInThePast
  AccountsAreExact
  RowsAreOfTheirShift
  HistoryIsContinuous
