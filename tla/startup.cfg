\* A sound configuration and every one that differs from it in at most two
\* files; every transition table over four states, every source and target;
\* every graph of three QC parameters and a process parameter.
CONSTANTS
  None = None
  blend = blend
  press = press
  Role <- MCRole
  Emitted = {"tick"}
  QcDriver = {"machine_health"}
  HazardDriver = {"age_years"}
  RcaSignal = {"alarm_count"}
  ActionType = {"inject_failure", "force_state"}
  Placeholder = {"machine_id"}
  Base <- Sound
  Edits <- MCEdits
  N = 4
  Params = 3
  Stage = {blend, press}
  Routes <- MCRoutes
SPECIFICATION StartupSpec
INVARIANTS
  AcceptedConfigurationsBuild
  NothingDangles
  ForcedByTheFirstShortest
  LintAgreesWithTheOrder
  EachTestOnce
PROPERTIES
  InputsAsMeasured
CHECK_DEADLOCK FALSE
