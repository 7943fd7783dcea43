CONSTANTS
  m1 = m1
  m2 = m2
  m3 = m3
  NoRole = NoRole
  None = None
  NoState = NoRole
  Initial = "DOWN"
  State <- MinimalState
  Transitions <- MinimalTransitions
  Role <- MinimalRole
  First <- MinimalFirst
  Machine <- Two
  Unit = {"U1"}
  UnitOf <- TwoUnitOf
  Duty <- TwoDuty
  Stages = 2
  Serves <- TwoServes
  MaxModes = 1
  MaxRepairWaits = 1
  MaxActive = 1
  MaxBatches = 1
  MaxEpisodes = 1
  MaxPlanned = 1
SPECIFICATION FairSpec
PROPERTIES
  EpisodesEnd
  StagesEnd
  BatchesComplete
