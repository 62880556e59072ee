SPECIFICATION FairFeedSpec
CONSTANTS
  N = 2
  PageSize = 1
  MaxFaults = 1
  s1 = s1
  Snapshots = {s1}
  Older = Older
INVARIANTS
  NoGap
  StaleIsExplained
PROPERTIES
  SettlementsStandAbove
  SettlementsArrive
CHECK_DEADLOCK FALSE
