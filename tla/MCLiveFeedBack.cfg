SPECIFICATION FeedSpec
CONSTANTS
  N = 2
  PageSize = 1
  MaxFaults = 1
  s1 = s1
  Snapshots = {s1}
  Older = Older
PROPERTIES
  SettlementsStand
CHECK_DEADLOCK FALSE
