SPECIFICATION FairSpec
CONSTANTS
  Rates <- MCRates
  Requests <- MCRequests
  Attempts <- MCAttempts
  ValidFor = 1
  CacheSpan = 1
  MaxHeight = 4
  MaxFaults = 1
  MaxFailures = 2
INVARIANTS
  ToldTruly
  WatchedTruly
PROPERTIES
  LandsAsAsked
  AskingEnds
CHECK_DEADLOCK FALSE
