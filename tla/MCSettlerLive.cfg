SPECIFICATION FairSpec
CONSTANTS
  FeeBps = 2500
  NodeShareBps = 0
  Grace = 1
  MaxU64 = 100
  ZeroChain <- MCZeroChain
  Domains = {d1}
  Tariffs = {1}
  Amounts = {4}
  MinReceipts = 2
  MaxReceipts = 2
  MaxLegs = 1
  MaxSeq = 2
  MaxVault = 4
  MaxExits = 1
  MaxFaults = 2
PROPERTIES
  EveryReceiptPublished
CHECK_DEADLOCK FALSE
