SPECIFICATION Spec
CONSTANTS
  FeeBps = 2500
  NodeShareBps = 0
  Grace = 1
  MaxU64 = 100
  ZeroChain <- MCZeroChain
  Domains = {d1}
  Tariffs = {1}
  Amounts = {6}
  MinReceipts = 1
  MaxReceipts = 3
  MaxLegs = 1
  MaxSeq = 3
  MaxVault = 6
  MaxExits = 0
  MaxFaults = 1
INVARIANTS
  PayoutsEqualPayments
CHECK_DEADLOCK FALSE
