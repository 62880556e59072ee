SPECIFICATION Spec
CONSTANTS
  FeeBps = 2500
  NodeShareBps = 0
  Grace = 1
  MaxU64 = 100
  ZeroChain <- MCZeroChain
  Domains = {d1, d2}
  Tariffs = {1}
  Amounts = {6}
  MinReceipts = 2
  MaxReceipts = 2
  MaxLegs = 2
  MaxSeq = 3
  MaxVault = 6
  MaxExits = 1
  MaxFaults = 2
SYMMETRY Interchangeable
INVARIANTS
  TypeOK
  PayoutsEqualPayments
  BatchesAreAnchored
  Recoverable
  PublishedIsVerifiable
PROPERTIES
  ImplementsLedger
CHECK_DEADLOCK FALSE
