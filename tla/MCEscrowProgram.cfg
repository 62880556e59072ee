SPECIFICATION Spec
CONSTANTS
  c1 = c1
  c2 = c2
  ZeroChain = ZeroChain
  NoAccount = NoAccount
  FeeBps = 2500
  NodeShareBps = 0
  Grace = 2
  MaxU64 = 7
  Chains = {c1, c2}
  Vouchers <- MCVouchers
  Roots = {r1}
  Amounts = {0, 2, 3}
  Tariffs = {0, 1, 2, 3}
  RingLen = 2
  Supply = 6
  MaxClock = 3
INVARIANTS
  TypeOK
  NeverBeyondSigned
  FeeWithinTerms
  RingIsRecent
PROPERTIES
  PositionOnlyAdvances
  ExitHonoursGrace
