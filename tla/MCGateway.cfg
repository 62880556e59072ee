SPECIFICATION Spec
CONSTANTS
  FeeBps = 2500
  NodeShareBps = 0
  Grace = 2
  MaxU64 = 100
  ZeroChain <- MCZeroChain
  Handlers = {h1, h2}
  OfferIds = {o1, o2}
  Works = {w1}
  RateChoices = {1}
  Amounts = {3}
  RequestTime = 1
  MaxSeq = 2
  MaxTotal = 4
  MaxVault = 4
  MaxEra = 1
  MaxClock = 2
  Unlicensed = Unlicensed
  NoAccount = NoAccount
SYMMETRY Interchangeable
INVARIANTS
  TypeOK
  RowsChained
  Solvent
  ServedOncePerRow
PROPERTIES
  AcceptedInTime
