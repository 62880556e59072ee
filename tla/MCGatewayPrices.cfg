SPECIFICATION Spec
CONSTANTS
  FeeBps = 2500
  NodeShareBps = 0
  Grace = 2
  MaxU64 = 100
  ZeroChain <- MCZeroChain
  Handlers = {h1}
  OfferIds = {o1, o2}
  Works = {w1}
  RateChoices = {0, 1}
  Amounts = {2}
  RequestTime = 1
  MaxSeq = 2
  MaxTotal = 4
  MaxVault = 2
  MaxEra = 1
  MaxClock = 2
  Unlicensed = Unlicensed
  NoAccount = NoAccount
SYMMETRY Interchangeable
INVARIANTS
  RowsChained
  Solvent
