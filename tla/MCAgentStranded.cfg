SPECIFICATION Spec
CONSTANTS
  Payments = {}
  Prices = {1}
  MaxDrafts = 2
  MaxAttempts = 2
  MaxPresent = 2
  c1 = c1
  c2 = c2
  Connections = {c1, c2}
  NoJournal = NoJournal
  Unlicensed = Unlicensed
  NoPayment = NoPayment
  NoConnection = NoConnection
INVARIANTS
  DoubtIsResolved
CHECK_DEADLOCK FALSE
