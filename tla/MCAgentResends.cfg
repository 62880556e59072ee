SPECIFICATION Spec
CONSTANTS
  Payments = {1}
  Prices = {1}
  MaxDrafts = 0
  MaxAttempts = 2
  MaxPresent = 2
  c1 = c1
  c2 = c2
  Connections = {c1, c2}
  NoJournal = NoJournal
  Unlicensed = Unlicensed
  NoPayment = NoPayment
  NoConnection = NoConnection
INVARIANTS
  SendingAgainIsHarmless
CHECK_DEADLOCK FALSE
