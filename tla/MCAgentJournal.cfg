SPECIFICATION Spec
CONSTANTS
  Payments = {1}
  Prices = {1, 2}
  MaxDrafts = 2
  MaxAttempts = 2
  MaxPresent = 2
  c1 = c1
  c2 = c2
  Connections = {c1, c2}
  NoJournal = NoJournal
  Unlicensed = Unlicensed
  NoPayment = NoPayment
  NoConnection = NoConnection
SYMMETRY Swapped
INVARIANTS
  HistoryIsJournaled
  DoubtsShareSeq
  LandedIsAccounted
  RedeemedOnce
CHECK_DEADLOCK FALSE
