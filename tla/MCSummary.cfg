SPECIFICATION FairSummarySpec
CONSTANTS
  r1 = r1
  r2 = r2
  w1 = w1
  c1 = c1
  c2 = c2
  Receipts = {r1, r2}
  Works = {w1}
  Consumers = {c1, c2}
  Sale <- MCSale
  Periods = {"short", "long"}
  First = "short"
  Length <- MCLength
  Capacity = 2
  Behind = 0
  OpensAt = 1
  Lag <- MCLag
  MaxFailures = 2
  MaxTime = 2
  MaxTurns = 1
INVARIANTS
  FiguresAgree
PROPERTIES
  NeverOlder
  FiguresArrive
CHECK_DEADLOCK FALSE
