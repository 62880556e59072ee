SPECIFICATION Spec
CONSTANTS
  h1 = h1
  h2 = h2
  s1 = s1
  p1 = p1
  p2 = p2
  c1 = c1
  c2 = c2
  r1 = r1
  r2 = r2
  Hosts = {h1, h2}
  Sources = {s1}
  HostOf <- MCHostOf
  Publishers = {p1, p2}
  Operator = Operator
  Rates = {1}
  Contents = {c1}
  NoRate = NoRate
  Corpus <- MCCorpus
  Readers = {r1, r2}
  MaxChanges = 3
  MaxRuns = 2
SYMMETRY Interchangeable
INVARIANTS
  TermsAreTheHosts
  MirrorKeepsUp
  SeededUnderOwner
CHECK_DEADLOCK FALSE
