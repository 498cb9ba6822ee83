CONSTANTS
  a1 = a1
  a2 = a2
  k1 = k1
  k2 = k2
  Author = {a1, a2}
  Keys = {k1, k2}
  Weights = {1, 2}
  SessionLength = 3
  Whole = 3
  AffidavitBeginsAt = 1
  AffidavitEndsAt = 2
  ElectionBeginsAt = 0
  MinElected = 1
  MaxElected = 1
  ElectionRunnerPoints = 2
  Payout = 4
  Fixed = 100
  MaxBlock = 6
SPECIFICATION Spec
SYMMETRY AnyAuthorAnyKey
INVARIANTS
  ElectionCurrent
  ElectedKeepsKey
  SettledInFull
CHECK_DEADLOCK FALSE
