CONSTANTS
  DIV = 2
  MaxAsset = 6
  MaxInner = 6
  MaxTime = 1
  Who = {w1, w2}
  Reasons = {r1}
  Digests = {d1, d2}
  VARIANT_COUNT = 1
  MaxCommits = 2
  Funds = 2
  Amounts = {2}
  Reserves = {}
  MaxAdjust = 1
  Indexes = {i1, i2}
  ShareValues = {1, 2}
  MaxShares = 4
  MaxIndexEntries = 2
SPECIFICATION IndexSpec
SYMMETRY IndexSymmetry
INVARIANT SkippedEntryWithdraws
