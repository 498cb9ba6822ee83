CONSTANTS
  DIV = 2
  MaxAsset = 4
  MaxInner = 4
  MaxTime = 1
  Who = {w1, w2}
  Reasons = {r1}
  Digests = {d1, d2}
  VARIANT_COUNT = 1
  MaxCommits = 2
  Funds = 1
  Amounts = {2}
  Reserves = {}
  MaxAdjust = 1
  Indexes = {i1}
  ShareValues = {1}
  MaxShares = 4
  MaxIndexEntries = 2
  Pools = {k1}
  ACCURACY = 2
  Commissions = {1}
SPECIFICATION PoolSpec
SYMMETRY PoolSymmetry
INVARIANTS
  SharesOwned
  PoolInvested
  Books
  PoolQuotes
