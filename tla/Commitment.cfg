CONSTANTS
  DIV = 2
  MaxAsset = 6
  MaxInner = 6
  MaxTime = 1
  Who = {w1, w2}
  Reasons = {r1}
  Digests = {d1}
  VARIANT_COUNT = 2
  MaxCommits = 2
  Funds = 2
  Amounts = {1, 3}
  Reserves = {1, 3}
  MaxAdjust = 1
SPECIFICATION Spec
SYMMETRY WhoSymmetry
INVARIANTS
  DigestBooks
  PaidAsQuoted
  ChecksAgree
  ReceiptsHoldShares
