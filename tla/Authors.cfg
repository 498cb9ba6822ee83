CONSTANTS
  Author = {a1, a2}
  Judged = {a1}
  Backers = {b1,b2}
  Indexes = {i1}
  Perbill = 4
  MaxAsset = 2
  Amounts = {1}
  Rewards = {1}
  Factors = {2}
  Configs <- TwoConfigs
  MaxBlock = 3
  MaxPending = 2
  MaxRisk = 3
SPECIFICATION Spec
SYMMETRY BackerSymmetry

INVARIANTS
  PendingVisible
  NoEscape
  FundersListed
PROPERTIES
  DueApplied
CHECK_DEADLOCK FALSE
