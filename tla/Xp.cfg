CONSTANTS
  Keys = {k1}
  Owners = {o1, o2}
  ReserveReasons = {r1}
  LockReasons = {l1}
  MaxXp = 3
  MaxPulse = 5
  MaxBlock = 2
  Amounts = {0, 1, 2}
  MinPulses = {0, 1, 3}
  InitXps = {1}
  Factors <- SomeFactors
SPECIFICATION Spec
SYMMETRY KeySymmetry
INVARIANTS
  XpBooks
  ScaledOncePerBlock
  EligibilitySuffices
  NeverRevived
  OneOwner
