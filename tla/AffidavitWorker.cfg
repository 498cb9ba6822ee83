CONSTANTS
  Key = {k1, k2, k3, k4, k5, k6, k7}
  NoKey = NoKey
  AverageLength = 5
  MaxLength = 6
  AffidavitBegins = 1
  AffidavitEndings = {4, 5}
  ElectionBegins = 3
  FinalityAfter = 2
  FinalityTicks = 2
  MaxFaults = 3
SPECIFICATION Spec
INVARIANT NothingOrphaned
PROPERTY RotationIsAtomic
PROPERTY KeepsRotating
