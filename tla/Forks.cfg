CONSTANTS
  b0 = b0
  b1 = b1
  b2 = b2
  b3 = b3
  c3 = c3
  b4 = b4
  k1 = k1
  k2 = k2
  Block = {b0, b1, b2, b3, c3, b4}
  Genesis = b0
  Parent <- TreeParent
  Number <- TreeNumber
  Keys = {k1, k2}
  MAX_FORKS = 0
  MAX_RECOVER_TRAVERSAL = 3
  NoHead = NoHead
  MaxRunning = 2
  MaxOps = 3
SYMMETRY AnyKey
SPECIFICATION Spec
INVARIANT InsertsInherited
CHECK_DEADLOCK FALSE
