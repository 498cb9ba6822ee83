CONSTANTS
  DIV = 4
  MaxAsset = 10
  MaxInner = 9
  MaxTime = 3
  Ids = {i1, i2, i3}
  Amounts = {0, 1, 2, 5}
SPECIFICATION Spec
SYMMETRY ReceiptSymmetry
INVARIANTS
  Solvent
  ReceiptBacked
  Conservation
  OutdatedIffDrained
PROPERTIES
  OthersUnaffected
