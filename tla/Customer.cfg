SPECIFICATION Spec
CONSTANTS
  Workers = {w1, w2}
  Ids = {i1, i2, i3}
  NoId = NoId
  Amounts = {1, 2}
  MaxAddresses = 3
  MaxQuantity = 3
INVARIANT CartCounted
PROPERTY OneDefault
SYMMETRY Symmetry
CHECK_DEADLOCK FALSE
