SPECIFICATION Spec
CONSTANTS
  o1 = o1  o2 = o2
  s1 = s1  s2 = s2
  Orders = {o1, o2}
  Calls = {c1, c2}
  Skus = {s1, s2}
  Made = {s1}
  SkuOf <- MCSkuOf
  QtyOf <- MCQtyOf
  StartTotal = 2
  Values = {1, 2, 3}
SYMMETRY CallSymmetry
INVARIANT StockOwned
PROPERTY IdentityKept
PROPERTY LogKept
CHECK_DEADLOCK FALSE
