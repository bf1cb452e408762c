CONSTANTS
  g1 = g1
  g2 = g2
  g3 = g3
  w1 = w1
  w2 = w2
  Goods = {g1, g2, g3}
  Skus = {1, 2}
  GoodsOf <- MCGoodsOf
  Workers = {w1, w2}
  Limit = 1
  Requests <- MCRequests
  Edits <- MCEdits
  Absent = Absent
  Null = Null
SPECIFICATION Spec
SYMMETRY Symmetry
INVARIANT QuotaBound
INVARIANT SaleAgrees
INVARIANT PricedRight
INVARIANT CodesDistinct
PROPERTY ChannelsApart
CHECK_DEADLOCK FALSE
