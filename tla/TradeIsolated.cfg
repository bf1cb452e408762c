SPECIFICATION FairSpec
CONSTANTS
  o1 = o1  o2 = o2  o3 = o3
  s1 = s1
  m1 = m1  m2 = m2
  k1 = k1  k2 = k2  k3 = k3
  Orders = {o2, o3}
  Members = {m1}
  Keys = {k1, k2, k3}
  Skus = {s1}
  Workers = {w1, w2}
  NoOrder = NoOrder
  Request <- MixedRequest
  InitialStock <- MCStock
  InitialPoints = 1
  EarnRate = 1
  ReduceRatio = 1
  Deducts = {0, 1}
  MaxRefunds = 2
  Ops = {"create", "pay", "close", "timeout", "ship", "receive", "refund", "approve", "reject", "verify"}
INVARIANT StockOwned
INVARIANT PointsAccounted
INVARIANT RefundedOnce
PROPERTY TerminalStays
PROPERTY CodesStay
PROPERTY ImplementsReservation
PROPERTY OverdueSettled
CHECK_DEADLOCK FALSE
