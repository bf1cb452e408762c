SPECIFICATION Spec
CONSTANTS
  o1 = o1  o2 = o2  o3 = o3
  s1 = s1
  m1 = m1  m2 = m2
  k1 = k1  k2 = k2  k3 = k3
  Orders = {o1}
  Members = {m1}
  Keys = {k1, k2, k3}
  Skus = {s1}
  Workers = {w1, w2}
  NoOrder = NoOrder
  Request <- MixedRequest
  InitialStock <- MCStock
  InitialPoints = 1
  EarnRate = 1
  ReduceRatio = 1
  Deducts = {0, 1}
  MaxRefunds = 2
  Ops = {"create", "pay", "cancel", "stocking", "pickup", "ship", "receive", "refund", "approve", "reject", "verify", "crash"}
SYMMETRY WorkerSymmetry
INVARIANT FulfilledPaid
INVARIANT EarnedOnce
INVARIANT CodesSettled
CHECK_DEADLOCK FALSE
