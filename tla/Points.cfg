CONSTANTS
  m1 = m1
  k1 = k1
  k2 = k2
  b1 = b1
  b2 = b2
  Members = {m1}
  Workers = {w1, w2}
  Keys = {k1, k2}
  Amounts <- MCAmounts
  OrderPoints <- MCOrderPoints
  Batches = {b1, b2}
  File <- MCFile
  BatchKey <- MCBatchKey
  InitialPoints = 1
  MaxLog = 2
  NoKey = NoKey
  NoBatch = NoBatch
SPECIFICATION FairSpec
INVARIANT AppliedOnce
INVARIANT LogExplains
INVARIANT LastRowTrue
INVARIANT BatchTrue
PROPERTY BatchEnds
CHECK_DEADLOCK FALSE
