SPECIFICATION Spec
CONSTANTS
  t1 = t1
  t2 = t2
  t3 = t3
  Threads <- Pair
  KSize = 2
  NQueues = 1
  MaxBatch = 2
  Conservative = FALSE
  EmptyOffset = 1024
  ReqSizes <- OneQuery
  MaxReqs = 2
  Timeout <- SameTimeout
  NoTimeout = 9
SYMMETRY PairSymmetry
INVARIANTS
  ResultsReady
