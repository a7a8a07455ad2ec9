SPECIFICATION FairTimelySpec
CONSTANTS
  t1 = t1
  t2 = t2
  t3 = t3
  Threads <- Pair
  KSize = 2
  NQueues = 1
  MaxBatch = 3
  Conservative = TRUE
  EmptyOffset = 1024
  ReqSizes <- TwoQueries
  MaxReqs = 2
  Timeout <- SameTimeout
  NoTimeout = 9
INVARIANTS
  ResultsReady
  SizeIsOwn
PROPERTIES
  ServiceSpec
