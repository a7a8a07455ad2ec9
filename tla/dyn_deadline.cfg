SPECIFICATION Spec
CONSTANTS
  t1 = t1
  t2 = t2
  t3 = t3
  Threads <- Pair
  KSize = 2
  NQueues = 1
  MaxBatch = 3
  Conservative = FALSE
  EmptyOffset = 1024
  ReqSizes <- OneQuery
  MaxReqs = 1
  Timeout <- OneTighter
  NoTimeout = 9
INVARIANTS
  DeadlineKept
