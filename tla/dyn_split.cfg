SPECIFICATION Spec
CONSTANTS
  t1 = t1
  t2 = t2
  t3 = t3
  Threads <- Pair
  KSize = 2
  NQueues = 2
  MaxBatch = 3
  Conservative = FALSE
  EmptyOffset = 1024
  ReqSizes <- OneOrTwo
  MaxReqs = 2
  Timeout <- SameTimeout
  NoTimeout = 9
SYMMETRY PairSymmetry
INVARIANTS
  TypeOK
  NoInvalidState
  BufferExclusive
  GatherComplete
  AnswerIsOwn
PROPERTIES
  ClosedStays
