SPECIFICATION Spec
CONSTANTS
  t1 = t1
  t2 = t2
  Threads <- Both
  NumWorkers = 2
  WorkerSize = 4
  NumJobs = 2
  Increment = 3
  SoftMax = 1
  ReqSizes <- Sizes
  MaxReqs = 2
  Modes <- OnlyLate
  Initially <- Zero
  Pauses = FALSE
INVARIANTS
  GracefulCleanUp
CHECK_DEADLOCK FALSE
