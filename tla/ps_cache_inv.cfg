\* The inductive invariant of the proofs, on the instance of ps_runner.
SPECIFICATION Spec
CONSTANTS
  t1 = t1
  t2 = t2
  unfiltered = unfiltered
  filtered = filtered
  Threads <- Two
  Params <- Three
  Asks <- Asked
  Late <- Second
  Hash <- calculate_parameter_hash
  MaxCalls <- Calls
  Fits = FALSE
  InitWaits = FALSE
INVARIANTS
  CacheInv
  RunnerMatches
CHECK_DEADLOCK FALSE
