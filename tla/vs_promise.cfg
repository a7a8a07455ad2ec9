SPECIFICATION VecFlowSpec
CONSTANTS
  w1 = w1
  Workers <- One
  Calls <- Both
  MaxCalls = 2
  UintRange = 64
  Faults = {"cuda"}
  Python = FALSE
  AlignedRows = TRUE
  Requests <- Batches
  MaxSearches = 2
INVARIANTS
  PlacesExclusive
PROPERTIES
  Implements
CHECK_DEADLOCK FALSE
