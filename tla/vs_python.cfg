SPECIFICATION VecFlowSpec
CONSTANTS
  w1 = w1
  Workers <- One
  Calls <- First
  MaxCalls = 1
  UintRange = 64
  Faults = {"cuda"}
  Python = TRUE
  AlignedRows = TRUE
  Requests <- Single
  MaxSearches = 1
INVARIANTS
  SearchReadsLiveDataset
CHECK_DEADLOCK FALSE
