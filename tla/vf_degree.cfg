SPECIFICATION Spec
CONSTANTS
  w1 = w1
  w2 = w2
  w3 = w3
  Workers <- Pair
  Calls <- FewRows
  MaxCalls = 1
  UintRange = 64
  Faults = {}
SYMMETRY PairSymmetry
INVARIANTS
  GraphIsOwn
CHECK_DEADLOCK FALSE
