SPECIFICATION Spec
CONSTANTS
  w1 = w1
  w2 = w2
  w3 = w3
  Workers <- Pair
  Calls <- Again
  MaxCalls = 2
  UintRange = 64
  Faults = {"disk"}
SYMMETRY PairSymmetry
INVARIANTS
  GraphIsOwn
CHECK_DEADLOCK FALSE
