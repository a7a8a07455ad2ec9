SPECIFICATION Spec
CONSTANTS
  w1 = w1
  w2 = w2
  w3 = w3
  Workers <- Pair
  Calls <- Cached
  MaxCalls = 3
  UintRange = 64
  Faults = {"crash", "disk", "cuda"}
SYMMETRY PairSymmetry
INVARIANTS
  TypeOK
  ForcedGraphIsOwn
  ListsAreOwn
CHECK_DEADLOCK FALSE
