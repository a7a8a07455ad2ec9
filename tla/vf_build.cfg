SPECIFICATION Spec
CONSTANTS
  w1 = w1
  w2 = w2
  w3 = w3
  Workers <- Trio
  Calls <- Sound
  MaxCalls = 2
  UintRange = 64
  Faults = {}
SYMMETRY TrioSymmetry
INVARIANTS
  RegionsDisjoint
  EveryRowFiled
  GraphIsOwn
  BuildSucceeds
CHECK_DEADLOCK FALSE
