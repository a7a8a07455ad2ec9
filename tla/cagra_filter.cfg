SPECIFICATION Spec
CONSTANTS
  IndexBits = 6
  XorBits <- XorOf
  SmallBits = {2, 3}
  MinBits = 3
  FillNum = 8
  FillDen = 10
  Plans <- OnlyFilters
INVARIANTS
  InvalidLast
CHECK_DEADLOCK FALSE
