SPECIFICATION Spec
CONSTANTS
  GraphSize = 4
  Jobs <- OnlyPairs
  Offset = 97
  Junk <- ZeroPage
INVARIANTS
  Connected
CHECK_DEADLOCK FALSE
