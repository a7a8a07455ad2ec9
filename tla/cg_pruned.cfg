SPECIFICATION Spec
CONSTANTS
  GraphSize = 4
  Jobs <- OnlyPlain
  Offset = 97
  Junk <- ZeroPage
INVARIANTS
  OnlyOwnEdges
CHECK_DEADLOCK FALSE
