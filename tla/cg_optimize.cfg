SPECIFICATION Spec
CONSTANTS
  GraphSize = 4
  Jobs <- AllJobs
  Offset = 97
  Junk <- SomeWords
INVARIANTS
  TypeOK
  EdgesAgree
  LabelsAreClusters
  ReverseComplete
PROPERTIES
  Finishes
CHECK_DEADLOCK FALSE
