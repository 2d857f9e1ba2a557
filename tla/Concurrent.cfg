SPECIFICATION Spec
CONSTANTS
  Requests <- MCRequests
  Loops <- MCLoops
  MaxSteps = 8
CHECK_DEADLOCK FALSE
INVARIANTS
  FactorsAreKept
  FilterSeesAllOnce
  SmootherSeesAllOnce
  SummariesMatch
  SeparatorStays
