SPECIFICATION FairSpec
CONSTANTS
  w1 = w1
  w2 = w2
  caller = caller
  r = r
  p = p
  x = x
  y = y
  z = z
  none = none
  Workers = {w1, w2}
  Caller = caller
  Nodes = {r, p, x, y, z}
  Runs <- Concurrent
  Raised = raised
  None = none
PROPERTY NoVisitAboveFailure
