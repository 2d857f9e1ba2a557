SPECIFICATION BuildSpec
CONSTANTS
  t1 = t1
  t2 = t2
  w1 = w1
  w2 = w2
  caller = caller
  r = r
  p = p
  x = x
  y = y
  z = z
  none = none
  TbbThreads = {t1, t2}
  TbbCaller = t1
  TreeNodes = {1, 2, 3, 4, 5}
  Root = 0
  TaskRuns <- AllTaskRuns
  Forests <- AllForests
  Workers = {w1, w2}
  Caller = caller
  Nodes = {r, p, x, y, z}
  Runs <- AllRuns
  Raised = raised
  None = none
INVARIANTS
  GroupsOutliveTasks
  DataIsAlive
  NothingOutlivesTheCall
  PendingIsExact
  OutcomeIsRight
PROPERTIES
  VisitsInOrder
  VisitSpec
