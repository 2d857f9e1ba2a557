SPECIFICATION FairSpec
CONSTANTS
  c1 = c1
  c2 = c2
  t1 = t1
  t2 = t2
  t3 = t3
  Nobody = Nobody
  NumWorkers = 2
  Clients = {c1, c2}
  Tasks = {t1, t2, t3}
  Scripts <- ClientScripts
  MayThrow = {}
  Policy = "task"
  Priority <- Priorities
  SizeT = 8
PROPERTIES ParkedOnlyWhenIdle
