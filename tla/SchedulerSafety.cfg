SPECIFICATION Spec
CONSTANTS
  c1 = c1
  c2 = c2
  t1 = t1
  t2 = t2
  t3 = t3
  Nobody = Nobody
  NumWorkers = 3
  Clients = {c1}
  Tasks = {t1, t2, t3}
  Scripts <- AllScripts
  MayThrow = {t1}
  Policy = "task"
  Priority <- Priorities
  SizeT = 8
INVARIANTS TypeOK ExactlyOnce CountersExact WorkIsAnnounced NothingLeftBehind
