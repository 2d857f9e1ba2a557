SPECIFICATION FairSpec
CONSTANTS
  r = r
  p = p
  q = q
  x = x
  s = s
  None = None
  Threads = {t1, t2}
  Cliques = {r, p, q, x, s}
  Parent <- Tree
  Operations = {"marginal", "count"}
  Exclusive = {"delete"}
  MaxCalls = 2
PROPERTY EveryCallEnds
CHECK_DEADLOCK FALSE
