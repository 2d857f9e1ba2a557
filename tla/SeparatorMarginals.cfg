SPECIFICATION FairSpec
CONSTANTS
  r = r
  p = p
  q = q
  x = x
  s = s
  None = None
  Threads = {t1, t2, t3}
  Cliques = {r, p, q, x, s}
  Parent <- Tree
  Operations = {"marginal", "peek", "count", "delete"}
  Exclusive = {"count", "delete"}
  MaxCalls = 1
INVARIANT CacheIsRight
PROPERTY EveryCallEnds
