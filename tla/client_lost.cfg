SPECIFICATION Spec
CONSTANTS
  Parts = {"many"}
  none = none
  c1 = c1
  c2 = c2
  r1 = r1
  r2 = r2
  r3 = r3
  t1 = t1
  t2 = t2
  t3 = t3
  Clients = 2
  IdBound = 3
  Conns = 3
  WatchedFds = {1, 2}
  WakeBound = 1
  Posters = {t1, t2, t3}
INVARIANTS
  NoneLostByAny
CHECK_DEADLOCK FALSE
