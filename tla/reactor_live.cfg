SPECIFICATION FairSpec
CONSTANTS
  Parts = {"stopping", "instance", "server", "due", "poll", "epoll", "eventfd", "pipe", "answers", "frames", "packets", "sends", "queue", "mutex"}
  none = none
  c1 = c1
  c2 = c2
  r1 = r1
  r2 = r2
  r3 = r3
  t1 = t1
  t2 = t2
  t3 = t3
  Clients = 2
  IdBound = 2
  Conns = 2
  WatchedFds = {1}
  WakeBound = 2
  Posters = {t1, t2}
PROPERTIES
  
  WakesHeard
  BytesArrive
  ThreadsProgress
CHECK_DEADLOCK FALSE
