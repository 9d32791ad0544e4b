SPECIFICATION Spec
CONSTANTS
  Parts = {"vector", "vectors", "string", "garbling", "search", "order", "print", "quads", "groups", "endpoints", "keys", "connect", "sockets", "transfer", "interfaces", "mutex", "lock", "instance", "destroy", "queue", "peek", "pool", "refs"}
  none = none
  l1 = l1
  l2 = l2
  l3 = l3
  m1 = m1
  m2 = m2
  t1 = t1
  t2 = t2
  t3 = t3
  p1 = p1
  p2 = p2
  p3 = p3
  o1 = o1
  o2 = o2
INVARIANTS
  
  
  
  LocksSound

  
  
CHECK_DEADLOCK FALSE
