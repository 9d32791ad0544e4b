SPECIFICATION FairSpec
CONSTANTS
  Parts = {"single", "bridge", "calm", "hasty", "open", "life", "badfd", "inline"}
  none = none
  c1 = c1
INVARIANTS
  ConnectionsKept
  
  
PROPERTIES
  
  ServiceEnds
CHECK_DEADLOCK FALSE
