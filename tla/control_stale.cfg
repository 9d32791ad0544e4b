SPECIFICATION Spec
CONSTANTS
  MaxLogins = 2
  MaxPresses = 0
  MaxRelayed = 0
  MaxLinks = 2
  MaxReloads = 0
INVARIANTS
  PageShowsStatus
CHECK_DEADLOCK FALSE
