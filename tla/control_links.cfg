SPECIFICATION Spec
CONSTANTS
  MaxLogins = 3
  MaxPresses = 1
  MaxRelayed = 1
  MaxLinks = 2
  MaxReloads = 1
INVARIANTS StatusExact KeysInOrder Bracketed LoginShown
CHECK_DEADLOCK FALSE
