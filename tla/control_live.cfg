SPECIFICATION FairSpec
CONSTANTS
  MaxLogins = 2
  MaxPresses = 1
  MaxRelayed = 1
  MaxLinks = 2
  MaxReloads = 0
PROPERTIES
  LoginAnswered
  KeyReleased
CHECK_DEADLOCK FALSE
