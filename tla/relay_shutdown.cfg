SPECIFICATION FairSpec
CONSTANTS
  Sessions = {s1, s2}
  None = None
  IdSpace = 8
  UseTls = TRUE
  MaxSent = 0
  MaxAsked = 1
PROPERTIES
  ShutdownCompletes
  NoStuckSession
