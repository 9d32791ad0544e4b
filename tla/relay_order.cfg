SPECIFICATION Spec
CONSTANTS
  Sessions = {s1, s2, s3}
  None = None
  IdSpace = 8
  UseTls = FALSE
  MaxSent = 0
  MaxAsked = 1
INVARIANTS RegistryExact PushesInOrder RelayOutcome
PROPERTIES ImplementsPushLog
