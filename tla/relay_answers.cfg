SPECIFICATION Spec
CONSTANTS
  Sessions = {s1, s2}
  None = None
  IdSpace = 2
  UseTls = TRUE
  MaxSent = 1
  MaxAsked = 2
INVARIANTS AnswersMatch SessionsLeave
