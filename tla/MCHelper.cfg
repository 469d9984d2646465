SPECIFICATION Spec
CONSTANTS
  Callers = {c1, c2, c3}
  None = None
  MaxCalls = 4
  MaxAborts = 1
INVARIANTS
  NoForgottenHelper
  RepliesReachWaiters
PROPERTIES
  CloseIsHonest
  CallsReturn
CHECK_DEADLOCK FALSE
