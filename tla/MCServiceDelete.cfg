SPECIFICATION Spec
CONSTANTS
  Owners = {"alice", "overlong"}
  LongOwners = {"overlong"}
  CutName = "cut"
  Limits <- MCLimits
  FLOORS <- MCFloors
  CEILINGS <- MCCeilings
  MIB = 2
  U64MAX = 3
  MAX_SESSIONS = 1
  max_sessions = 1
  mem_budget_mib = 3
  MAX_EXECS = 2
  MAX_EVENTS = 3
  MAX_FILES = 2
  Paths = {"a", "b", "c"}
  LongPaths = {"c"}
  Sizes = {1, 3}
  MaxId = 2
  MaxSeq = 5
INVARIANT
  DeleteReplays
CHECK_DEADLOCK FALSE
