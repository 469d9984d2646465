SPECIFICATION Spec
CONSTANTS
  Contexts = {c1}
  MAX_PROCESSES = 3
  MAX_THREADS = 2
  MAX_PID = 4
  MAX_CHILDREN = 1
INVARIANTS
  NoSelfWait
CHECK_DEADLOCK FALSE
