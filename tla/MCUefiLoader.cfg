SPECIFICATION Spec
CONSTANTS
  PAGE = 2
  MANAGED_TOP = 16
  ADDR_LIMIT = 64
  BootInfos = {}
  MAX_PIECES = 9
  Pages = 8
  MAP_TOP = 12
  KERNEL_BASE = 2
  KernelPages = 1
  initrd_len = 1
  Placements <- MCPlacements
  StartTypes <- MCStart
  Churn = {"conventional", "runtime"}
  EBS_RETRIES = 3
  MAP_GROWTHS = 1
  MAP_HEADROOM_DESCS = 1
  MAX_FIRMWARE_DESCS = 7
  MAX_RANGES = 7
  RangeStorage = 7
INVARIANTS
  HandoffIsCurrent
PROPERTIES
  OnlyLegalCalls
  BootEnds
CHECK_DEADLOCK FALSE
