SPECIFICATION Spec
CONSTANTS
  PAGE = 2
  MANAGED_TOP = 8
  ADDR_LIMIT = 64
  BootInfos <- MCBootInfos
  MaxInits = 2
INVARIANTS
  PmmTypeOK
  NoAlias
  OwnedNeverHandedOut
  NothingLost
  Accounting
  NeverTooManyPages
CHECK_DEADLOCK FALSE
