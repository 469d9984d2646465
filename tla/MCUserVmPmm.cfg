SPECIFICATION AdapterSpec
CONSTANTS
  PAGE = 2
  MANAGED_TOP = 8
  ADDR_LIMIT = 64
  BootInfos <- MCBootInfos
  MaxInits = 1
  Adapters = {a1, a2}
  OwnedLen = 2
  Direct = direct
  Nobody = nobody
INVARIANTS
  ExclusiveOwners
  DefencesNeverFire
PROPERTIES
  RefinesOwnership
