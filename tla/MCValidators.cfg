SPECIFICATION Spec
CHECK_DEADLOCK FALSE
CONSTANTS
  PAGE = 2
  IMAGE_LO = 8
  IMAGE_HI = 32
  MAX_LOADS = 2
  MAX_IMAGE_PAGES = 4
  ADDR_LIMIT = 64
  Images <- MCImages
  PTES = 4
  MAX_IMAGE_PTS = 2
  MAX_STRING_BYTES = 4
  MAX_PATH_BYTES = 5
  MAX_ID_BYTES = 3
  MAX_ARGV = 2
  MAX_ENV = 2
  U64_MAX = 255
  MAX_DIGITS = 3
  DIGEST_HEX = 2
  Lanes <- MCLanes
INVARIANTS
  PlanFitsTables
  PagesHoldFile
  SemanticsExact
  LaneHonest
