SPECIFICATION Spec
CONSTANTS
  PAGE = 2
  IMAGE_LO = 32
  IMAGE_HI = 48
  MAX_LOADS = 2
  MAX_IMAGE_PAGES = 3
  ADDR_LIMIT = 128
  N = 4
  PHYS_TOP = 28
  STACK_LO = 58
  STACK_TOP = 62
  MAX_STACK_PAGES = 2
  MAX_IMAGE_PTS = 2
  MAX_STACK_PTS = 1
  Caps <- MCCaps
  Images <- MCImages
  Templates <- MCTemplates
  KernelRoot = 2
  Offers <- MCOffers
  MaxFaults = 1
  MaxTroubles = 2
INVARIANTS
  Conserved
  ReadyMapsPlan
  FailureNamed
  ActiveRootKept
PROPERTIES
  CallsReturn
