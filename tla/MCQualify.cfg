SPECIFICATION Spec
CONSTANTS
  Boots <- MCBoots
  Loader <- MCLoader
  Kernel <- MCKernel
  Initramfs <- MCInitramfs
  MAX_IMAGE = 160000
  MIN_CLUSTERS = 10
  MAX_CLUSTERS = 300
  MAX_DEPTH = 2
  MAX_PATHS = 8
INVARIANTS
  PassIsEarned
  BindingExact
  NegativeIsReal
  NoContainerForgotten
  TrueRunAccepted
