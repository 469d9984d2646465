SPECIFICATION Spec
CONSTANTS
  MAX_DENTRIES = 4
  MAX_INODES = 4
  MAX_OPEN_FILES = 1
  MAX_CHILDREN = 1
  FS_CAP_BYTES = 2
  Paths <- MCPaths
  NewDirs <- MCNewDirs
  JailPath <- MCJailPath
  Counts = {1}
  MaxBends = 1
PROPERTY
  ResetEmptiesJail
CHECK_DEADLOCK FALSE
