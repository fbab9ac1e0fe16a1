CONSTANTS
  FanOut = 4
  NumDirs = 9
  StaticTables = 3
  BlockSize = 4
  FirstFrame = 6
  MaxAlloc = 3
SPECIFICATION Spec
INVARIANTS
  TablesHaveOneRole
  CallersKeepTheirMemory
  NoStrayTranslation
  FirstPageReached
CHECK_DEADLOCK FALSE
