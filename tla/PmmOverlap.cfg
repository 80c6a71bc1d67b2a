CONSTANTS
  Length = 16
  BLOCK_SIZE = 2
  WordBytes = 2
  Sizes = {1, 5}
  MaxSize = 5
  Data <- MCData
  DirtyWords <- MCClean
SPECIFICATION MallocSpec
INVARIANTS
  LiveDisjoint
CHECK_DEADLOCK FALSE
