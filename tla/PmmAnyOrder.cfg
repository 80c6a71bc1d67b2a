CONSTANTS
  Length = 25
  BLOCK_SIZE = 2
  WordBytes = 2
  Sizes = {1, 2, 4, 6, 11}
  MaxSize = 11
  Data <- MCData
  DirtyWords <- MCDirty
SPECIFICATION MallocSpec
INVARIANTS
  HeadersIntact
  FitsBlock
  ZeroHeaderFree
CHECK_DEADLOCK FALSE
