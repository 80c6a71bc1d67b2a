CONSTANTS
  Length = 10
  BLOCK_SIZE = 2
  WordBytes = 2
  Sizes = {1, 2, 5}
  MaxSize = 5
  Data <- MCData
  DirtyWords <- MCDirty
SPECIFICATION MonotoneSpec
INVARIANTS
  TypeOK
  GivenDisjoint
PROPERTY KeepsPromise
CHECK_DEADLOCK FALSE
