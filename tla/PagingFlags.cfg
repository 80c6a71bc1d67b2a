CONSTANTS
  Descriptors <- MCDescriptors
  RSDTs <- MCRSDTs
  MADTs <- MCMADTs
  Entries = 2
  Overrides = 1
  Header = 44
  Names = {"a", "b", "dev"}
  Images <- MCImages
  MaxRead = 4
  BufSize = 2
  location = 100
  Inodes = 2
  Before = 1
  BlockLength = 2
  After = 1
  DataBlocks = 4
  IntBits = 3
  BitmapBits = 5
  Heap = 2
  Data <- MCData
  Indices = {0, 1}
  Pages <- MCPages
  Frames = {33}
  Flags <- MCFlags
  Root = 2
  Boot <- MCBootTables
  Blocks <- MCBlocks
  Headers <- MCHeaders
  ShiftFrames = 32
  Size = 5
  Chars = {0, 1, 200}
  MemsetArgs = {1, 456}
  MaxUint = 1023
  MaxInt = 511
  XSize = 4
SPECIFICATION Spec
INVARIANT FlagsAsDocumented
CHECK_DEADLOCK FALSE
