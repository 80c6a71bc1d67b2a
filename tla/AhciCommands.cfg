CONSTANTS
  CmdSlots = 3
  SpinLimit = 2
  Counts = {1, 15, 16, 17, 128}
  MaxCalls = 3
  MaxErrors = 2
SPECIFICATION Spec
INVARIANTS
  TypeOK
  ReportsItsOwn
  IssuesWhole
PROPERTY RecoveredCallsReturn
CHECK_DEADLOCK FALSE
