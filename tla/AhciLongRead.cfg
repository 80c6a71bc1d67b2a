CONSTANTS
  CmdSlots = 3
  SpinLimit = 2
  Counts = {17}
  MaxCalls = 1
  MaxErrors = 0
SPECIFICATION Spec
INVARIANT SuccessMovedAll
CHECK_DEADLOCK FALSE
