CONSTANTS
  CmdSlots = 3
  SpinLimit = 2
  Counts = {1}
  MaxCalls = 2
  MaxErrors = 1
SPECIFICATION Spec
PROPERTY CallsReturn
CHECK_DEADLOCK FALSE
