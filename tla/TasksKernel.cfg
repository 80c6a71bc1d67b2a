CONSTANTS
  Calls = 2
  Depth = 5
SPECIFICATION FairSpec
INVARIANTS
  TypeOK
  ReturnsToCaller
  SuspendedIntact
  NeverReturnsFromOther
PROPERTIES
  SwitchesWhole
  MainComesBack
CHECK_DEADLOCK FALSE
