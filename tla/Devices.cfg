CONSTANTS
  Devices = {0, 1, 7, 8, 15}
  Configurations <- MCConfigurations
  TestResults <- MCTestResults
  KeyCode <- MCKeyCode
  MaxCodes = 2
  MaxTyped = 6
  FifoSize = 2
  LineBytes = {0, 7, 174}
  MaxLine = 3
  Messages <- MCMessages
  Lengths = {1, 2, 3}
  Room = 4
  MaxCalls = 2
  Buses = 2
  DevicesPerBus = 2
  Functions = 3
  MinGrants = {0, 23, 130, 248}
SPECIFICATION Spec
INVARIANTS
  DevicesTypeOK
  NothingLeftInService
  EnabledIfTested
  PrintedAsTyped
  ReadyMeansNormal
  KeepsOrder
  ScanReadsAll
PROPERTIES
  OnlyEnabledServed
  WritesEnd
CHECK_DEADLOCK FALSE
