CONSTANTS
  Frequencies <- MCFrequencies
  Milliseconds = 3
  KeyTimes <- KeysWhenReady
  MaxKeys = 2
SPECIFICATION Spec
INVARIANTS
  TypeOK
  NeverBothBlocked
PROPERTIES
  Boots
  KeysAreRead
  TimerServed
