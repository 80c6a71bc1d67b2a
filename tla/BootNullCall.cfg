CONSTANTS
  Frequencies <- KernelFrequency
  Milliseconds = 10
  KeyTimes <- KeysAround
  MaxKeys = 2
SPECIFICATION Spec
INVARIANT NoCallOfNULL
