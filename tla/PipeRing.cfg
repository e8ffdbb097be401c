SPECIFICATION RingSpec
CONSTANTS
  Bytes = {"a", "b"}
  NoByte = "zero"
  kPipeBytes = 3
  MaxLen = 4
INVARIANT
  RingOK
PROPERTY
  IsFifo
