SPECIFICATION FairSpec
CONSTANTS
  kMaxTask = 2
  kMaxFd = 2
  kMaxPipe = 2
  kPipeBytes = 1
  MaxLen = 2
  Crowd = 1
INVARIANTS
  TypeOK
  EndsCounted
  NoLostWakeup
PROPERTY
  EofSeen
CHECK_DEADLOCK FALSE
