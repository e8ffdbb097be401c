SPECIFICATION FairSpec
CONSTANTS
  kMaxTask = 3
  kMaxPipe = 2
  kPipeBytes = 1
  kMaxFd = 8
  kMaxStage = 3
  kMaxFg = 3
  MaxOut = 2
  Backgrounds = {TRUE, FALSE}
  Faults = {"in", "out", "which", "int"}
INVARIANTS
  CleanPrompt
  CtrlCReaches
  StatusKept
CHECK_DEADLOCK FALSE
PROPERTY
  PromptReturns
