SPECIFICATION FairSpec
CONSTANTS
  kMaxTask = 2
  kQuantum = 1
  Catchable = {"SIGINT"}
  kSigInt = "SIGINT"
  kSigKill = "SIGKILL"
  Raised = {"SIGINT"}
  kSigSegv = "SIGSEGV"
  kSigNone = "none"
  ExitCodes = {"code"}
  Interrupted = {1}
  Woken = {2}
  TickWord = 2
  MaxTicks = 2
  MaxSleep = 1
INVARIANTS
  NoStaleWake
PROPERTY
  SleeperWakes
