SPECIFICATION Spec
CONSTANTS
  kMaxTask = 2
  kQuantum = 1
  Catchable = {}
  kSigInt = "SIGINT"
  kSigKill = "SIGKILL"
  Raised = {}
  kSigSegv = "SIGSEGV"
  kSigNone = "none"
  ExitCodes = {"code"}
  Interrupted = {2}
  Woken = {}
  TickWord = 16
  MaxTicks = 4
  MaxSleep = 2
PROPERTY
  DeadStaysDead
CHECK_DEADLOCK FALSE
