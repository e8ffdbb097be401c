SPECIFICATION FairSpec
CONSTANTS
  kMaxTask = 3
  kQuantum = 1
  Catchable = {}
  kSigInt = "SIGINT"
  kSigKill = "SIGKILL"
  Raised = {"SIGKILL"}
  kSigSegv = "SIGSEGV"
  kSigNone = "none"
  ExitCodes = {"code"}
  Interrupted = {}
  Woken = {}
  TickWord = 2
  MaxTicks = 2
  MaxSleep = 1
INVARIANTS
  TypeOK
  RunningIsCurrent
  NoMissedExit
  WaitsForChild
  NotesDistinct
PROPERTY
  DeadStaysDead
  NotesKept
  NoStarvation
