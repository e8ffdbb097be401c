SPECIFICATION Spec
CONSTANTS
  kMaxTask = 3
  kFrames = 12
  kRegions = 2
  Val = {"a", "b"}
  Loaded = "a"
  MaxForks = 2
  Execs = {2}
  Nobody = Nobody
  FailedBy = {"owner"}
  FailedAt = {"open"}
  CopyShared = FALSE
  Orderly = TRUE
INVARIANTS
  Isolated
  GroupCounted
  CpuFollows
PROPERTY
  IsMemory
CHECK_DEADLOCK FALSE
