SPECIFICATION Spec
CONSTANTS
  kMaxTask = 2
  kFrames = 11
  kRegions = 2
  Val = {"a", "b"}
  Loaded = "a"
  MaxForks = 2
  Execs = {2}
  Nobody = Nobody
  FailedBy = {"sharer"}
  FailedAt = {"open"}
  CopyShared = FALSE
  Orderly = TRUE
INVARIANTS
  Isolated
CHECK_DEADLOCK FALSE
