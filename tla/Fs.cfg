SPECIFICATION Spec
CONSTANTS
  kBlocks = 4
  kInodes = 3
  kExtents = 2
  kBytes = 2
  kZero = 1
  kSlots = 3
  kMaxFd = 1
  Tops = {"x", "y"}
  Homes = {"x"}
  Subs = {"z"}
  Val = {0, 1}
  MaxSize = 3
  Lens = {1, 3}
  MaxStops = 1
INVARIANTS
  Consistent
  DirsWhole
  NeverRefused
PROPERTY
  IsTree
