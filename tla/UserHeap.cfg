SPECIFICATION Spec
CONSTANTS
  kAlign = 2
  kMinBlock = 4
  kPage = 8
  kArenaVA = 8
  kArenaBytes = 32
  Word = 128
  Sizes = {0, 5, 12}
INVARIANT
  Accounted
PROPERTY
  IsAllocator
