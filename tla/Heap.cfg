SPECIFICATION Spec
CONSTANTS
  kAlign = 2
  kMinBlock = 4
  kPage = 8
  kSizeMax = 63
  Word = 256
  g_start = 2
  g_end = 34
  Sizes = {0, 3, 16, 17}
  MaxPages = 2
INVARIANT
  Tiled
  Coalesced
  LargestFree
PROPERTY
  IsAllocator
