\* As MemoryInit.cfg, but a region above 1M may start at any page.
CONSTANTS
  PageSize = 2
  ByteBits = 2
  WordBits = 4
  OneM = 4
  StackTop = 11
  MaxPages = 21
  StartAlign = 2
SPECIFICATION Spec
INVARIANTS
  BitmapMatchesBios
CHECK_DEADLOCK FALSE
