\* Pages of 2 bytes, bitmap bytes of 2 bits and words of 4: every start of a
\* region above 1M at a word boundary; ends anywhere.  Stacks of 2 pages for
\* up to three cores: enough memory for all of them, and too little, in one
\* region or in two.  Tables of 16 entries, devices behind the memory.
CONSTANTS
  PageSize = 2
  ByteBits = 2
  WordBits = 4
  OneM = 4
  StackTop = 11
  MaxPages = 41
  StartAlign = 8
  MaxCores = 3
  StackPages = 2
  TssStart = 2
  GdtPageEntries = 6
  TssPerPage = 2
  Fan = 16
  FrameBuffer = {64, 65}
  HpetPage = 80
  IoApicPages = {81}
SPECIFICATION BootSpec
INVARIANTS
  TypeOK
  BitmapMatchesBios
  BitmapOwnsItsPages
  CountersMatchBitmap
  StillReachable
  OwnStacks
CHECK_DEADLOCK FALSE
