\* A screen of 5 by 2 characters that does not divide the pixels evenly; tab
\* stops every 4 columns, so a tab can run over the end of a line.
CONSTANTS
  Cpu = {c1, c2}
  XResolution = 11
  YResolution = 7
  XCharSize = 2
  YCharSize = 3
  Tab = 4
  Formats <- MCFormats
  MaxCalls = 2
SPECIFICATION Spec
INVARIANTS
  CursorOnScreen
  BufferIsHolders
PROPERTIES
  GlyphInFrame
  ReadingOrder
CHECK_DEADLOCK FALSE
