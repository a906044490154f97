\* The attributes of data pages: PAGE_NX is set.
CONSTANTS
  Fan = 2
  Depth = 3
  Frames = 4
  Places = {1, 2, 3, 4}
  MaxPages = 2
  MaxKept = 1
  MaxCached = 1
  Nx = {TRUE}
  WindowTlb = FALSE
SPECIFICATION Spec
INVARIANTS
  FramesAccounted
CHECK_DEADLOCK FALSE
