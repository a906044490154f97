\* The TLB keeps translations of the recursive window.
CONSTANTS
  Fan = 2
  Depth = 3
  Frames = 4
  Places = {1, 2, 3, 4}
  MaxPages = 2
  MaxKept = 1
  MaxCached = 1
  Nx = {FALSE}
  WindowTlb = TRUE
SPECIFICATION Spec
INVARIANTS
  MapsWhatWasAsked
CHECK_DEADLOCK FALSE
