\* Three levels of tables with two entries: eight virtual pages; a page fault
\* stops the CPU.
CONSTANTS
  Fan = 2
  Depth = 3
  Frames = 4
  Places = {2, 3, 4}
  MaxPages = 3
  MaxKept = 1
  MaxCached = 1
  Nx = {FALSE}
  WindowTlb = FALSE
SPECIFICATION FairSpec
INVARIANTS
  TypeOK
  MapsWhatWasAsked
  FramesAccounted
  NoEmptyTable
  FaultOnlyAfterFailure
PROPERTIES
  CallReturns
  ImplementsAddressSpace
CHECK_DEADLOCK FALSE
