\* Three CPUs, so that two of them can race while a third is late or lost.
CONSTANTS
  Cpu = {c1, c2, c3}
  Bsp = c1
  CoresNum = 3
  DelaySuffices = FALSE
SPECIFICATION FairSpec
INVARIANTS
  TypeOK
  NobodyLeavesEarly
  TablesBuiltBeforeLoaded
PROPERTIES
  BarrierStaysOpen
CHECK_DEADLOCK FALSE
