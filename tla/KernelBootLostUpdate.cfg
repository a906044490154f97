\* Every start-up IPI arrives; two CPUs suffice to lose an increment.
CONSTANTS
  Cpu = {c1, c2}
  Bsp = c1
  CoresNum = 2
  DelaySuffices = TRUE
SPECIFICATION FairSpec
PROPERTIES
  EveryCpuComesUp
CHECK_DEADLOCK FALSE
