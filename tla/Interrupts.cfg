\* Two CPUs; a fault without and one with an error code; a key, the timer pin
\* and a masked pin raise edges.
CONSTANTS
  Cpu = {c1, c2}
  Bsp = c1
  Faults = {6, 13}
  Pins = {2, 3}
  MaxTicks = 2
  MaxFaults = 2
SPECIFICATION FairSpec
INVARIANTS
  TypeOK
  OneDrawer
  SelfDeadlockOnlyByFault
  ReturnsThroughOwnFrame
  FaultsRunMasked
  OnlySpuriousIsIgnored
  KeyNotForgotten
PROPERTIES
  InterruptsServed
  LockGivenBack
CHECK_DEADLOCK FALSE
