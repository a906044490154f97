\* Two CPUs; words of 2 bits, so a request can span words; 7 pages, so the
\* last word is partial; one reserved page.
CONSTANTS
  Cpu = {c1, c2}
  WordBits = 2
  BitsSize = 7
  Reserved = {0}
  TotalPages = 7
  MaxRequest = 3
SPECIFICATION FairSpec
INVARIANTS
  TypeOK
  LockProtects
  Conservation
  CountersExact
  ScanKnows
PROPERTIES
  ImplementsPool
  CallEnds
