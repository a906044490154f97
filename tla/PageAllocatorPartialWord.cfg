\* Two CPUs, words of 2 bits and 7 pages: page 6 lies in a partial last word.
CONSTANTS
  Cpu = {c1, c2}
  WordBits = 2
  BitsSize = 7
  Reserved = {0}
  TotalPages = 7
  MaxRequest = 3
SPECIFICATION Spec
PROPERTIES
  FailureMeansNoRun
