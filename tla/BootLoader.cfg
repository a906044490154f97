\* Three CPUs; a file of up to three of the clusters 4, 5, 7 in any order, on a
\* disk with two clusters of two sectors for the root directory and a FAT whose
\* entries for these clusters lie in two sectors.  Up to three entries of the
\* memory map, of which two fit.
CONSTANTS
  CoresNum = 3
  SecPerClus = 2
  FatStart = 3
  FatSecs = 6
  FatEntries = 5
  RootSecNum = 14
  RootSecs = 4
  FileClusters = {4, 5, 7}
  MaxClusters = 3
  E820Room = 2
  MaxE820 = 3
SPECIFICATION Spec
INVARIANTS
  LoadedWhole
  MapHandedOver
  BootStacksApart
CHECK_DEADLOCK FALSE
