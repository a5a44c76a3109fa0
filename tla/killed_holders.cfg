SPECIFICATION FairSpec
CONSTANTS
  p1 = p1
  p2 = p2
  p3 = p3
  i1 = i1
  i2 = i2
  i3 = i3
  i4 = i4
  NoFile = NoFile
  Processes <- ThreeProcesses
  Inodes <- FourInodes
  MaxDeaths = 2
INVARIANTS
  TypeOK
  ExclusiveUntilReleased
PROPERTIES
  Obtainable
