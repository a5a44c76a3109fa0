SPECIFICATION Spec
CONSTANTS
  a = a
  b = b
  usr = usr
  lib = lib
  f = f
  g = g
  h = h
  Packages <- TwoPackages
  Dirs <- Nested
  Files <- NestedFiles
  Links = {}
  Fixups <- Archives
  Above <- NestedAbove
  Target <- NoTargets
  Balls <- FullBalls
  None = None
  MaxBuilds = 1
  MaxKills = 2
INVARIANTS
  TypeOK
  OwnerLists
  KeepsFiles
  NoLitter
  NoEmptyDirs
PROPERTIES
  UnpackedFirst
  SeenAsRegistry
