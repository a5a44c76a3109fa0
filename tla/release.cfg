SPECIFICATION Spec
CONSTANTS
  prog = prog
  lib = lib
  bin = bin
  so = so
  doc = doc
  docs = docs
  libc = libc
  tex = tex
  v1 = v1
  linux = linux
  mingw = mingw
  Packages <- ProgAndLib
  Main = prog
  Files <- ProgFiles
  Cruft = {docs}
  CLibrary = {libc}
  OldCruft = {}
  OldKept = {tex}
  Matches <- Matched
  RootImage = FALSE
  Ancient = FALSE
  MaxVersion <- TwoVersions
  Needs <- ProgNeeds
  Contents <- ProgContents
  UpstreamOf <- ProgUpstream
  Accepted <- AllAccepted
  Systems = {"linux", "mingw", "darwin"}
  NoFile = NoFile
  Partial = Partial
  NoSum = NoSum
  Platforms = {linux, mingw}
  Platform = linux
  Upstreams = {v1}
  MaxNumber = 1
  MaxBuilds = 1
  MaxKills = 1
  MaxGibs = 2
  MaxUploads = 2
INVARIANTS
  TypeOK
  WholeInstaller
PROPERTIES
  MatchIsCurrent
  PublishedForGood
CHECK_DEADLOCK FALSE
