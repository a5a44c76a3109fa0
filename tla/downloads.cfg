SPECIFICATION FairSpec
CONSTANTS
  linux = linux
  mingw = mingw
  Runs <- TwoRuns
  Kinds = {"tarball", "branch", "revision", "checkout", "pinned"}
  cache = cache
  origin = origin
  fallback = fallback
  Sites <- AskedSites
  Scheme <- Schemes
  Original = origin
  Balls = {origin}
  Chunks = 2
  Inodes = {1, 2, 3}
  None = None
  Invalid = Invalid
  Partial = Partial
  OptionSets <- Options
  MaxCommits = 1
  MaxFaults = 1
INVARIANTS
  TypeOK
  WholeTarballs
  HonestHeader
  TrackBranches
PROPERTIES
  Settles
