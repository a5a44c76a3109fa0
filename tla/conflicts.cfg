SPECIFICATION Spec
CONSTANTS
  app = app
  core = core
  alt = alt
  libc = libc
  gcc = gcc
  lily = lily
  r1 = r1
  r2 = r2
  r3 = r3
  Specs <- Toolchain
  Order <- ToolchainOrder
  Deps <- ToolchainDeps
  NoInstall <- LilyOnly
  Tracking <- LilyOnly
  Subs <- ToolchainSubs
  Stages <- FewStages
  Conflicts <- RivalPackages
  Cores <- GccCore
  Recipes <- TwoRecipes
  SourceOf <- TwoVersions
  Trunk = "trunk"
  OptionSets <- Careless
  Missing = Missing
  Damaged = Damaged
  MaxEdits = 1
  MaxWipes = 0
  MaxAborts = 1
INVARIANTS
  DepsPresent
  DoneIsInstalled
  RebuiltOutsideRoot
PROPERTIES
  HonestChecksum
