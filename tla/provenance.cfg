SPECIFICATION Spec
CONSTANTS
  app = app
  core = core
  alt = alt
  libc = libc
  gcc = gcc
  lily = lily
  r1 = r1
  r2 = r2
  r3 = r3
  Specs <- OneSpec
  Order <- OneOrder
  Deps <- NoDeps
  NoInstall = {}
  Tracking = {}
  Subs <- TwoEach
  Stages <- SomeStages
  Conflicts = {}
  Cores = {}
  Recipes <- ThreeRecipes
  SourceOf <- Versions
  Trunk = "trunk"
  OptionSets <- Careful
  Missing = Missing
  Damaged = Damaged
  MaxEdits = 2
  MaxWipes = 1
  MaxAborts = 2
INVARIANTS
  TypeOK
  NoTaintedBall
  RebuiltOutsideRoot
  DoneIsCurrent
PROPERTIES
  HonestChecksum
