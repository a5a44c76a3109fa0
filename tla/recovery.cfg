SPECIFICATION FairSpec
CONSTANTS
  app = app
  core = core
  alt = alt
  libc = libc
  gcc = gcc
  lily = lily
  r1 = r1
  r2 = r2
  r3 = r3
  Specs <- OneSpec
  Order <- OneOrder
  Deps <- NoDeps
  NoInstall = {}
  Tracking = {}
  Subs <- TwoEach
  Stages <- SomeStages
  Conflicts = {}
  Cores = {}
  Recipes <- TwoRecipes
  SourceOf <- OneVersion
  Trunk = "trunk"
  OptionSets <- Careful
  Missing = Missing
  Damaged = Damaged
  MaxEdits = 1
  MaxWipes = 0
  MaxAborts = 2
PROPERTIES
  Recovers
