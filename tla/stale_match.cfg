SPECIFICATION Spec
CONSTANTS
  app = app
  core = core
  alt = alt
  libc = libc
  gcc = gcc
  lily = lily
  r1 = r1
  r2 = r2
  r3 = r3
  Specs <- OneSpec
  Order <- OneOrder
  Deps <- NoDeps
  NoInstall = {}
  Tracking = {}
  Subs <- TwoEach
  Stages <- SomeStages
  Conflicts = {}
  Cores = {}
  Recipes <- TwoRecipes
  SourceOf <- OneVersion
  Trunk = "trunk"
  OptionSets <- PlainFresh
  Missing = Missing
  Damaged = Damaged
  MaxEdits = 2
  MaxWipes = 0
  MaxAborts = 1
PROPERTIES
  MatchIsSame
