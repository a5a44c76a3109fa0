SPECIFICATION FairSpec
CONSTANTS
  app = app
  lib = lib
  devel = devel
  runtime = runtime
  gcc = gcc
  libtool = libtool
  toollib = toollib
  python32 = python32
  libtool32 = libtool32
  make = make
  patch = patch
  tar = tar
  rsync = rsync
  python = python
  Names <- AllNames
  Recipes <- AnyRecipes
  Arguments <- CommandLines
  Parts <- LibParts
  PartOf <- LibPart
  Class <- ClassOf
  Platform <- PlatformOf
  HostPlatforms = {"tools", "tools32"}
  Narrow = {"mingw", "tools32"}
  OwnDict = {}
  ToolsLibtool = toollib
  LibtoolOf <- Libtools
  ToolOf <- Tools
  Runtimes = {runtime}
  CrossDeps <- CrossNames
  Bootstrap <- MakeOnly
  Kinds <- KindsOf
  Helpers <- HelpersOf
  Extras <- ExtrasOf
  RsyncKinds <- BazaarFirst
INVARIANTS
  TypeOK
  Complete
  Installable
  Settled
  OnlyCyclesAreUnordered
PROPERTIES
  Terminates
CHECK_DEADLOCK FALSE
