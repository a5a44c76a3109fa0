SPECIFICATION FairSpec
CONSTANTS
  Recipes <- AllRecipes
  Names = {"PATH", "GUB_TOOLS_PREFIX"}
  None = None
  Invalid = Invalid
  Unset = Unset
  MaxCommits = 1
  MaxChanges = 2
INVARIANTS
  TypeOK
  MatchIsWork
PROPERTIES
  Settles
