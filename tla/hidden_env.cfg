SPECIFICATION Spec
CONSTANTS
  Recipes <- OneRecipe
  Names = {"HOME"}
  None = None
  Invalid = Invalid
  Unset = Unset
  MaxCommits = 0
  MaxChanges = 1
INVARIANTS
  EnvironmentIsSeen
CHECK_DEADLOCK FALSE
