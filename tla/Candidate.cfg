SPECIFICATION Spec
CONSTANTS
  Paths <- MCPaths
  CaseFold <- MCCaseFold
  Reserved <- MCReserved
  Texts <- MCTexts
  Blank = ""
  Tree <- MCTree
  Links <- MCLinks
  Visible <- MCVisible
  Allowed <- MCAllowed
  Searches <- MCSearches
  Replacements <- MCReplacements
  Targets <- MCTargets
  MaxEdits = 3
  MaxDirty = 1
INVARIANTS
  AuthorizationMovesWithText
  UnauthorizedLinesStay
  NewPathsHaveRoom
  PatchIsTheRepair
  AppliedIsTheRepair
  RepairsFitWorkspaces
CHECK_DEADLOCK FALSE
