SPECIFICATION LiveSnapshotSpec
CONSTANTS
  a = a
  b = b
  Tests <- MCTests
  Commands <- AllCommands
  Modes <- AllModes
  GitNames <- MCGitNames
  GitAliases <- MCGitAliases
  MaxExpansions = 4
  MaxParts = 4
  HelmLinks <- MCHelmLinks
  HelmSpecial <- MCHelmSpecial
  Checkouts <- MCCheckouts
CHECK_DEADLOCK FALSE
INVARIANT VerdictIsEarned
INVARIANT BudgetIsNeverBlamed
INVARIANT ContainersAreRemoved
INVARIANT CommandFindsCheckout
PROPERTY EveryRunEnds
