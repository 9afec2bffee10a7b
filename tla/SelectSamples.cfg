SPECIFICATION Spec
CONSTANTS
  Python = TRUE
  OwnPaths <- MCOwnPaths
  Repairs <- MCRepairs
  Sampled <- MCSampled
  Budgeted = TRUE
  Faults <- OneFault
  Samples = 3
  Regressions = 1
  Reproduces = TRUE
  MaxFailures = 1
  MaxErrors = 1
CHECK_DEADLOCK FALSE
INVARIANT SelectedIsVerified
PROPERTY RefusalIsFinal
INVARIANT ErrorsCarryNoWeight
INVARIANT WinnerIsUnbeaten
INVARIANT SupportKeepsWinner
