SPECIFICATION Spec
CONSTANTS
  Python = FALSE
  OwnPaths <- MCOwnPaths
  Repairs <- MCPlainRepairs
  Sampled <- MCSampled
  Budgeted = TRUE
  Faults <- OneFault
  Samples = 2
  Regressions = 1
  Reproduces = TRUE
  MaxFailures = 1
  MaxErrors = 2
CHECK_DEADLOCK FALSE
INVARIANT SampleNeverEndsRun
