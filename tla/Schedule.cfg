SPECIFICATION ReportedSpec
CONSTANTS
  unnamed = unnamed
  Unnamed = unnamed
  Tests <- MCTests
  Inventory = 2
  Declares <- SuiteThenPlain
  Names <- SharedNames
  HasOthers = FALSE
  Maskable <- MCMaskable
  Roots <- MCRoots
  Suites <- MCSuites
CHECK_DEADLOCK FALSE
INVARIANT FailuresAreRegressions
INVARIANT CountsRestOnEntries
