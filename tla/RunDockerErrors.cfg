SPECIFICATION Spec
CONSTANTS
  a = a
  b = b
  Tests <- OneTest
  Commands <- OnlyProven
  Modes <- AllModes
CHECK_DEADLOCK FALSE
INVARIANT DockerErrorsAreNoVerdict
