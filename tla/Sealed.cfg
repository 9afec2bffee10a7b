SPECIFICATION Spec
CONSTANTS
  p1 = p1
  p2 = p2
  p3 = p3
  Procs <- MCProcs
  Clones <- MCClones
  Found <- MCFound
SYMMETRY Symmetry
INVARIANT TrustedIsSealed
PROPERTY PartialHasCause
CHECK_DEADLOCK FALSE
