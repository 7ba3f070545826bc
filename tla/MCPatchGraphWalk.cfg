SPECIFICATION Spec
INVARIANTS
  ClosureIsExact
  SortIsCanonical
PROPERTY WalkTerminates
CHECK_DEADLOCK FALSE
