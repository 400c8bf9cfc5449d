SPECIFICATION Spec
CONSTANTS
  Result = r1
  MaxAttempts = 3
  Overlap = FALSE
INVARIANTS
  TypeOK
  NoDuplicates
  WholeWhenActive
  WorksPaused
  SuccessIsWhole
  JobClosesResult
PROPERTIES
  ResultEnds
CHECK_DEADLOCK FALSE
