SPECIFICATION Spec
CONSTANTS
  Result = r1
  MaxAttempts = 3
  Ads <- MCAds
INVARIANTS
  TypeOK
  NoDuplicates
  WholeWhenActive
  WorksPaused
  SuccessIsWhole
PROPERTIES
  ResultEnds
CHECK_DEADLOCK FALSE
