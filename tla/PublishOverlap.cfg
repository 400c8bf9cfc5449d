SPECIFICATION Spec
CONSTANTS
  Result = r1
  MaxAttempts = 2
  Overlap = TRUE
INVARIANTS
  JobClosesResult
CHECK_DEADLOCK FALSE
