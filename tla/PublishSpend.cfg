SPECIFICATION Spec
CONSTANTS
  Result = r1
  MaxAttempts = 2
  Overlap = FALSE
INVARIANTS
  SpendIsDurable
CHECK_DEADLOCK FALSE
