SPECIFICATION Spec
CONSTANTS
  Result = r1
  MaxAttempts = 2
  Overlap = FALSE
INVARIANTS
  SpendIsStoppable
CHECK_DEADLOCK FALSE
