SPECIFICATION Spec
CONSTANTS
  Request = {r1}
  Specification = {v1}
  Ladder = {l1}
  None = none
INVARIANTS
  LadderWithBatch
