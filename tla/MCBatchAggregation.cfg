SPECIFICATION Spec
CONSTANTS
  Account = {a1, a2, a3}
  Worker = {w1, w2}
  Batch = Batch
  None = None
INVARIANTS
  TypeOK
  BatchTellsResults
  DeadlocksAreKnown
PROPERTIES
  SuccessIsFinal
