SPECIFICATION Spec
CONSTANTS
  Part = {"rotation", "recurring", "history", "campaigns"}
  Account = {1, 2, 3}
  Replica = {s1, s2}
  BatchSize = 2
  MaxChanges = 1
  Pass = {p1, p2}
  FirstDay = 2
  LastDay = 3
  BackfillDays = 2
  ChunkDays = 1
  LookbackDays = 1
  RetentionDays = 3
  Slot = {j1, j2}
  LateSlot = {j1}
  Campaign = {1, 2}
  ChunkSize = 2
  Sweep = {w1, w2}
  MaxRequests = 1
INVARIANTS
  TypeOK
  CoveredIsStored
PROPERTIES
  DisjointSlices
  WorkComesRound
  HistoryArrives
