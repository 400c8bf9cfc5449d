SPECIFICATION Spec
CONSTANTS
  a1 = a1
  pixel = pixel
  instagram = instagram
  Item <- MCItem
  MaxRetries = 1
  Limit = 2
  MinLimit = 1
  MaxPages = 3
  MaxChanges = 1
  Request = {r1, r2}
  Specification = {v1, v2}
  Ladder = {l1, l2}
  None = none
  Job = {j1, j2}
  MaxVideos = 3
  Account = {a1}
  Scoped = {pixel}
  Instagram = {instagram}
  PageAsset = {}
  No = no
  Sync = {y1, y2}
  Truth <- MCTruth
  MaxRungs = 2
  MaxSpend = 2
  MaxYield = 1
  MaxOps = 1
INVARIANTS
  TypeOK
  CallKeepsItsWord
  LaunchKeepsItsWord
  SameMedia
  LadderClimbs
PROPERTIES
  CallEnds
  InventoryConverges
  BreachStops
