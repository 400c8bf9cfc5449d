SPECIFICATION Spec
CONSTANTS
  j1 = j1
  j2 = j2
  w1 = w1
  w2 = w2
  None = None
  Job <- MCJob
  Worker <- MCWorker
  Priority <- MCPriority
  StartDelay <- MCStartDelay
  Stalling <- MCStalling
  MaxAttempts = 2
  Lease = 4
  MaxLag = 1
  RetryBase = 1
  RetryMax = 1
INVARIANTS
  TypeOK
  LeaseExclusive
  CloseFenced
  HeartbeatKeepsLease
PROPERTIES
  LifecycleSpec
  EveryJobEnds
