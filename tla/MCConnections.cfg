SPECIFICATION Spec
CONSTANTS
  Session = {s1, s2}
  Callback = {c1}
  Sync = {y1, y2}
  None = None
INVARIANTS
  TypeOK
  SessionOnce
  OutOfUseIsRefused
PROPERTIES
  RefusedEnds
