CONSTANTS
  e1 = e1
  e2 = e2
  e3 = e3
  Hooks = {e1, e2, e3}
  Detached = {e1, e2}
  Sessions = {s1}
  s1 = s1
  s2 = s2
  MaxCrashes = 1
  MaxLate = 1
  MaxTurns = 1
SPECIFICATION FairSpec
INVARIANTS MarkerTrue HandedOver
PROPERTIES HandoffEnds
CHECK_DEADLOCK FALSE
