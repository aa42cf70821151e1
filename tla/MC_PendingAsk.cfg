SPECIFICATION Spec
CONSTANTS
  a1 = a1
  a2 = a2
  x1 = x1
  x2 = x2
  c1 = c1
  c2 = c2
  Askers = {a1, a2, x1, x2}
  Models = {x1, x2}
  Batches = {a1}
  Pages <- MCPages
  Clients = {c1, c2}
  Target <- MCTarget
  MaxCancels = 1
  MaxStops = 1
  MaxAways = 1
  MaxTurns = 2
  MaxEvents = 3
INVARIANTS OneQuestion StopsAsking SameVerdict ScreenTrue
CHECK_DEADLOCK FALSE
PROPERTIES CallersReturn
