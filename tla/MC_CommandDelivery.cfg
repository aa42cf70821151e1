SPECIFICATION Spec
CONSTANTS
  b1 = b1
  Clients = {b1}
  Serial = {m1, m3}
  Tasks = {m2}
  Safe = {m3}
  Owner <- MCOwner
  OutboxCap = 2
  IdsPerClient = 3
  MaxConns = 3
  MaxLosses = 2
  MaxLives = 2
  MaxFailures = 1
  MaxTroubles = 2
INVARIANTS
  TypeOK
  AtMostOnce
  InOrder
  AckedRan
PROPERTIES
  Acknowledged
CHECK_DEADLOCK FALSE
