SPECIFICATION Spec
CONSTANTS
  Clients = {b1}
  MaxEvents = 1
  MaxBytes = 9
  QueueCap = 2
  MaxSeq = 2
  MaxGen = 2
  MaxLife = 2
  MaxRoute = 2
  MaxLinkLoss = 2
INVARIANTS
  TypeOK
  InOrderOnce
  CaughtUp
  CompleteUnlessOverlap
CHECK_DEADLOCK FALSE
