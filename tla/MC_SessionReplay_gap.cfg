SPECIFICATION Spec
CONSTANTS
  Clients = {b1}
  MaxEvents = 3
  MaxBytes = 9
  QueueCap = 4
  MaxSeq = 3
  MaxGen = 1
  MaxLife = 1
  MaxRoute = 2
  MaxLinkLoss = 0
INVARIANTS
  NothingLost
CHECK_DEADLOCK FALSE
