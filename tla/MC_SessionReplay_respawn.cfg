SPECIFICATION Spec
CONSTANTS
  Clients = {b1}
  MaxEvents = 2
  MaxBytes = 9
  QueueCap = 4
  MaxSeq = 2
  MaxGen = 1
  MaxLife = 2
  MaxRoute = 2
  MaxLinkLoss = 0
INVARIANTS
  RespawnRebuilds
CHECK_DEADLOCK FALSE
