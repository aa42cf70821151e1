SPECIFICATION LogSpec
CONSTANTS
  MaxEvents = 3
  MaxBytes = 4
  Sizes = {1, 2, 5}
  MaxEmitted = 6
  MaxTurn = 3
INVARIANTS
  LogInv
  ReplayExact
  RebuildExact
  BoundedExact
  CurrentTurnOnly
  RingBounded
CHECK_DEADLOCK FALSE
