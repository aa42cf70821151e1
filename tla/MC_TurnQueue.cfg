SPECIFICATION Spec
CONSTANTS
  Engines = {"claude", "codex"}
  Immediate = {m1}
  Queued = {m2}
  Replacing = {m3}
  MaxQueue = 2
  MaxEdits = 1
  MaxFollowups = 1
  MaxStops = 1
  MaxOthers = 1
  MaxEvents = 3
INVARIANTS
  TypeOK
  NobodyStranded
PROPERTIES
  KeepsLedger
  QueueMoves
  Unlocks
CHECK_DEADLOCK FALSE
