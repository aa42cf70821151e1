SPECIFICATION Spec
CONSTANTS
  Engines = {"claude"}
  Immediate = {m1, m2}
  Queued = {}
  Replacing = {}
  MaxQueue = 2
  MaxEdits = 1
  MaxFollowups = 0
  MaxStops = 0
  MaxOthers = 0
  MaxEvents = 4
INVARIANTS
  EchoNamesPrompt
CHECK_DEADLOCK FALSE
