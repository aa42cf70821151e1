CONSTANTS
  p1 = p1
  p2 = p2
  k1 = k1
  Procs = {p1, p2}
  Hosts = {p1}
  Cmds = {k1}
  Turns = 2
  Cap = 1
  MaxCrashes = 1
  MaxFaults = 1
  MaxLost = 1
  MaxStuck = 1
  MaxFailures = 2
SPECIFICATION FairSpec
INVARIANTS MutatesInOrder Truthful Aligned
PROPERTIES Answered
CHECK_DEADLOCK FALSE
