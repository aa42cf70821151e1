SPECIFICATION Spec
CONSTANTS
  s1 = s1
  Schedules = {s1}
  Period = 1
  Lease = 1
  MaxAttempts = 3
  MaxLate = 1
  MaxRuns = 2
  MaxTroubles = 2
INVARIANTS ExecutedOnce DeletedLater
PROPERTY NotLost
CHECK_DEADLOCK FALSE
