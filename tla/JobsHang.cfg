SPECIFICATION Spec
CONSTANTS
  c1 = c1
  NumJobs = 2
  Matches <- MCMatches
  Malformed = {2}
  NumSteps = 2
  Conditional = {2}
  Scheduler = Scheduler
  Callers = {c1}
  Nobody = Nobody
  Manual = Manual
  Slow = TRUE
  MaxClock = 1
  MaxManual = 0
  MaxFaults = 0
  MaxCrashes = 0
INVARIANT NeverHangs
CHECK_DEADLOCK FALSE
