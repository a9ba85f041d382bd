SPECIFICATION FairSpec
CONSTANTS
  c1 = c1
  NumJobs = 2
  Matches <- MCMatches
  Malformed = {}
  NumSteps = 2
  Conditional = {2}
  Scheduler = Scheduler
  Callers = {c1}
  Nobody = Nobody
  Manual = Manual
  Slow = FALSE
  MaxClock = 1
  MaxManual = 1
  MaxFaults = 1
  MaxCrashes = 1
INVARIANTS TypeOK OncePerSlot RunsExclude SucceededIsComplete
PROPERTIES EverySlotRun PassEnds
CHECK_DEADLOCK FALSE
