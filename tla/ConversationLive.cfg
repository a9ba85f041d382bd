SPECIFICATION ConvFairSpec
CONSTANTS
  a1 = a1
  c1 = c1
  m1 = m1
  m2 = m2
  m3 = m3
  m4 = m4
  n1 = n1
  o1 = o1
  o2 = o2
  x1 = x1
  y1 = y1
  Agents = {a1}
  Channels = {c1}
  Tasks = {m1, m2, o1, o2}
  Kind <- KindOf
  Watchdog = Watchdog
  NoLock = NoLock
  NoRecord = NoRecord
  MaxRestart = 2
  MaxWrappers = 4
  MaxCrashes = 1
  Scenarios <- LiveScenarios
PROPERTIES EveryTurnEnds CrashHandled
CHECK_DEADLOCK FALSE
