SPECIFICATION ConvSpec
CONSTANTS
  a1 = a1
  c1 = c1
  m1 = m1
  m2 = m2
  m3 = m3
  m4 = m4
  n1 = n1
  o1 = o1
  o2 = o2
  x1 = x1
  y1 = y1
  Agents = {a1}
  Channels = {c1}
  Tasks = {m1, m2, m3}
  Kind <- KindOf
  Watchdog = Watchdog
  NoLock = NoLock
  NoRecord = NoRecord
  MaxRestart = 1
  MaxWrappers = 5
  MaxCrashes = 0
  Scenarios <- FaultScenarios
INVARIANT Serialized
CHECK_DEADLOCK FALSE
