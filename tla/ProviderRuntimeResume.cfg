SPECIFICATION Spec
CONSTANTS
  a1 = a1
  a2 = a2
  c1 = c1
  c2 = c2
  t1 = t1
  t2 = t2
  t3 = t3
  Agents = {a1}
  Channels = {c1}
  Tasks = {t1, t2}
  Kind <- TwoMessages
  Watchdog = Watchdog
  NoLock = NoLock
  NoRecord = NoRecord
  MaxRestart = 1
  MaxWrappers = 3
  MaxCrashes = 1
PROPERTY RestartFindsRecord
CHECK_DEADLOCK FALSE
