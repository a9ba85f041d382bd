SPECIFICATION ThreadsSpec
CONSTANTS
  Callers = {c1, c2}
  Uses = {{"stats", "model"}}
  NoThread = NoThread
  Listed = 3
  MaxThreads = 3
  MaxLooks = 3
INVARIANT OwnThread
CHECK_DEADLOCK FALSE
