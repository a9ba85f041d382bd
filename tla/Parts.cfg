SPECIFICATION PartsSpec
CONSTANTS
  Providers = {"claude", "codex", "gemini"}
  ChunkSize = 2
  SoftFlush = 1
  ForceFlush = 3
  PieceSizes = {1, 3}
  MaxTokens = 3
  MaxRefusals = 2
  Characters <- MCCharacters
  Lines <- MCLines
  MaxLines = 3
  Limit = 6
  MaxChunks = 8
  Outputs <- MCOutputs
  ReadSize = 3
  BufferLimit = 3
  Callers = {c1, c2}
  Uses = {{"stats"}, {"model"}}
  NoThread = NoThread
  Listed = 2
  MaxThreads = 2
  MaxLooks = 2
  Runners = {"gemini", "claude", "codex", "tool"}
  Helpers = {"quiet", "tied", "lasting"}
  Turns = {t1, t2}
  Runs = {r1, r2}
  LineLimit = 2
  MaxRemovals = 1
  Pickers = {h1, h2}
  MenuAgents = {a1}
  Scopes = {s1, s2}
  MaxTickets = 2
  MaxRestarts = 1
  Tasks = {k1, k2}
  Personas = {p1, p2}
  MaxCrashes = 1
  Expressions <- MCExpressions
  Zones <- MCZones
  MinutesPerHour = 3
  HoursPerDay = 3
  DaysPerMonth = 2
  MaxMinute = 40
INVARIANTS
  PartsTypeOK
  AnswerShown ReadInOrder NothingLost FailureShown OneProcess
  NothingCutOut PlainFits
  RecordsWhole
  OwnThread ThreadKept
  EntriesKept
  TicketOnce
  WorkspaceOwned
  OncePerMinute
PROPERTIES
  EveryMessageEnds
  OthersReturn
  FilesSplit RunsKept
CHECK_DEADLOCK FALSE
