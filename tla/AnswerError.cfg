SPECIFICATION AnswerSpec
CONSTANTS
  Providers = {"codex"}
  ChunkSize = 2
  SoftFlush = 1
  ForceFlush = 3
  PieceSizes = {1, 3}
  MaxTokens = 4
  MaxRefusals = 0
INVARIANT ErrorsShown
CHECK_DEADLOCK FALSE
