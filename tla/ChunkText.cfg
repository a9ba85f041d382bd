SPECIFICATION ChunkSpec
CONSTANTS
  Characters <- MCCharacters
  Lines <- MCLines
  MaxLines = 3
  Limit = 6
  MaxChunks = 8
INVARIANT ChunksFit
CHECK_DEADLOCK FALSE
