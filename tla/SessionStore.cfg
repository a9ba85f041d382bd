SPECIFICATION FairSpec
CONSTANTS
  Keys = {k1, k2}
  codex = codex
  claude = claude
  Records <- MCRecords
  Codex <- MCCodex
  NoRecord = NoRecord
  Clients = {c1, c2}
  Nobody = Nobody
INVARIANTS
  TypeOK
PROPERTIES
  NoDirtyRead
  AckedIsDurable
  ImplementsDurableMap
  Answered
