CONSTANTS
  Fn <- MCFn2
  Kind <- MCKind2
  Tables <- MCTables2
  Payloads <- MCForeign
  ElemSize = 2
  IdSize = 1
  ParSize <- MCParSize2
  Base = 256
  Faults = TRUE
  MaxCalls = 2
  MaxOpens = 2
SPECIFICATION ClientFairSpec
INVARIANTS
  CacheSound
PROPERTIES
  OwnReply
  CallsReturn
