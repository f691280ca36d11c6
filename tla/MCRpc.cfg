CONSTANTS
  Fn <- MCFn
  Kind <- MCKind
  Tables <- MCTables
  Payloads <- MCPayloads
  ElemSize = 2
  IdSize = 1
  ParSize <- MCParSize
  Base = 256
  Faults = FALSE
  MaxCalls = 3
  MaxOpens = 2
SPECIFICATION FairSpec
INVARIANTS
  IdleIsQuiet
PROPERTIES
  MeantFunction
  LinkVerdict
  ImplementsService
