SPECIFICATION Spec
CONSTANTS
  d1 = d1
  d2 = d2
  other = other
  NoDevice = NoDevice
  Devices <- MCDevices
  DTBs <- MCDTBs
  Files <- MCFiles
  Width = 2
  MaxCommands = 2
  MaxEvents = 1
INVARIANTS
  HandlesAccounted
  AnsweredOrClosed
  BurnsTheFile
SYMMETRY Symmetry
CHECK_DEADLOCK FALSE
