\* All commands, two phases and two channels; any three in a row, any one RPC error.
CONSTANTS
  Phases <- TwoPhases
  Channels <- TwoChannels
  Code <- MCCode
  Leaves <- MCLeaves
  Cleans <- MCCleans
  Outline <- MCOutline
  MaxCommands = 3
  MaxErrors = 1
SPECIFICATION Spec
INVARIANTS
  LeftoversHaveCause
  CleanRead
  GoodPhases
CHECK_DEADLOCK FALSE
