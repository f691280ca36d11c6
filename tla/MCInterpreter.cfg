CONSTANTS
  Commands <- MCCommands
  Effect <- MCEffect
  Script <- MCScript
  Names <- MCNames
  MaxIter = 3
  MaxFiles = 4
  MaxTyped = 3
  MaxErrors = 2
SPECIFICATION FairSpec
INVARIANTS
  FlagMatchesFile
  CallsInOrder
  TypedIsSent
  FilesMatchStack
  ScriptRunsThrough
PROPERTIES
  ScriptsEnd
CHECK_DEADLOCK FALSE
