\* One ROC, every command; any one RPC error.
CONSTANTS
  Rocs = {0}
  Dacs <- MCDacs
  Channels <- MCChannels
  Code <- SingleCode
  Purpose <- MCPurpose
  Leaves <- SingleLeaves
  Enabled <- OneRoc
  Preset <- AllSet
  MaxErrors = 1
  Outline <- MCOutline
  Settled <- OneSettled
SPECIFICATION Spec
INVARIANTS
  RestoresOriginalState
  DirtyHasCause
  AllOff
  TrimsLoaded
CHECK_DEADLOCK FALSE
