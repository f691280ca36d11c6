\* A module with a ROC on each TBM channel, any of them active; any one RPC error.
CONSTANTS
  Rocs <- Tbms
  Dacs <- MCDacs
  Channels <- MCChannels
  Code <- ModuleCode
  Purpose <- MCPurpose
  Leaves <- ModuleLeaves
  Enabled <- SomeRocs
  Preset <- AllSet
  MaxErrors = 1
  Outline <- MCOutline
  Settled <- AnySettled
SPECIFICATION Spec
CONSTRAINT FewWrong
INVARIANTS
  RestoresOriginalState
  OwnRoc
CHECK_DEADLOCK FALSE
