\* Every sequence of five marked samples in every division into blocks.
CONSTANTS
  Block = 2
  Limit = 2
  MaxSamples = 5
SPECIFICATION Spec
INVARIANTS
  CleanIsWhole
PROPERTIES
  ImplementsFraming
  ReadEnds
CHECK_DEADLOCK FALSE
