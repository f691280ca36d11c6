SPECIFICATION Spec
CONSTANTS
  Voltages <- MCVoltages
  MaxFaults = 1
  MaxCalls = 3
INVARIANTS
  OwnAnswer
  NoWrongVoltage
  AppliedIsAsked
PROPERTIES
  CallsReturn
CHECK_DEADLOCK FALSE
