SPECIFICATION Spec
CONSTANTS
  Voltages <- MCVoltages
  MaxFaults = 0
  MaxCalls = 1
INVARIANTS
  HvOffAtEnd
CHECK_DEADLOCK FALSE
