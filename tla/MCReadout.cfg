SPECIFICATION Spec
CONSTANTS
  Steps = 2
  Triggers = 2
  Rocs <- MCRocs
INVARIANTS
  DamageIsTold
  NoFalseResponse
  DamageIsConfined
CHECK_DEADLOCK FALSE
