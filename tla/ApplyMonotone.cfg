SPECIFICATION Spec
CONSTANTS
  Buffer = {b1, b2}
  MaxIndex = 2
  MaxCalls = 2
CHECK_DEADLOCK FALSE
PROPERTY
  LastAppliedIncreases
