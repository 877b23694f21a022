SPECIFICATION Spec
CONSTANTS
  Limit = 3
  MaxEvents = 3
INVARIANT RetriedBeforeOutput
CHECK_DEADLOCK FALSE
