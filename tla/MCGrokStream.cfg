SPECIFICATION Spec
CONSTANTS
  Limit = 3
  MaxEvents = 4
INVARIANTS ForwardedInOrder EndsWithTerminal
PROPERTIES NoResendAfterOutput
CHECK_DEADLOCK FALSE
