\* Two session setups in progress together.
SPECIFICATION Spec
CONSTANTS
  Sockets = {s1, s2, s3}
  Setups = {p1, p2}
  MaxSetups = 2
  MaxFlaps = 0
  MaxAttempt = 2
  None = none
PROPERTIES
  StaleHandlersExit
CHECK_DEADLOCK FALSE
