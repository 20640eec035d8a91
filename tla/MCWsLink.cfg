\* One session setup at a time.
SPECIFICATION Spec
CONSTANTS
  Sockets = {s1, s2, s3}
  Setups = {p1}
  MaxSetups = 3
  MaxFlaps = 2
  MaxAttempt = 2
  None = none
INVARIANTS
  TypeOK
  OneLiveSocket
  TimerOnlyWhenDown
  UiTruthful
PROPERTIES
  StaleHandlersExit
  LinkSettles
\* The run ends with an open socket once the bounds are used up.
CHECK_DEADLOCK FALSE
