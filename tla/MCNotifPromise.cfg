\* Two tabs, the code's batches of four messages or more, and one change of server.
SPECIFICATION Spec
CONSTANTS
  Tabs = {t1, t2}
  CoalesceMin = 4
  MaxId = 4
  MaxOpens = 2
  MaxSwitches = 1
INVARIANTS
  OneHalfKept
CHECK_DEADLOCK FALSE
