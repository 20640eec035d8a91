SPECIFICATION Spec
CONSTANTS
  Tabs = {t1, t2}
  CoalesceMin = 3
  MaxId = 3
  MaxOpens = 2
  MaxSwitches = 1
INVARIANTS
  TypeOK
  
  Announced
\* The messages are announced and the tabs closed.
CHECK_DEADLOCK FALSE
