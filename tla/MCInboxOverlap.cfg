\* A session change may overlap a refresh that is already running.  One
\* server, no faults: the interleaving alone is enough.
SPECIFICATION Spec
CONSTANTS
  Servers = {alpha}
  Home = alpha
  Me = me
  Tasks = {t1, t2}
  None = none
  Batch = 1
  MaxLimit = 2
  Overlap = TRUE
  MaxId = 2
  MaxActs = 1
  MaxFaults = 0
INVARIANTS
  LoadedInFull
CHECK_DEADLOCK FALSE
