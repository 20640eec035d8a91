SPECIFICATION Spec
CONSTANTS
  Servers = {alpha, beta}
  Home = alpha
  Me = me
  Tasks = {t1, t2}
  None = none
  Batch = 1
  MaxLimit = 2
  Overlap = FALSE
  MaxId = 2
  MaxActs = 2
  MaxFaults = 1
INVARIANTS
  TypeOK
  NoGap
  OneServerLibrary
  LibraryOrdered
PROPERTIES
  Delivered
\* A page whose startup failed does nothing until the user reloads it.
CHECK_DEADLOCK FALSE
