SPECIFICATION Spec
CONSTANTS
  Tabs = {t1, t2}
  Peers = {p1, p2}
  Batch = 2
  MaxId = 2
  MaxActs = 3
  None = none
SYMMETRY Alike
INVARIANTS
  TypeOK
  ReadOnlyIfRendered
  DotsFollow
PROPERTIES
  CursorsAdvance
CHECK_DEADLOCK FALSE
