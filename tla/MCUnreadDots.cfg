\* One tab with one thread open, and one poll that brings mail of both senders.
SPECIFICATION Spec
CONSTANTS
  Tabs = {t1}
  Peers = {p1, p2}
  Batch = 2
  MaxId = 2
  MaxActs = 2
  None = none
SYMMETRY Alike
PROPERTIES
  OnePromiseKept
CHECK_DEADLOCK FALSE
