SPECIFICATION Spec
CONSTANTS
  Pages = {p1, p2}
  Peers = {ann, bob}
  Sends = {s1, s2}
  None = none
  MaxActs = 4
  MaxPosts = 3
SYMMETRY Symmetry
INVARIANTS
  TypeOK
  SentMatchesStore
  CopiesExplained
  SentWhereTyped
  IdentityHolds
PROPERTIES
  DraftKept
\* The bound on acts ends a behaviour.
CHECK_DEADLOCK FALSE
