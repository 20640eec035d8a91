SPECIFICATION Spec
CONSTANTS
  a = a
  b = b
  tab1 = tab1
  tab2 = tab2
  other = other
  wrong = wrong
  Keys = {a, b}
  Sessions = {tab1, tab2, other, wrong}
  Presents <- MCPresents
  Holds <- MCHolds
  TTL = 1
  MaxChallenges = 3
  MaxClock = 1
  MaxRestarts = 1
  None = none
SYMMETRY Tabs
INVARIANTS
  TypeOK
  TokenProvesPossession
  SingleUse
  TokenHasUser
  RejectionExplained
\* Time and challenges run out.
CHECK_DEADLOCK FALSE
