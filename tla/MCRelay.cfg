SPECIFICATION Spec
CONSTANTS
  Users = {alice, bob}
  Handlers = {h1, h2}
  Sockets = {s1}
  None = none
  Limits <- MCLimits
  MaxLimit = 2
  TTL = 1
  ChanCap = 1
  MaxId = 2
  MaxClock = 2
INVARIANTS
  TypeOK
  CursorLossless
  RetainedUntilExpiry
  IdsNeverReused
  HintsAreFetchable
  NoSilentHintLoss
PROPERTIES
  ExpiredArePurged
  ImplementsMailbox
