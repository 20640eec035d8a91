SPECIFICATION Spec
CONSTANTS
  Keys = {register, stats}
  Handlers = {h1, h2}
  Cost = 2
  Cap = 5
  MaxClock = 5
  None = none
SYMMETRY Symmetry
INVARIANTS
  TypeOK
  WithinBudget
PROPERTIES
  RefusedOnlyWhenSpent
