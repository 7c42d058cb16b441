SPECIFICATION Spec
CONSTANTS
  Callers = {c1, c2}
  DailyLimit = 2
  Limits = {1, 2}
  NoGrant = NoGrant
  RowCap = 2
  Bound <- Twice
  MostHazards = 2
SYMMETRY SymmetryCallers
INVARIANTS
  TypeOK
  OverrunIsBounded
  UseIsCounted
PROPERTIES
  SwitchStops
