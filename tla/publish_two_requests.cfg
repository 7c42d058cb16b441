SPECIFICATION Spec
CONSTANTS
  product = product
  variant = variant
  Requests = {r1, r2}
  Workers = {w1, w2}
  NoJob = NoJob
  NoRow = NoRow
  Ceiling = 100
  Guardrail = 3000
  MaxAttempts = 3
  InitialPrices = {100}
  InitialFloors = {80}
  BPS = 10000
  MaxInt = 1000000000
  Items <- OneProduct
  Parent <- ParentProduct
  Prices <- ThreePrices
  Limits <- TwoRoles
  Bounds <- TwoRequests
CONSTRAINT NobodyOvertaken
SYMMETRY SymmetryAll
INVARIANTS
  CatalogueMatchesStore
  UnracedViewIsCurrent
CHECK_DEADLOCK FALSE
