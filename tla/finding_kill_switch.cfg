SPECIFICATION Spec
CONSTANTS
  product = product
  variant = variant
  Requests = {r1}
  Workers = {w1, w2}
  NoJob = NoJob
  NoRow = NoRow
  Ceiling = 100
  Guardrail = 3000
  MaxAttempts = 3
  InitialPrices = {90}
  InitialFloors = {80, 100}
  BPS = 10000
  MaxInt = 1000000000
  Items <- OneProduct
  Parent <- ParentProduct
  Prices <- ThreePrices
  Limits <- TwoRoles
  Bounds <- WithToggle
PROPERTIES
  NothingPublishedWhileOn
CHECK_DEADLOCK FALSE
