SPECIFICATION FairSpec
CONSTANTS
  Products = {1, 2}
  Prices = {1, 2}
  Workers = {w1}
  Runs = {1, 2, 3, 4}
  PageSize = 1
  Overlap = 1
  Interval = 1
  Bound <- Once
  MostHazards = 2
INVARIANTS
  NextRunListsChanges
  LiveProductsStay
  ConflictIsReal
PROPERTIES
  DisconnectHolds
  CatchesUp
CHECK_DEADLOCK FALSE
