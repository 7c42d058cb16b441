SPECIFICATION FairSpec
CONSTANTS
  Pages = {p1}
  NoPage = nopage
  Contents <- MCContents
  Workers = {w1, w2}
  Breaks = 3
  Bound <- Twice
  MostHazards = 2
INVARIANTS
  ReviewStands
  NewestIsShown
  StaleIsOld
PROPERTIES
  KeepsChecking
CHECK_DEADLOCK FALSE
