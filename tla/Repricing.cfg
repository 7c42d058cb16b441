SPECIFICATION Spec
CONSTANTS
  BPS = 10000
  MaxInt = 1000000000
  NoVariant = NoVariant
  NoObservation = NoObservation
  Item <- MCItem
  Catalogue <- MCCatalogue
  Listings <- MCListings
  Costs <- MCCosts
  Files <- MCFiles
  RuleBook <- MCRuleBook
  PolicyBook <- MCPolicyBook
  LockBook <- MCLockBook
  Observations <- MCObservations
  Competitors = {one, two}
INVARIANTS TypeOK ActionableIsSafe CostIsMonotone
PROPERTY AcceptedPriceHolds
