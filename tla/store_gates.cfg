SPECIFICATION GatesSpec
CONSTANTS
  Tenants = {t1, t2}
  Stores = {t1, t2}
  NoStore = NoStore
  Loops = {"publish", "sync"}
  Threshold = 2
  Unreliable = {t1}
  Owners = {t1}
INVARIANTS
  HealthyStoresAreServed
  DeadStoresAreSpared
PROPERTIES
  OwnSwitchDecides
  OpenGatesLetThrough
