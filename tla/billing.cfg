SPECIFICATION FairSpec
CONSTANTS
  starter = starter
  growth = growth
  trial = trial
  none = none
  other = other
  r1 = r1
  s1 = s1
  s2 = s2
  PaidPlans = {starter, growth}
  TrialPlan = trial
  NoPlan = none
  UnknownPlan = other
  Refs = {r1}
  Notices <- ApartById
  Handlers = {h1}
  Dunners = {d1}
  MaxFaults = 1
INVARIANTS
  PlanIsPaidFor
  TrialIsWritable
  PaidIsWritable
PROPERTIES
  LapsedBecomesReadOnly
  TrialsLapse
