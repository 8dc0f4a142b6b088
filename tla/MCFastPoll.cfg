SPECIFICATION FastFairSpec
CONSTANTS
  e1 = e1
  Execs = {e1}
  NumTypes = 1
  TypeOf <- MCTypeOf
  Budget <- MCBudget
  SLOWindow = 1
  Outcomes = {"Completed"}
  ClosedStatuses = {"Completed"}
  Second = 1
  MaxClock = 3
  MaxErrors = 1
  Buckets <- MCBuckets
  Causes = 1
  ObjectiveRatio = 9500
  StaleAfter <- MCStale
INVARIANTS
  LadderBracketed
  FreshnessHonest
  DetectionHonest
  LateSeenOrStale
PROPERTIES
  StuckSettled
CHECK_DEADLOCK FALSE
