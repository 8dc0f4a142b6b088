SPECIFICATION WindowSpec
CONSTANTS
  e1 = e1
  e2 = e2
  Execs = {e1, e2}
  NumTypes = 2
  TypeOf <- MCTypeOf
  Budget <- MCBudget
  SLOWindow = 1
  Outcomes = {"Completed"}
  ClosedStatuses = {"Completed"}
  Second = 1
  MaxClock = 2
  MaxErrors = 1
  ObjectiveRatio = 9500
  StaleAfter <- MCStale
INVARIANTS
  QuietTypeKeepsBudget
CHECK_DEADLOCK FALSE
