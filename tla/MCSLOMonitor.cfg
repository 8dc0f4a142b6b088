SPECIFICATION FairSpec
CONSTANTS
  Execs = {}
  NumTypes = 1
  TypeOf <- NoExecOf
  Budget <- OneBudget
  SLOWindow = 1
  Outcomes = {"Completed"}
  ClosedStatuses = {"Completed"}
  Second = 1
  MaxClock = 1
  MaxErrors = 1
  Buckets <- OneRung
  Causes = 1
PROPERTIES
  ServesBothUntilStopped
  ImplementsFastPoll
  ImplementsWindowPoll
CHECK_DEADLOCK FALSE
