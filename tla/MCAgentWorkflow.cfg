SPECIFICATION FairSpec
CONSTANTS
  MaxCalls = 2
  InputIterations <- MCIterations
  DefaultMaxIterations = 2
  MaxAttempts = 2
  Faults <- MCFaults
  Models <- MCModels
  FirstModel = "opus"
  MaxRollouts = 1
INVARIANTS
  ConversationWellFormed
  SpendBounded
  
  RunsReportedHonestly
  OneModelPerRun
PROPERTIES
  Terminates
CHECK_DEADLOCK FALSE
