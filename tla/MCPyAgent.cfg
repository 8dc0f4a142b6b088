SPECIFICATION Spec
CONSTANTS
    Runs = {r1, r2}
    Requests <- MCRequests
    MaxIterations = 2
    MaxToolCalls = 1
    Usages <- MCUsages
    Prices <- MCPrices
    Errors <- MCErrors
    SlotChoices = {1, 2}
    MaxTries = 2
    MaxCrashes = 1
INVARIANTS
    PaidOnce
    RecordedHonestly
    InjectedAsAsked
PROPERTIES
    EveryRunCloses
