SPECIFICATION FairSpec
CONSTANTS
  Handlers = {h1}
  Options <- MCOptions
  Caches <- MCCaches
  PostedIO <- MCPostedIO
  MaxIO = 2
  Baseline <- MCBaseline
  BootVersion = 2
  MaxVersion = 3
  MaxRestarts = 1
  MaxPosts = 1
  MaxSwaps = 2
  MaxFailures = 1
  MaxCrashes = 1
  MaxRunFaults = 1
  h1 = h1
PROPERTIES
  ImplementsRollout
  GaugesSettle
CHECK_DEADLOCK FALSE
