SPECIFICATION FairSpec
CONSTANTS
  Handlers = {h1}
  Options <- MCOptions
  Caches <- MCCaches
  PostedIO <- MCPostedIO
  MaxIO = 2
  Baseline <- MCBaseline
  BootVersion = 1
  MaxVersion = 4
  MaxRestarts = 0
  MaxPosts = 2
  MaxSwaps = 4
  MaxFailures = 1
  MaxCrashes = 1
  h1 = h1
INVARIANTS
  DrainedStopCounting
PROPERTIES
  ImplementsRollout
  ConfigTakesEffect
CHECK_DEADLOCK FALSE
