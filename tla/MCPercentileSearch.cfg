SPECIFICATION Spec
CONSTANTS
  e1 = e1
  e2 = e2
  e3 = e3
  e4 = e4
  Execs = {e1, e2, e3, e4}
  DurationOf <- MCDurationOf
  Percentiles <- MCPercentiles
  MaxDuration = 10
  Tolerances = {0, 1, 2}
  MaxQueries = 6
INVARIANTS
  CoversPercentile
  TightPercentile
CHECK_DEADLOCK FALSE
