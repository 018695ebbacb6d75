\* Three callers; the limit goes from 1 to 2 and back, its fraction in thirds.
SPECIFICATION Spec
CONSTANTS
  Calls = {c1, c2, c3}
  RejectedNeverRun = FALSE
  MinimumLimit = 1
  SlowStartThreshold = 1
  BackoffRatio = 2
  LimitIncrementInflightFactor = 1
  MaxInflight = 3
  Precision = 3
  Policy = "FailureOnRejected"
INVARIANTS
  CountersAreExact
  PoolKeepsMinimum
  PoolNeverOutgrowsCalls
PROPERTIES
  PoolFollowsLimit
