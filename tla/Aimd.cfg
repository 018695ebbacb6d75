\* Limits from 2 to 8 in hundredths, the slow start ending at 4.
\* Two calls in flight for every worker.
SPECIFICATION LimitSpec
CONSTANTS
  MinimumLimit = 2
  SlowStartThreshold = 4
  BackoffRatio = 90
  LimitIncrementInflightFactor = 2
  MaxInflight = 15
  Precision = 100
INVARIANTS
  NeverBeyondDemand
PROPERTIES
  StepsAreBounded
  FailuresReachMinimum
  DemandIsMet
