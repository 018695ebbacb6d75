\* One caller at a time that keeps calling, a ring of three buckets.
SPECIFICATION FairSpec
CONSTANTS
  Callers = {c1}
  WindowSize = 3
  MaxPerBucket = 3
  ErrorPercentThresholdToOpen = 50
  MinimumRequestToOpen = 3
  SuccessfulRequiredOnHalfOpen = 2
  SliderRuns = TRUE
INVARIANTS
  RingInv
PROPERTIES
  SlidesAsDocumented
  FollowsProtocol
  EventualRecovery
