\* Two concurrent callers, no bucket is replaced.
SPECIFICATION Spec
CONSTANTS
  Callers = {c1, c2}
  WindowSize = 2
  MaxPerBucket = 2
  ErrorPercentThresholdToOpen = 50
  MinimumRequestToOpen = 2
  SuccessfulRequiredOnHalfOpen = 1
  SliderRuns = FALSE
PROPERTY HalfOpenVerdict
CHECK_DEADLOCK FALSE
