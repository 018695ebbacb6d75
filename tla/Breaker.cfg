\* Two concurrent callers, the slider running.
SPECIFICATION Spec
CONSTANTS
  Callers = {c1, c2}
  WindowSize = 2
  MaxPerBucket = 2
  ErrorPercentThresholdToOpen = 50
  MinimumRequestToOpen = 2
  SuccessfulRequiredOnHalfOpen = 1
  SliderRuns = TRUE
SYMMETRY CallerSymmetry
INVARIANT LateRejectionsAreFew
INVARIANT HealthyNeverTrips
INVARIANT WindowIsEvidence
PROPERTY LateMoverKeepsRecords
