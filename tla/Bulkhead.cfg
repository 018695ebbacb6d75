\* Two workers, three calls that keep coming, with and without a MaxWaitTime.
SPECIFICATION FairSpec
CONSTANTS
  Workers = {w1, w2}
  Calls = {c1, c2, c3}
  NoJob = NoJob
INVARIANTS
  MetricsAddUp
PROPERTIES
  KeepsContract
  EveryCallReturns
  StopReachesWorkers
\* Once the workers are stopped, calls without a MaxWaitTime wait for ever.
CHECK_DEADLOCK FALSE
