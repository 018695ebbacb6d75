\* Two calls for one worker, two attempts each.
SPECIFICATION ChainFairSpec
CONSTANTS
  Workers = {w1}
  Calls = {c1, c2}
  NoJob = NoJob
  Times = 1
INVARIANTS
  SuccessIsGenuine
  ErrorMeansAllFailed
  NoGoroutineLeak
  AttemptsHoldWorkers
PROPERTIES
  LateWorkTimedOut
  WorkersComeBack
\* Every call is made once.
CHECK_DEADLOCK FALSE
