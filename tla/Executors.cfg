\* LIFO and CoDel: two calls, a pool of 0 to 2 workers.
SPECIFICATION Spec
CONSTANTS
  Jobs = {c1, c2}
  Calls = {c1, c2}
  Policies = {"fifo", "lifo"}
  Executors = {"lifo", "codel"}
  Workers = {w1, w2}
  NoJob = NoJob
  MaxQuantity = 2
SYMMETRY ExecutorSymmetry
INVARIANTS
  NoJobLost
  NoCallStranded
PROPERTY KeepsContract
