\* Three jobs that come and go, both policies, the stop channel closed at any time.
SPECIFICATION QueueFairSpec
CONSTANTS
  Jobs = {j1, j2, j3}
  Policies = {"fifo", "lifo"}
INVARIANTS
  NoLostWakeUp
  NeverTakesFromEmpty
  SizeCounts
PROPERTIES
  DeliversOnce
  EveryJobLeaves
\* Once stopC is closed the queue really stops.
CHECK_DEADLOCK FALSE
