-------------------------- MODULE MCQueueExecutor --------------------------
\* QueueExecutor for TLC: workers are interchangeable, and so are calls.
EXTENDS QueueExecutor, TLC

ExecutorSymmetry == Permutations(Workers) \cup Permutations(Calls)
=============================================================================
