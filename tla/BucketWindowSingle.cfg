\* The unique counter: one bucket, which newBucketWindow explicitly provides for.
SPECIFICATION WindowSpec
CONSTANTS
  WindowSize = 1
  MaxPerBucket = 2
INVARIANT NoPanic
