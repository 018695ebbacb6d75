\* Calls that keep coming to a pool of 0 to 2 workers, resized at any time.
SPECIFICATION FairSpec
CONSTANTS
  Workers = {w1, w2, w3}
  Calls = {c1, c2, c3}
  NoJob = NoJob
  MaxQuantity = 2
INVARIANT StoppersAreThePool
PROPERTIES
  KeepsContract
  EveryCallReturns
  PoolConverges
