-------------------------- MODULE MCCircuitBreaker --------------------------
\* CircuitBreaker for TLC: callers are interchangeable.
EXTENDS CircuitBreaker, Functions, TLC

CallerSymmetry == Permutations(Callers)

\* Sum is the sum of a function, on every function small enough to enumerate.
ASSUME SumAssumption ==
  \A n \in 0 .. 3 : \A f \in [0 .. n -> 0 .. 3] : Sum(f) = SumFunction(f)
=============================================================================
