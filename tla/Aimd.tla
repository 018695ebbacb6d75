-------------------------------- MODULE Aimd --------------------------------
(***************************************************************************)
(* The adaptive limiter (concurrencylimit/limit/aimd.go).  MeasureSample   *)
(* holds a.mu throughout, so it is one action.  The float64 limit is kept  *)
(* in units of 1/Precision and rounded down to one: the float is the same  *)
(* thing with a finer unit, and nothing below depends on the unit.         *)
(***************************************************************************)
EXTENDS Integers

CONSTANTS
  MinimumLimit,
  SlowStartThreshold,
  BackoffRatio,                   \* in units of 1/Precision
  LimitIncrementInflightFactor,
  MaxInflight,                    \* bound of the model: calls in flight
  Precision                       \* units of the fixed-point limit

\* What AIMDConfig.defaults leaves possible, but for settings below 0: of the
\* minimum and the factor it replaces only 0, of the threshold nothing.
ASSUME AimdAssumption ==
  /\ MinimumLimit \in Nat \ {0} /\ SlowStartThreshold \in Nat
  /\ LimitIncrementInflightFactor \in Nat \ {0}
  /\ Precision \in Nat \ {0} /\ MaxInflight \in Nat
  /\ BackoffRatio \in Nat /\ 2 * BackoffRatio >= Precision /\ BackoffRatio <= Precision

VARIABLE limit

Minimum == MinimumLimit * Precision

\* int(a.limit)
GetLimit == limit \div Precision

LimitInit == limit = Minimum

-----------------------------------------------------------------------------
\* Backing off without the floor.
BuggyDecreaseLimit == limit' = (limit * BackoffRatio) \div Precision

DecreaseLimit ==
  LET backedOff == (limit * BackoffRatio) \div Precision
  IN  limit' = IF backedOff <= Minimum THEN Minimum ELSE backedOff

\* The slow start of TCP, which doubles.
BuggySlowStart ==
  limit' = IF GetLimit < SlowStartThreshold \/ SlowStartThreshold = 0
           THEN 2 * limit ELSE limit + (Precision * Precision) \div limit

\* 1 / a.limit computed in integers.
BuggyIncreaseLimit ==
  limit' = IF GetLimit < SlowStartThreshold \/ SlowStartThreshold = 0
           THEN limit + Precision ELSE limit + Precision * (1 \div GetLimit)

IncreaseLimit ==
  limit' = IF GetLimit < SlowStartThreshold \/ SlowStartThreshold = 0
           THEN limit + Precision
           ELSE limit + (Precision * Precision) \div limit

\* The factor on the side of the calls in flight, as its comment has it.
BuggyMeasureSample(inflight, result, slow) ==
  LET congested == result = "failure" \/ (result = "success" /\ slow)
      demanded  == result = "success" /\ inflight * LimitIncrementInflightFactor > GetLimit
  IN  \/ congested /\ DecreaseLimit
      \/ ~ congested /\ demanded /\ IncreaseLimit
      \/ ~ congested /\ ~ demanded /\ UNCHANGED limit

\* slow: the call took longer than RTTTimeout.
MeasureSample(inflight, result, slow) ==
  LET congested == result = "failure" \/ (result = "success" /\ slow)
      demanded  == result = "success" /\ inflight > GetLimit * LimitIncrementInflightFactor
  IN  \/ congested /\ DecreaseLimit
      \/ ~ congested /\ demanded /\ IncreaseLimit
      \/ ~ congested /\ ~ demanded /\ UNCHANGED limit

Failure == \E inflight \in 0 .. MaxInflight : MeasureSample(inflight, "failure", FALSE)
FullSuccess == MeasureSample(MaxInflight, "success", FALSE)

LimitNext ==
  \E inflight \in 0 .. MaxInflight, result \in {"success", "failure", "ignore"}, slow \in BOOLEAN :
    MeasureSample(inflight, result, slow)

LimitSpec == LimitInit /\ [][LimitNext]_limit

-----------------------------------------------------------------------------
\* The limit is never below the minimum, from whatever fraction it backs off
\* (decreaseLimit).
NeverBelowMinimum == limit \in Nat /\ limit >= Minimum

\* No single sample does more to the limit that the executor is given than add
\* one worker to it or halve it, fractions included (MeasureSample).
StepsAreBounded == [][GetLimit' <= GetLimit + 1 /\ 2 * GetLimit' >= GetLimit - 1]_limit

\* One worker fewer, and so many calls in flight would ask for more.
AskedFor(workers, calls) ==
  workers <= MinimumLimit \/ (workers - 1) * LimitIncrementInflightFactor < calls

\* The limit does not increase for ever: above the minimum it only is what calls in
\* flight have asked for (MeasureSample, "Only increase if we need it").
NeverBeyondDemand == AskedFor(GetLimit, MaxInflight)

\* When samples keep coming and they are failures, the limit comes down to the
\* minimum (decreaseLimit).
FailuresReachMinimum ==
  <>[][Failure]_limit /\ WF_limit(Failure) => <>[](GetLimit = MinimumLimit)

\* The least limit at which MaxInflight calls in flight ask for no more.
Demand == (MaxInflight + LimitIncrementInflightFactor - 1) \div LimitIncrementInflightFactor

\* When samples keep coming and they are quick successes at a steady number of
\* calls in flight, the limit comes up to it, past the slow start threshold too
\* (increaseLimit).
DemandIsMet ==
  <>[][FullSuccess]_limit /\ WF_limit(FullSuccess)
    => <>[](GetLimit >= Demand)
=============================================================================
