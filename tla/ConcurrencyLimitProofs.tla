----------------------- MODULE ConcurrencyLimitProofs -----------------------
(***************************************************************************)
(* Theorems about the concurrency limit runner, for any set of calls, any  *)
(* configuration of the limiter and any executor that keeps its contract.  *)
(***************************************************************************)
EXTENDS ConcurrencyLimit, FiniteSetTheorems, TLAPS

-----------------------------------------------------------------------------
\* Whole units of a limit: what GetLimit makes of a limit that is not below some
\* number of workers.
LEMMA WholeUnits ==
  ASSUME NEW a \in Nat, NEW b \in Nat, NEW p \in Nat \ {0}, a >= b * p
  PROVE  a \div p \in Nat /\ a \div p >= b
<1> DEFINE q == a \div p
<1>1. q \in Int /\ q >= 0 /\ a < p * (q + 1)
  OBVIOUS
<1>2. ASSUME q < b PROVE FALSE
  <2>1. q + 1 <= b
    BY <1>1, <1>2
  <2>2. p * (q + 1) <= p * b
    <3> HIDE DEF q
    <3> QED
      BY <2>1, <1>1
  <2> QED
    <3> HIDE DEF q
    <3> QED
      BY <2>2, <1>1
<1> QED
  <2> HIDE DEF q
  <2>1. q \in Nat /\ q >= b
    BY <1>1, <1>2
  <2> QED
    BY <2>1 DEF q

LEMMA MinimumIsPositive == Minimum \in Nat /\ Minimum > 0
BY AimdAssumption DEF Minimum

\* Neither backing off nor growing takes the limit below its floor, whatever the
\* sample is (MeasureSample).
LEMMA SamplesKeepMinimum ==
  ASSUME NeverBelowMinimum, NEW inflight, NEW result, NEW slow,
         MeasureSample(inflight, result, slow)
  PROVE  NeverBelowMinimum'
<1> USE MinimumIsPositive DEF NeverBelowMinimum
<1>0. Minimum' = Minimum
  BY DEF Minimum
<1>1. CASE DecreaseLimit
  <2>1. BackoffRatio \in Nat /\ Precision \in Nat \ {0}
    BY AimdAssumption
  <2>2. (limit * BackoffRatio) \in Nat
    BY <2>1
  <2>3. (limit * BackoffRatio) \div Precision \in Int
    BY <2>1, <2>2
  <2> QED
    BY <1>0, <1>1, <2>3 DEF DecreaseLimit
<1>2. CASE IncreaseLimit
  <2>1. Precision \in Nat /\ Precision * Precision \in Nat /\ limit \in Nat \ {0}
    BY AimdAssumption
  <2>2. (Precision * Precision) \div limit \in Nat
    BY <2>1
  <2> QED
    BY <1>0, <1>2, <2>1, <2>2 DEF IncreaseLimit
<1>3. CASE UNCHANGED limit
  BY <1>0, <1>3
<1> QED
  BY <1>1, <1>2, <1>3 DEF MeasureSample

\* The limiter alone, for any configuration and whatever is measured: the limit is
\* never below the minimum (aimd.decreaseLimit).
THEOREM LimitKeepsMinimum == LimitSpec => []NeverBelowMinimum
<1>1. LimitInit => NeverBelowMinimum
  BY MinimumIsPositive DEF LimitInit, NeverBelowMinimum
<1>2. NeverBelowMinimum /\ [LimitNext]_limit => NeverBelowMinimum'
  <2> SUFFICES ASSUME NeverBelowMinimum, [LimitNext]_limit PROVE NeverBelowMinimum'
    OBVIOUS
  <2>1. CASE LimitNext
    BY <2>1, SamplesKeepMinimum DEF LimitNext
  <2>2. CASE UNCHANGED limit
    BY <2>2 DEF NeverBelowMinimum, Minimum
  <2> QED
    BY <2>1, <2>2
<1> QED
  BY <1>1, <1>2, PTL DEF LimitSpec

-----------------------------------------------------------------------------
\* The whole part of a quotient, as two products.
LEMMA Quotient ==
  ASSUME NEW a \in Nat, NEW p \in Nat \ {0}
  PROVE  /\ a \div p \in Nat
         /\ (a \div p) * p <= a
         /\ a < (a \div p) * p + p
OBVIOUS

LEMMA Cancellation ==
  ASSUME NEW a \in Int, NEW b \in Int, NEW p \in Nat \ {0}, a * p < b * p
  PROVE  a < b
<1>1. ASSUME b <= a PROVE FALSE
  <2>1. b * p <= a * p
    BY <1>1
  <2> QED
    BY <2>1
<1> QED
  BY <1>1

\* A limit that moves by at most one worker up, and not below half of what it was,
\* does so in whole workers too.
LEMMA WholeSteps ==
  ASSUME NEW a \in Nat, NEW b \in Nat, NEW p \in Nat \ {0}
  PROVE  /\ b <= a + p => b \div p <= a \div p + 1
         /\ a <= 2 * b + 1 => 2 * (b \div p) >= a \div p - 1
<1> DEFINE q == a \div p
           r == b \div p
<1>1. q \in Nat /\ q * p <= a /\ a < q * p + p
  BY Quotient
<1>2. r \in Nat /\ r * p <= b /\ b < r * p + p
  BY Quotient
<1> HIDE DEF q, r
<1>3. q * p \in Nat /\ r * p \in Nat
  BY <1>1, <1>2
<1>4. ASSUME b <= a + p PROVE r <= q + 1
  <2>1. r * p < q * p + p + p
    BY <1>1, <1>2, <1>3, <1>4
  <2>2. (q + 2) * p = q * p + p + p
    BY <1>1
  <2>3. r < q + 2
    BY <1>1, <1>2, <2>1, <2>2, Cancellation
  <2> QED
    BY <1>1, <1>2, <2>3
<1>5. ASSUME a <= 2 * b + 1 PROVE 2 * r >= q - 1
  <2>1. q * p < r * p + r * p + p + p
    BY <1>1, <1>2, <1>3, <1>5
  <2>2. (2 * r + 2) * p = r * p + r * p + p + p
    BY <1>2
  <2>3. q < 2 * r + 2
    BY <1>1, <1>2, <2>1, <2>2, Cancellation
  <2> QED
    BY <1>1, <1>2, <2>3
<1> QED
  BY <1>4, <1>5 DEF q, r

\* What backs off keeps at least half of the limit, less the fraction that is
\* rounded away, as the ratio is at least a half (decreaseLimit).
LEMMA BackingOff ==
  ASSUME NEW a \in Nat
  PROVE  LET b == (a * BackoffRatio) \div Precision
         IN  b \in Nat /\ b <= a /\ a <= 2 * b + 1
<1> DEFINE k == a * BackoffRatio
           b == k \div Precision
<1>1. BackoffRatio \in Nat /\ Precision \in Nat \ {0}
  BY AimdAssumption
<1>2. k \in Nat /\ k <= a * Precision /\ a * Precision <= k + k
  <2>1. a * BackoffRatio <= a * Precision
    BY <1>1, AimdAssumption
  <2>2. a * Precision <= a * (2 * BackoffRatio)
    BY <1>1, AimdAssumption
  <2>3. a * (2 * BackoffRatio) = k + k
    BY <1>1
  <2> QED
    BY <1>1, <2>1, <2>2, <2>3
<1> HIDE DEF k
<1>3. b \in Nat /\ b * Precision <= k /\ k < b * Precision + Precision
  BY <1>1, <1>2, Quotient
<1> HIDE DEF b
<1>4. b * Precision \in Nat /\ a * Precision \in Nat
  BY <1>1, <1>3
<1>5. b <= a
  <2>1. b * Precision < a * Precision + Precision
    BY <1>1, <1>2, <1>3, <1>4
  <2>2. (a + 1) * Precision = a * Precision + Precision
    BY <1>1
  <2>3. b < a + 1
    BY <1>1, <1>3, <2>1, <2>2, Cancellation
  <2> QED
    BY <1>3, <2>3
<1>6. a <= 2 * b + 1
  <2>1. a * Precision < b * Precision + b * Precision + Precision + Precision
    BY <1>1, <1>2, <1>3, <1>4
  <2>2. (2 * b + 2) * Precision = b * Precision + b * Precision + Precision + Precision
    BY <1>1, <1>3
  <2>3. a < 2 * b + 2
    BY <1>1, <1>3, <2>1, <2>2, Cancellation
  <2> QED
    BY <1>3, <2>3
<1> QED
  BY <1>3, <1>5, <1>6 DEF b, k

\* In units: a sample adds at most one worker's worth and takes at most half.
LEMMA SamplesAreBounded ==
  ASSUME NeverBelowMinimum, NEW inflight, NEW result, NEW slow,
         MeasureSample(inflight, result, slow)
  PROVE  limit' \in Nat /\ limit' <= limit + Precision /\ limit <= 2 * limit' + 1
<1>1. limit \in Nat /\ Precision \in Nat \ {0} /\ limit >= Precision
  <2>1. MinimumLimit * Precision >= Precision
    BY AimdAssumption
  <2>2. Minimum \in Nat
    BY MinimumIsPositive
  <2> QED
    BY <2>1, <2>2, AimdAssumption DEF NeverBelowMinimum, Minimum
<1>2. CASE DecreaseLimit
  <2> DEFINE b == (limit * BackoffRatio) \div Precision
  <2>1. b \in Nat /\ b <= limit /\ limit <= 2 * b + 1
    BY <1>1, BackingOff
  <2> HIDE DEF b
  <2>2. limit' = IF b <= Minimum THEN Minimum ELSE b
    BY <1>2 DEF DecreaseLimit, b
  <2>3. Minimum \in Nat /\ Minimum <= limit
    BY MinimumIsPositive DEF NeverBelowMinimum
  <2> QED
    BY <1>1, <2>1, <2>2, <2>3
<1>3. CASE IncreaseLimit
  <2> DEFINE b == (Precision * Precision) \div limit
  <2>1. b \in Nat /\ b <= Precision
    <3>1. Precision * Precision \in Nat /\ limit \in Nat \ {0}
      BY <1>1
    <3>2. b \in Nat /\ b * limit <= Precision * Precision
      BY <3>1, Quotient
    <3> HIDE DEF b
    <3>3. Precision * Precision <= Precision * limit
      BY <1>1
    <3>4. b * limit < (Precision + 1) * limit
      <4>1. (Precision + 1) * limit = Precision * limit + limit /\ Precision * limit \in Nat
        BY <1>1
      <4>2. b * limit \in Nat
        BY <3>2, <1>1
      <4> QED
        BY <1>1, <3>1, <3>2, <3>3, <4>1, <4>2
    <3>5. b < Precision + 1
      BY <1>1, <3>1, <3>2, <3>4, Cancellation
    <3> QED
      BY <1>1, <3>2, <3>5
  <2> HIDE DEF b
  <2>2. limit' = limit + Precision \/ limit' = limit + b
    BY <1>3 DEF IncreaseLimit, b
  <2> QED
    BY <1>1, <2>1, <2>2
<1>4. CASE UNCHANGED limit
  BY <1>1, <1>4
<1> QED
  BY <1>2, <1>3, <1>4 DEF MeasureSample

\* No sample does more to the limit that the executor is given than add one worker
\* to it or halve it, for every backoff ratio that the defaults let through
\* (aimd.MeasureSample).
THEOREM SamplesStepGently == LimitSpec => StepsAreBounded
<1>1. NeverBelowMinimum /\ [LimitNext]_limit
        => [GetLimit' <= GetLimit + 1 /\ 2 * GetLimit' >= GetLimit - 1]_limit
  <2> SUFFICES ASSUME NeverBelowMinimum, LimitNext
               PROVE  GetLimit' <= GetLimit + 1 /\ 2 * GetLimit' >= GetLimit - 1
    OBVIOUS
  <2>1. limit' \in Nat /\ limit' <= limit + Precision /\ limit <= 2 * limit' + 1
    BY SamplesAreBounded DEF LimitNext
  <2>2. limit \in Nat /\ Precision \in Nat \ {0}
    BY AimdAssumption DEF NeverBelowMinimum
  <2> QED
    BY <2>1, <2>2, WholeSteps DEF GetLimit
<1> QED
  BY <1>1, LimitKeepsMinimum, PTL DEF LimitSpec, StepsAreBounded

-----------------------------------------------------------------------------
\* Fewer workers have been asked for by fewer calls.
LEMMA FewerAreAskedFor ==
  ASSUME NEW a \in Int, NEW b \in Int, NEW n \in Int, a <= b, AskedFor(b, n)
  PROVE  AskedFor(a, n)
<1>1. LimitIncrementInflightFactor \in Nat \ {0} /\ MinimumLimit \in Nat
  BY AimdAssumption
<1>2. (a - 1) * LimitIncrementInflightFactor <= (b - 1) * LimitIncrementInflightFactor
  BY <1>1
<1>3. /\ (a - 1) * LimitIncrementInflightFactor \in Int
      /\ (b - 1) * LimitIncrementInflightFactor \in Int
  BY <1>1
<1> QED
  BY <1>1, <1>2, <1>3 DEF AskedFor

LEMMA OneMoreIsAskedFor ==
  ASSUME NEW w \in Nat, NEW n \in Int, w * LimitIncrementInflightFactor < n
  PROVE  AskedFor(w + 1, n)
<1>1. LimitIncrementInflightFactor \in Nat
  BY AimdAssumption
<1>2. (w + 1) - 1 = w
  OBVIOUS
<1> QED
  BY <1>1, <1>2 DEF AskedFor

\* A sample takes the limit beyond a demand only for calls in flight that ask for it
\* (MeasureSample).
LEMMA SamplesKeepToDemand ==
  ASSUME NeverBelowMinimum, NEW n \in Int, AskedFor(GetLimit, n),
         NEW inflight \in Int, inflight <= n, NEW result, NEW slow,
         MeasureSample(inflight, result, slow)
  PROVE  AskedFor(GetLimit', n)
<1>1. limit \in Nat /\ limit' \in Nat /\ Precision \in Nat \ {0} /\ limit' <= limit + Precision
  BY SamplesAreBounded, AimdAssumption DEF NeverBelowMinimum
<1>2. GetLimit \in Nat /\ GetLimit' \in Nat /\ GetLimit' <= GetLimit + 1
  BY <1>1, WholeSteps, Quotient DEF GetLimit
<1>3. LimitIncrementInflightFactor \in Nat \ {0} /\ MinimumLimit \in Nat
  BY AimdAssumption
<1>4. CASE limit' <= limit
  <2>1. GetLimit' * Precision <= limit' /\ limit < GetLimit * Precision + Precision
    BY <1>1, Quotient DEF GetLimit
  <2>2. (GetLimit + 1) * Precision = GetLimit * Precision + Precision
    BY <1>1, <1>2
  <2>3. GetLimit' * Precision < (GetLimit + 1) * Precision
    <3>1. GetLimit' * Precision \in Int /\ GetLimit * Precision \in Int
      BY <1>1, <1>2
    <3> QED
      BY <1>1, <1>4, <2>1, <2>2, <3>1
  <2>4. GetLimit' \in Int /\ GetLimit + 1 \in Int
    BY <1>2
  <2>5. GetLimit' < GetLimit + 1
    BY <1>1, <2>3, <2>4, Cancellation
  <2> QED
    BY <1>2, <2>5, FewerAreAskedFor
<1>5. CASE inflight > GetLimit * LimitIncrementInflightFactor
  <2>1. AskedFor(GetLimit + 1, n)
    <3>1. GetLimit * LimitIncrementInflightFactor < n
      <4>1. GetLimit * LimitIncrementInflightFactor \in Int
        BY <1>2, <1>3
      <4> QED
        BY <1>5, <4>1
    <3> QED
      BY <1>2, <3>1, OneMoreIsAskedFor
  <2> QED
    BY <1>2, <2>1, FewerAreAskedFor
<1>6. DecreaseLimit => limit' <= limit
  <2> DEFINE b == (limit * BackoffRatio) \div Precision
  <2>1. b <= limit /\ b \in Nat
    BY <1>1, BackingOff
  <2>2. Minimum \in Nat /\ Minimum <= limit
    BY MinimumIsPositive DEF NeverBelowMinimum
  <2>3. DecreaseLimit => limit' = Minimum \/ limit' = b
    BY DEF DecreaseLimit
  <2> HIDE DEF b
  <2> QED
    BY <1>1, <2>1, <2>2, <2>3
<1> QED
  BY <1>1, <1>4, <1>5, <1>6 DEF MeasureSample

LEMMA LimitStartsAtMinimum ==
  ASSUME LimitInit
  PROVE  GetLimit <= MinimumLimit
<1>1. Precision \in Nat \ {0} /\ MinimumLimit \in Nat
  BY AimdAssumption
<1>2. limit = MinimumLimit * Precision /\ limit \in Nat
  BY MinimumIsPositive DEF LimitInit, Minimum
<1>3. GetLimit \in Nat /\ GetLimit * Precision <= MinimumLimit * Precision
  BY <1>1, <1>2, Quotient DEF GetLimit
<1>4. (MinimumLimit + 1) * Precision = MinimumLimit * Precision + Precision
  BY <1>1
<1>5. GetLimit * Precision < (MinimumLimit + 1) * Precision
  <2>1. GetLimit * Precision \in Int
    BY <1>1, <1>3
  <2> QED
    BY <1>1, <1>2, <1>3, <1>4, <2>1
<1>6. GetLimit < MinimumLimit + 1
  BY <1>1, <1>3, <1>5, Cancellation
<1> QED
  BY <1>1, <1>3, <1>6

\* The limiter alone: above the minimum, the limit only is what calls in flight have
\* asked for, whatever the samples and their order (aimd.MeasureSample).
THEOREM LimitKeepsToDemand == LimitSpec => []NeverBeyondDemand
<1>0. MaxInflight \in Nat
  BY AimdAssumption
<1>1. LimitInit => NeverBeyondDemand
  BY LimitStartsAtMinimum DEF NeverBeyondDemand, AskedFor
<1>2. NeverBelowMinimum /\ NeverBeyondDemand /\ [LimitNext]_limit => NeverBeyondDemand'
  <2> SUFFICES ASSUME NeverBelowMinimum, NeverBeyondDemand, [LimitNext]_limit
               PROVE  NeverBeyondDemand'
    OBVIOUS
  <2>1. CASE LimitNext
    <3> PICK inflight \in 0 .. MaxInflight, result \in {"success", "failure", "ignore"},
             slow \in BOOLEAN : MeasureSample(inflight, result, slow)
      BY <2>1 DEF LimitNext
    <3>1. AskedFor(GetLimit', MaxInflight)
      BY <1>0, SamplesKeepToDemand DEF NeverBeyondDemand
    <3> QED
      BY <3>1 DEF NeverBeyondDemand, AskedFor
  <2>2. CASE UNCHANGED limit
    BY <2>2 DEF NeverBeyondDemand, AskedFor, GetLimit
  <2> QED
    BY <2>1, <2>2
<1> QED
  BY <1>1, <1>2, LimitKeepsMinimum, PTL DEF LimitSpec

-----------------------------------------------------------------------------
\* The strengthening of PoolKeepsMinimum: no limit that a caller still carries to
\* the pool is below the minimum either.
PoolInv ==
  /\ NeverBelowMinimum
  /\ newLimit \in [Calls -> Nat]
  /\ stage \in [Calls -> {"idle", "execute", "measure", "resize", "returned"}]
  /\ quantity \in Nat /\ PoolKeepsMinimum
  /\ \A c \in Calls : stage[c] = "resize" => newLimit[c] >= MinimumLimit

LEMMA GetLimitKeepsMinimum ==
  ASSUME NeverBelowMinimum
  PROVE  GetLimit \in Nat /\ GetLimit >= MinimumLimit
BY AimdAssumption, WholeUnits DEF NeverBelowMinimum, GetLimit, Minimum

LEMMA PoolInvHolds == Spec => []PoolInv
<1>1. Init => PoolInv
  <2> SUFFICES ASSUME Init PROVE PoolInv
    OBVIOUS
  <2>1. NeverBelowMinimum
    BY MinimumIsPositive DEF Init, LimitInit, NeverBelowMinimum
  <2> QED
    BY <2>1, GetLimitKeepsMinimum DEF Init, PoolInv, PoolKeepsMinimum
<1>2. PoolInv /\ [Next]_vars => PoolInv'
  <2> SUFFICES ASSUME PoolInv, [Next]_vars PROVE PoolInv'
    OBVIOUS
  <2>0. UNCHANGED limit => NeverBelowMinimum'
    BY DEF PoolInv, NeverBelowMinimum, Minimum
  <2>1. ASSUME NEW c \in Calls, Enter(c) \/ Leave(c) PROVE PoolInv'
    BY <2>0, <2>1 DEF PoolInv, PoolKeepsMinimum, Enter, Leave, At, GoTo, executorVars
  <2>2. ASSUME NEW c \in Calls, Rejected(c) \/ Answered(c) \/ StartFunc(c) PROVE PoolInv'
    BY <2>0, <2>2 DEF PoolInv, PoolKeepsMinimum, Rejected, Answered, StartFunc, runVars
  <2>3. ASSUME NEW c \in Calls, NEW outcome, FinishFunc(c, outcome) PROVE PoolInv'
    BY <2>0, <2>3 DEF PoolInv, PoolKeepsMinimum, FinishFunc
  <2>4. ASSUME NEW c \in Calls, Return(c), UNCHANGED quantity \/ quantity' = newLimit[c],
               quantity' \in Nat, quantity' >= MinimumLimit
        PROVE  PoolInv'
    BY <2>0, <2>4 DEF PoolInv, PoolKeepsMinimum, Return, GoTo, executorVars
  <2>5. ASSUME NEW c \in Calls, Ignore(c) PROVE PoolInv'
    BY <2>4, <2>5 DEF Ignore, PoolInv, PoolKeepsMinimum
  <2>6. ASSUME NEW c \in Calls, Measure(c) PROVE PoolInv'
    <3>1. NeverBelowMinimum'
      BY <2>6, SamplesKeepMinimum DEF Measure, PoolInv
    <3>2. GetLimit' \in Nat /\ GetLimit' >= MinimumLimit
      <4>1. limit' \in Nat /\ limit' >= MinimumLimit * Precision
        BY <3>1 DEF NeverBelowMinimum, Minimum
      <4> QED
        BY <4>1, AimdAssumption, WholeUnits DEF GetLimit
    <3> QED
      BY <2>6, <3>1, <3>2 DEF Measure, PoolInv, PoolKeepsMinimum, GoTo
  <2>7. ASSUME NEW c \in Calls, SetLimit(c) PROVE PoolInv'
    BY <2>4, <2>7 DEF SetLimit, PoolInv, At
  <2>8. ASSUME NEW c \in Calls, Recur(c) PROVE PoolInv'
    BY <2>0, <2>8 DEF PoolInv, PoolKeepsMinimum, Recur, GoTo
  <2>9. CASE UNCHANGED vars
    BY <2>0, <2>9 DEF PoolInv, PoolKeepsMinimum, vars, runVars
  <2> QED
    BY <2>1, <2>2, <2>3, <2>5, <2>6, <2>7, <2>8, <2>9 DEF Next, Run, Worker
<1> QED
  BY <1>1, <1>2, PTL DEF Spec

\* Whatever order the callers come to the pool in, it is never asked for fewer
\* workers than the minimum (concurrencylimit.Run).
THEOREM PoolIsNeverStarved == Spec => []PoolKeepsMinimum
<1>1. PoolInv => PoolKeepsMinimum
  BY DEF PoolInv
<1> QED
  BY <1>1, PoolInvHolds, PTL

-----------------------------------------------------------------------------
Submitted == {c \in Calls : stage[c] = "execute"}
Executing == {c \in Calls : func[c] = "running"}

CountInv ==
  /\ stage \in [Calls -> {"idle", "execute", "measure", "resize", "returned"}]
  /\ func \in [Calls -> {"notrun", "running", "finished"}]
  /\ inflights = Cardinality(Submitted)
  /\ executing = Cardinality(Executing)

\* A call that comes in is one more, a call that goes out is one less.
LEMMA OneMoreOrLess ==
  ASSUME NEW S, IsFiniteSet(S), NEW c
  PROVE  /\ c \notin S => Cardinality(S \cup {c}) = Cardinality(S) + 1
         /\ c \in S => Cardinality(S \ {c}) = Cardinality(S) - 1
BY FS_AddElement, FS_RemoveElement

LEMMA CountInvHolds == Spec => []CountInv
<1>1. Init => CountInv
  <2> SUFFICES ASSUME Init PROVE CountInv
    OBVIOUS
  <2>1. Submitted = {} /\ Executing = {}
    BY DEF Init, Executor!Init, Submitted, Executing
  <2>2. Cardinality({}) = 0
    BY FS_EmptySet
  <2> QED
    BY <2>1, <2>2 DEF Init, Executor!Init, CountInv
<1>2. CountInv /\ [Next]_vars => CountInv'
  <2> SUFFICES ASSUME CountInv, [Next]_vars PROVE CountInv'
    OBVIOUS
  <2>1. IsFiniteSet(Submitted) /\ IsFiniteSet(Executing)
    BY RunnerAssumption, FS_Subset DEF Submitted, Executing
  <2>2. UNCHANGED stage => Submitted' = Submitted
    BY DEF Submitted
  <2>3. UNCHANGED func => Executing' = Executing
    BY DEF Executing
  <2>4. ASSUME NEW c \in Calls, Enter(c) PROVE CountInv'
    <3>1. Submitted' = Submitted \cup {c} /\ c \notin Submitted
      BY <2>4 DEF CountInv, Enter, At, GoTo, Submitted
    <3>2. Cardinality(Submitted') = inflights'
      BY <2>1, <2>4, <3>1, OneMoreOrLess DEF CountInv, Enter
    <3> QED
      BY <2>3, <2>4, <3>2 DEF CountInv, Enter, GoTo, executorVars
  <2>5. ASSUME NEW c \in Calls, Leave(c) PROVE CountInv'
    <3>1. Submitted' = Submitted \ {c} /\ c \in Submitted
      BY <2>5 DEF CountInv, Leave, At, GoTo, Submitted
    <3>2. Cardinality(Submitted') = inflights'
      BY <2>1, <2>5, <3>1, OneMoreOrLess DEF CountInv, Leave
    <3> QED
      BY <2>3, <2>5, <3>2 DEF CountInv, Leave, GoTo, executorVars
  <2>6. ASSUME NEW c \in Calls, StartFunc(c) PROVE CountInv'
    <3>1. Executing' = Executing \cup {c} /\ c \notin Executing
      BY <2>6 DEF CountInv, StartFunc, Executor!Run, Executing
    <3>2. Cardinality(Executing') = executing'
      BY <2>1, <2>6, <3>1, OneMoreOrLess DEF CountInv, StartFunc
    <3> QED
      BY <2>2, <2>6, <3>2 DEF CountInv, StartFunc, Executor!Run, runVars
  <2>7. ASSUME NEW c \in Calls, NEW outcome, FinishFunc(c, outcome) PROVE CountInv'
    <3>1. Executing' = Executing \ {c} /\ c \in Executing
      BY <2>7 DEF CountInv, FinishFunc, Executor!Finish, Executing
    <3>2. Cardinality(Executing') = executing'
      BY <2>1, <2>7, <3>1, OneMoreOrLess DEF CountInv, FinishFunc
    <3> QED
      BY <2>2, <2>7, <3>2 DEF CountInv, FinishFunc, Executor!Finish
  \* A call between two places outside of Execute counts nowhere.
  <2>8. ASSUME NEW c \in Calls, stage[c] # "execute",
               NEW s \in {"idle", "measure", "resize", "returned"}, GoTo(c, s),
               Executing' = Executing, func' \in [Calls -> {"notrun", "running", "finished"}],
               UNCHANGED <<inflights, executing>>
        PROVE  CountInv'
    <3>1. Submitted' = Submitted
      BY <2>8 DEF CountInv, GoTo, Submitted
    <3> QED
      BY <2>8, <3>1 DEF CountInv, GoTo
  <2>9. ASSUME NEW c \in Calls, Ignore(c) \/ Measure(c) \/ SetLimit(c) PROVE CountInv'
    <3>1. stage[c] # "execute" /\ UNCHANGED <<func, inflights, executing>>
      BY <2>9 DEF Ignore, Measure, SetLimit, Return, At, executorVars
    <3>2. GoTo(c, "resize") \/ GoTo(c, "returned")
      BY <2>9 DEF Ignore, Measure, SetLimit, Return
    <3>3. func' \in [Calls -> {"notrun", "running", "finished"}] /\ Executing' = Executing
      BY <2>3, <3>1 DEF CountInv
    <3> QED
      BY <2>8, <3>1, <3>2, <3>3
  <2>10. ASSUME NEW c \in Calls, Recur(c) PROVE CountInv'
    <3>1. /\ func[c] # "running" /\ func' = [func EXCEPT ![c] = "notrun"]
          /\ stage[c] # "execute" /\ GoTo(c, "idle") /\ UNCHANGED <<inflights, executing>>
      BY <2>10 DEF Recur, Executor!Again, At
    <3>2. func' \in [Calls -> {"notrun", "running", "finished"}] /\ Executing' = Executing
      BY <3>1 DEF CountInv, Executing
    <3> QED
      BY <2>8, <3>1, <3>2
  <2>11. ASSUME NEW c \in Calls, Rejected(c) \/ Answered(c) PROVE CountInv'
    BY <2>2, <2>3, <2>11
    DEF CountInv, Rejected, Answered, Executor!Reject, Executor!Answer, runVars
  <2>12. CASE UNCHANGED vars
    BY <2>2, <2>3, <2>12 DEF CountInv, vars, executorVars, runVars
  <2> QED
    BY <2>4, <2>5, <2>6, <2>7, <2>9, <2>10, <2>11, <2>12 DEF Next, Run, Worker
<1> QED
  BY <1>1, <1>2, PTL DEF Spec

\* For any executor and any number of calls, rejected, late and failed ones
\* included, the two counters are the numbers of calls they stand for
\* (concurrencylimit.Run with atomicCounter).
THEOREM CountersCount == Spec => []CountersAreExact
<1>1. CountInv => CountersAreExact
  BY DEF CountInv, CountersAreExact, Submitted, Executing
<1> QED
  BY <1>1, CountInvHolds, PTL

-----------------------------------------------------------------------------
\* The strengthening of PoolNeverOutgrowsCalls: neither the limit, nor a limit that
\* a caller still carries to the pool, nor the calls in flight that it still carries
\* to the limiter, are beyond the other calls.
Others == Cardinality(Calls) - 1

DemandInv ==
  /\ AskedFor(GetLimit, Others)
  /\ AskedFor(quantity, Others)
  /\ currentInflights \in [Calls -> Int]
  /\ \A c \in Calls : stage[c] = "measure" => currentInflights[c] <= Others
  /\ \A c \in Calls : stage[c] = "resize" => AskedFor(newLimit[c], Others)

LEMMA OthersAreCounted == Others \in Int
BY RunnerAssumption, FS_CardinalityType DEF Others

LEMMA DemandInitially == Init => DemandInv
<1> SUFFICES ASSUME Init PROVE DemandInv
  OBVIOUS
<1>1. GetLimit <= MinimumLimit
  BY LimitStartsAtMinimum DEF Init
<1> QED
  BY <1>1 DEF Init, DemandInv, AskedFor

\* With the invariants of the theorems above, every step keeps it.
LEMMA StepsKeepDemand ==
  PoolInv /\ CountInv /\ DemandInv /\ [Next]_vars => DemandInv'
<1> SUFFICES ASSUME PoolInv, CountInv, DemandInv, [Next]_vars PROVE DemandInv'
  OBVIOUS
<1> USE OthersAreCounted
<1>0. Others' = Others
  BY DEF Others
<1>1. ASSUME UNCHANGED <<limit, quantity>>,
             currentInflights' \in [Calls -> Int],
             \A c \in Calls : stage'[c] = "measure" => currentInflights'[c] <= Others,
             \A c \in Calls : stage'[c] = "resize" => AskedFor(newLimit'[c], Others)
      PROVE  DemandInv'
  BY <1>0, <1>1 DEF DemandInv, AskedFor, GetLimit
<1>2. ASSUME NEW c \in Calls, Enter(c) \/ Recur(c) PROVE DemandInv'
  BY <1>1, <1>2 DEF PoolInv, DemandInv, Enter, Recur, GoTo
<1>3. ASSUME NEW c \in Calls, Leave(c) PROVE DemandInv'
  <2>1. inflights - 1 <= Others /\ inflights - 1 \in Int
    <3>1. Submitted \subseteq Calls
      BY DEF Submitted
    <3>2. Cardinality(Submitted) <= Cardinality(Calls) /\ Cardinality(Submitted) \in Nat
      BY <3>1, RunnerAssumption, FS_Subset, FS_CardinalityType
    <3>3. Cardinality(Calls) \in Nat
      BY RunnerAssumption, FS_CardinalityType
    <3> QED
      BY <3>2, <3>3 DEF CountInv, Others
  <2> QED
    BY <1>1, <1>3, <2>1 DEF PoolInv, DemandInv, Leave, GoTo
<1>4. ASSUME NEW c \in Calls, Rejected(c) \/ Answered(c) \/ StartFunc(c) PROVE DemandInv'
  BY <1>1, <1>4 DEF DemandInv, Rejected, Answered, StartFunc, runVars
<1>5. ASSUME NEW c \in Calls, NEW outcome, FinishFunc(c, outcome) PROVE DemandInv'
  BY <1>1, <1>5 DEF DemandInv, FinishFunc
<1>6. ASSUME NEW c \in Calls, Ignore(c) PROVE DemandInv'
  BY <1>1, <1>6 DEF PoolInv, DemandInv, Ignore, Return, GoTo
<1>7. ASSUME NEW c \in Calls, Measure(c) PROVE DemandInv'
  <2>1. currentInflights[c] <= Others /\ currentInflights[c] \in Int
    BY <1>7 DEF DemandInv, Measure, At
  <2>2. AskedFor(GetLimit', Others)
    BY <1>7, <2>1, SamplesKeepToDemand DEF Measure, PoolInv, DemandInv
  <2>3. \A d \in Calls : stage'[d] = "resize" => AskedFor(newLimit'[d], Others)
    BY <1>7, <2>2 DEF Measure, PoolInv, DemandInv, GoTo
  <2>4. \A d \in Calls : stage'[d] = "measure" => currentInflights'[d] <= Others
    BY <1>7 DEF Measure, PoolInv, DemandInv, GoTo
  <2> QED
    BY <1>0, <1>7, <2>2, <2>3, <2>4 DEF Measure, DemandInv, AskedFor
<1>8. ASSUME NEW c \in Calls, SetLimit(c) PROVE DemandInv'
  <2>1. UNCHANGED limit /\ quantity' = newLimit[c] /\ stage[c] = "resize"
    BY <1>8 DEF SetLimit, Return, At
  <2>2. AskedFor(quantity', Others)
    BY <2>1 DEF DemandInv
  <2>3. /\ currentInflights' \in [Calls -> Int]
        /\ \A d \in Calls : stage'[d] = "measure" => currentInflights'[d] <= Others
        /\ \A d \in Calls : stage'[d] = "resize" => AskedFor(newLimit'[d], Others)
    BY <1>8 DEF SetLimit, Return, PoolInv, DemandInv, GoTo
  <2> QED
    BY <1>0, <2>1, <2>2, <2>3 DEF DemandInv, AskedFor, GetLimit
<1>9. CASE UNCHANGED vars
  BY <1>1, <1>9 DEF DemandInv, vars, runVars
<1> QED
  BY <1>2, <1>3, <1>4, <1>5, <1>6, <1>7, <1>8, <1>9 DEF Next, Run, Worker

\* However the samples and the resizings of any number of callers overtake each
\* other, the pool above its minimum is only what the other calls ask for
\* (concurrencylimit.Run).
THEOREM PoolKeepsToDemand == Spec => []PoolNeverOutgrowsCalls
<1>1. DemandInv => PoolNeverOutgrowsCalls
  BY DEF DemandInv, PoolNeverOutgrowsCalls, Others
<1> QED
  BY <1>1, PoolInvHolds, CountInvHolds, DemandInitially, StepsKeepDemand, PTL DEF Spec

-----------------------------------------------------------------------------
LEMMA CallsAreBounded ==
  ASSUME CountInv
  PROVE  /\ inflights \in 0 .. MaxInflight /\ executing \in 0 .. MaxInflight
         /\ \A c \in Calls : stage[c] = "execute" => inflights > 0
<1>1. MaxInflight \in Nat
  BY AimdAssumption
<1>2. ASSUME NEW S, S \subseteq Calls PROVE Cardinality(S) \in 0 .. MaxInflight
  <2>1. IsFiniteSet(S) /\ Cardinality(S) <= Cardinality(Calls)
    BY <1>2, RunnerAssumption, FS_Subset
  <2>2. Cardinality(S) \in Nat /\ Cardinality(Calls) \in Nat
    BY <2>1, RunnerAssumption, FS_CardinalityType
  <2> QED
    BY <1>1, <2>1, <2>2, RunnerAssumption
<1>3. Submitted \subseteq Calls /\ Executing \subseteq Calls
  BY DEF Submitted, Executing
<1>4. ASSUME NEW c \in Calls, stage[c] = "execute" PROVE inflights > 0
  <2>1. Submitted # {} /\ IsFiniteSet(Submitted)
    BY <1>3, <1>4, RunnerAssumption, FS_Subset DEF Submitted
  <2>2. Cardinality(Submitted) # 0 /\ Cardinality(Submitted) \in Nat
    BY <2>1, FS_EmptySet, FS_CardinalityType
  <2> QED
    BY <2>2 DEF CountInv
<1> QED
  BY <1>2, <1>3, <1>4 DEF CountInv

\* What the invariants above do not say of the types.
AnswerTypes ==
  /\ reply \in [Calls -> {"none", "result", "rejected"}]
  /\ err \in [Calls -> {"nil", "failure", "ErrRejectedExecution"}]
  /\ currentInflights \in [Calls -> 0 .. MaxInflight]

\* No call takes the counters or the limit out of their range: the counters are not
\* decremented more often than incremented, and what a call carries to the limiter
\* is a number of calls (concurrencylimit.Run).
THEOREM LimiterTypeCorrect == Spec => []TypeOK
<1>1. Init => AnswerTypes
  BY AimdAssumption DEF Init, Executor!Init, AnswerTypes
<1>2. CountInv /\ AnswerTypes /\ [Next]_vars => AnswerTypes'
  <2> SUFFICES ASSUME CountInv, AnswerTypes, [Next]_vars PROVE AnswerTypes'
    OBVIOUS
  <2>1. ASSUME NEW c \in Calls, Leave(c) PROVE AnswerTypes'
    <3>1. inflights - 1 \in 0 .. MaxInflight
      BY <2>1, CallsAreBounded, AimdAssumption DEF Leave, At
    <3> QED
      BY <2>1, <3>1 DEF AnswerTypes, Leave, executorVars
  <2>2. ASSUME NEW c \in Calls, Enter(c) \/ Measure(c) PROVE AnswerTypes'
    BY <2>2 DEF AnswerTypes, Enter, Measure, executorVars
  <2>3. ASSUME NEW c \in Calls, Rejected(c) \/ Answered(c) \/ StartFunc(c) \/ Recur(c)
        PROVE  AnswerTypes'
    BY <2>3 DEF AnswerTypes, Rejected, Answered, StartFunc, Recur, runVars,
                Executor!Reject, Executor!Answer, Executor!Run, Executor!Again
  <2>4. ASSUME NEW c \in Calls, NEW outcome \in {"nil", "failure"}, FinishFunc(c, outcome)
        PROVE  AnswerTypes'
    BY <2>4 DEF AnswerTypes, FinishFunc, Executor!Finish
  <2>5. ASSUME NEW c \in Calls, Ignore(c) \/ SetLimit(c) PROVE AnswerTypes'
    BY <2>5, AimdAssumption DEF AnswerTypes, Ignore, SetLimit, Return, executorVars
  <2>6. CASE UNCHANGED vars
    BY <2>6 DEF AnswerTypes, vars, runVars, executorVars
  <2> QED
    BY <2>1, <2>2, <2>3, <2>4, <2>5, <2>6 DEF Next, Run, Worker
<1>3. PoolInv /\ CountInv /\ AnswerTypes => TypeOK
  BY CallsAreBounded DEF PoolInv, CountInv, AnswerTypes, NeverBelowMinimum, TypeOK
<1> QED
  BY <1>1, <1>2, <1>3, PoolInvHolds, CountInvHolds, PTL DEF Spec
=============================================================================
