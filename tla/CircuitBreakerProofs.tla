------------------------ MODULE CircuitBreakerProofs ------------------------
(***************************************************************************)
(* Theorems about the circuit breaker and its metrics recorder, for any    *)
(* number of callers, any thresholds and any number of buckets.            *)
(***************************************************************************)
EXTENDS CircuitBreaker, FiniteSetTheorems, TLAPS

-----------------------------------------------------------------------------
\* Sum adds up finitely many units: it is a natural number.
LEMMA UnitsFinite ==
  ASSUME NEW f \in [Slot -> Nat]
  PROVE  IsFiniteSet(Units(f))
<1> DEFINE unit == [i \in Slot |-> {i} \X (1 .. f[i])]
           All == {unit[i] : i \in Slot}
<1>1. IsFiniteSet(Slot)
  BY WindowAssumption, FS_Interval DEF Slot
<1>2. unit \in Surjection(Slot, All)
  BY DEF Surjection
<1>3. IsFiniteSet(All)
  <2> HIDE DEF unit, All
  <2> QED BY <1>1, <1>2, FS_Surjection
<1>4. \A s \in All : IsFiniteSet(s)
  <2> SUFFICES ASSUME NEW i \in Slot PROVE IsFiniteSet({i} \X (1 .. f[i]))
    OBVIOUS
  <2>1. IsFiniteSet({i})
    BY FS_Singleton
  <2>2. f[i] \in Int
    OBVIOUS
  <2>3. IsFiniteSet(1 .. f[i])
    BY <2>2, FS_Interval
  <2> QED
    BY <2>1, <2>3, FS_Product
<1>5. IsFiniteSet(UNION All)
  <2> HIDE DEF All
  <2> QED BY <1>3, <1>4, FS_UNION
<1> QED
  BY <1>5 DEF Units

LEMMA SumType ==
  ASSUME NEW f \in [Slot -> Nat]
  PROVE  Sum(f) \in Nat
BY UnitsFinite, FS_CardinalityType DEF Sum

\* No value of f is more than its sum ...
LEMMA SumMonotone ==
  ASSUME NEW f \in [Slot -> Nat], NEW g \in [Slot -> Nat],
         \A i \in Slot : f[i] <= g[i]
  PROVE  Sum(f) <= Sum(g)
<1>1. ASSUME NEW i \in Slot PROVE {i} \X (1 .. f[i]) \subseteq {i} \X (1 .. g[i])
  <2>1. f[i] \in Nat /\ g[i] \in Nat /\ f[i] <= g[i]
    OBVIOUS
  <2>2. 1 .. f[i] \subseteq 1 .. g[i]
    BY <2>1
  <2> QED
    BY <2>2
<1>2. Units(f) \subseteq Units(g)
  BY <1>1 DEF Units
<1> QED
  BY <1>2, UnitsFinite, FS_Subset DEF Sum

\* ... and the sum is zero when all of them are.
LEMMA SumOfZeros ==
  ASSUME NEW f \in [Slot -> Nat], \A i \in Slot : f[i] = 0
  PROVE  Sum(f) = 0
<1>1. \A i \in Slot : 1 .. f[i] = {}
  OBVIOUS
<1>2. Units(f) = {}
  BY <1>1 DEF Units
<1> QED
  BY <1>2, FS_EmptySet DEF Sum

\* A sum of zero has no other terms.
LEMMA SumOfZerosOnly ==
  ASSUME NEW f \in [Slot -> Nat], Sum(f) = 0
  PROVE  \A i \in Slot : f[i] = 0
<1>1. Units(f) = {}
  BY UnitsFinite, FS_EmptySet DEF Sum
<1> SUFFICES ASSUME NEW i \in Slot, f[i] > 0 PROVE FALSE
  OBVIOUS
<1>2. <<i, 1>> \in Units(f)
  BY DEF Units
<1> QED
  BY <1>1, <1>2

\* One more in one place is one more in the sum.
LEMMA SumAddsOne ==
  ASSUME NEW f \in [Slot -> Nat], NEW g \in [Slot -> Nat], NEW cur \in Slot,
         \A i \in Slot : g[i] = IF i = cur THEN f[i] + 1 ELSE f[i]
  PROVE  Sum(g) = Sum(f) + 1
<1> DEFINE new == <<cur, f[cur] + 1>>
<1>1. Units(g) = Units(f) \cup {new}
  <2>1. \A i \in Slot : i # cur => {i} \X (1 .. g[i]) = {i} \X (1 .. f[i])
    OBVIOUS
  <2>2. {cur} \X (1 .. g[cur]) = ({cur} \X (1 .. f[cur])) \cup {new}
    <3>1. f[cur] \in Nat /\ g[cur] = f[cur] + 1
      OBVIOUS
    <3>2. 1 .. g[cur] = (1 .. f[cur]) \cup {f[cur] + 1}
      BY <3>1
    <3> QED
      BY <3>2
  <2>3. /\ Units(g) = UNION {{i} \X (1 .. g[i]) : i \in Slot}
        /\ Units(f) = UNION {{i} \X (1 .. f[i]) : i \in Slot}
    BY DEF Units
  <2> QED
    BY <2>1, <2>2, <2>3
<1>2. new \notin Units(f)
  <2>1. f[cur] \in Nat
    OBVIOUS
  <2> QED
    BY <2>1 DEF Units
<1>3. IsFiniteSet(Units(f))
  BY UnitsFinite
<1> DEFINE counted == Units(f)
<1>4. Sum(g) = Cardinality(counted \cup {new}) /\ Sum(f) = Cardinality(counted)
  BY <1>1 DEF Sum
<1> HIDE DEF counted, new
<1>5. Cardinality(counted \cup {new}) = Cardinality(counted) + 1
  BY <1>2, <1>3, FS_AddElement DEF counted
<1> QED
  BY <1>4, <1>5

-----------------------------------------------------------------------------
LEMMA EmptyBucketType == EmptyBucket \in Bucket
BY DEF EmptyBucket, Bucket

\* With two buckets or more the next slot to be replaced is always the oldest
\* one, the one after the current slot around the ring (windowSlider and reset).
THEOREM RingIsKept ==
  ASSUME WindowSize # 1
  PROVE  WindowSpec => []RingInv
<1>1. WindowInit => RingInv
  <2>1. EmptyWindow \in [Slot -> Bucket]
    BY EmptyBucketType DEF EmptyWindow
  <2>2. 0 \in Slot /\ (IF 0 + 1 = WindowSize THEN 0 ELSE 0 + 1) = 1
    BY WindowAssumption DEF Slot
  <2> QED
    BY <2>1, <2>2 DEF WindowInit, RingInv, WindowTypeOK
<1>2. RingInv /\ [WindowNext]_windowVars => RingInv'
  <2> SUFFICES ASSUME RingInv, [WindowNext]_windowVars PROVE RingInv'
    OBVIOUS
  <2> USE WindowAssumption DEF RingInv, WindowTypeOK, Slot
  <2>1. ASSUME NEW failed \in BOOLEAN, Inc(failed) PROVE RingInv'
    <3>1. [window EXCEPT ![currentBucket] =
             [total |-> @.total + 1, errs |-> @.errs + IF failed THEN 1 ELSE 0]]
          \in [Slot -> Bucket]
      BY DEF Bucket
    <3> QED
      BY <2>1, <3>1 DEF Inc
  <2>2. CASE Reset
    BY <2>2, EmptyBucketType DEF Reset, EmptyWindow
  <2>3. CASE Slide
    <3>1. [window EXCEPT ![nextIndexToReplace] = EmptyBucket] \in [Slot -> Bucket]
      BY EmptyBucketType
    <3> QED
      BY <2>3, <3>1 DEF Slide
  <2>4. CASE UNCHANGED windowVars
    BY <2>4 DEF windowVars
  <2> QED
    BY <2>1, <2>2, <2>3, <2>4 DEF WindowNext
<1> QED
  BY <1>1, <1>2, PTL DEF WindowSpec

\* Hence the slider goroutine never indexes outside the ring.
THEOREM SliderIsSafe ==
  ASSUME WindowSize # 1
  PROVE  WindowSpec => []NoPanic
<1>1. RingInv => NoPanic
  BY DEF RingInv, NoPanic
<1> QED
  BY <1>1, RingIsKept, PTL

\* And the ring implements the sliding window: a result is forgotten at the
\* WindowSize-th tick after it was recorded, and never before.
THEOREM RingImplementsWindow ==
  ASSUME WindowSize # 1
  PROVE  WindowSpec => SlidesAsDocumented
<1> DEFINE recent == [a \in Slot |-> window[SlotOfAge(a)]]
<1>1. WindowInit => Recorder!Init
  BY WindowAssumption DEF WindowInit, Recorder!Init, Recorder!Age, Recorder!NoResults,
       SlotOfAge, EmptyWindow, EmptyBucket, Slot
<1>2. RingInv /\ [WindowNext]_windowVars => [Recorder!Next]_recent
  <2> SUFFICES ASSUME RingInv, [WindowNext]_windowVars
               PROVE  Recorder!Next \/ recent' = recent
    OBVIOUS
  <2> USE WindowAssumption DEF RingInv, WindowTypeOK, Slot
  <2>1. \A a \in Slot : SlotOfAge(a) \in Slot
    BY DEF SlotOfAge
  <2>2. ASSUME NEW failed \in BOOLEAN, Inc(failed) PROVE Recorder!Record(failed)
    <3>1. \A a \in Slot : SlotOfAge(a) = currentBucket <=> a = 0
      BY DEF SlotOfAge
    <3>2. \A a \in Slot : SlotOfAge(a)' = SlotOfAge(a)
      BY <2>2 DEF Inc, SlotOfAge
    <3> QED
      BY <2>1, <2>2, <3>1, <3>2 DEF Inc, Recorder!Record
  <2>3. CASE Reset
    <3>1. \A a \in Slot : SlotOfAge(a)' \in Slot
      BY <2>3 DEF Reset, SlotOfAge
    <3>2. \A i \in Slot : window'[i] = Recorder!NoResults
      BY <2>3 DEF Reset, EmptyWindow, EmptyBucket, Recorder!NoResults
    <3> QED
      BY <3>1, <3>2 DEF Recorder!Next, Recorder!Forget, Recorder!Age
  <2>4. CASE Slide
    <3>1. /\ window' = [window EXCEPT ![nextIndexToReplace] = EmptyBucket]
          /\ currentBucket' = nextIndexToReplace
          /\ nextIndexToReplace \in Slot
      BY <2>4 DEF Slide
    <3>2. SlotOfAge(0)' = nextIndexToReplace
      BY <3>1 DEF SlotOfAge
    <3>3. ASSUME NEW a \in Slot, a # 0
          PROVE  /\ SlotOfAge(a)' = SlotOfAge(a - 1)
                 /\ a - 1 \in Slot
                 /\ SlotOfAge(a - 1) # nextIndexToReplace
      BY <3>1, <3>3 DEF SlotOfAge
    <3>4. \A a \in Slot : window'[SlotOfAge(a)'] =
            IF a = 0 THEN Recorder!NoResults ELSE window[SlotOfAge(a - 1)]
      BY <2>1, <3>1, <3>2, <3>3 DEF EmptyBucket, Recorder!NoResults
    <3>5. \A a \in Slot : a # 0 => recent[a - 1] = window[SlotOfAge(a - 1)]
      BY <3>3
    <3>6. recent' = [a \in Slot |-> window'[SlotOfAge(a)']]
      OBVIOUS
    <3>7. recent' = [a \in Slot |-> IF a = 0 THEN Recorder!NoResults ELSE recent[a - 1]]
      BY <3>4, <3>5, <3>6
    <3> QED
      BY <3>7 DEF Recorder!Next, Recorder!Tick, Recorder!Age
  <2>5. CASE UNCHANGED windowVars
    <3>1. \A a \in Slot : SlotOfAge(a)' = SlotOfAge(a)
      BY <2>5 DEF windowVars, SlotOfAge
    <3> QED
      BY <2>5, <3>1 DEF windowVars
  <2> QED
    BY <2>2, <2>3, <2>4, <2>5 DEF WindowNext, Recorder!Next
<1> QED
  BY <1>1, <1>2, RingIsKept, PTL DEF WindowSpec, SlidesAsDocumented, Recorder!Spec

-----------------------------------------------------------------------------
\* What a step of the recorder does to the window's type.
LEMMA WindowStepsKeepType ==
  ASSUME WindowTypeOK,
         \/ \E failed \in BOOLEAN : Inc(failed)
         \/ Reset
         \/ Slide
         \/ UNCHANGED windowVars
  PROVE  WindowTypeOK'
<1> USE WindowAssumption DEF WindowTypeOK, Slot
<1>1. ASSUME NEW failed \in BOOLEAN, Inc(failed) PROVE WindowTypeOK'
  <2>1. [window EXCEPT ![currentBucket] =
           [total |-> @.total + 1, errs |-> @.errs + IF failed THEN 1 ELSE 0]]
        \in [Slot -> Bucket]
    BY DEF Bucket
  <2> QED
    BY <1>1, <2>1 DEF Inc
<1>2. CASE Reset
  <2>1. EmptyWindow \in [Slot -> Bucket]
    BY EmptyBucketType DEF EmptyWindow
  <2> QED
    BY <1>2, <2>1 DEF Reset
<1>3. CASE Slide
  <2>1. CASE nextIndexToReplace \in Slot
    <3>1. [window EXCEPT ![nextIndexToReplace] = EmptyBucket] \in [Slot -> Bucket]
      BY EmptyBucketType
    <3> QED
      BY <1>3, <2>1, <3>1 DEF Slide
  <2>2. CASE nextIndexToReplace \notin Slot
    BY <1>3, <2>2 DEF Slide
  <2> QED
    BY <2>1, <2>2
<1>4. CASE UNCHANGED windowVars
  BY <1>4 DEF windowVars
<1> QED
  BY <1>1, <1>2, <1>3, <1>4

-----------------------------------------------------------------------------
LEMMA EnoughIsEnough ==
  /\ Enough \in Nat \ {0}
  /\ Enough >= MinimumRequestToOpen /\ Enough >= SuccessfulRequiredOnHalfOpen
BY BreakerAssumption DEF Enough

\* Type correctness of the breaker.
THEOREM TypeCorrect == Spec => []TypeOK
<1>1. Init => TypeOK
  <2> SUFFICES ASSUME Init PROVE TypeOK
    OBVIOUS
  <2>1. WindowTypeOK
    <3>1. EmptyWindow \in [Slot -> Bucket]
      BY EmptyBucketType DEF EmptyWindow
    <3>2. 0 \in Slot
      BY WindowAssumption DEF Slot
    <3> QED
      BY <3>1, <3>2 DEF Init, WindowInit, WindowTypeOK
  <2> QED
    BY <2>1 DEF Init, TypeOK, States, Sections
<1>2. TypeOK /\ [Next]_vars => TypeOK'
  <2> SUFFICES ASSUME TypeOK, [Next]_vars PROVE TypeOK'
    OBVIOUS
  <2> DEFINE callers == /\ pc \in [Callers -> Sections]
                        /\ err \in [Callers -> {"nil", "failure", "ErrCircuitOpen"}]
                        /\ target \in [Callers -> States]
             circuit == /\ state \in States
                        /\ waited \in BOOLEAN
                        /\ everFailed \in BOOLEAN
                        /\ results \in Nat
                        /\ failures \in Nat
                        /\ lastFailed \in BOOLEAN
                        /\ kept \in {"all", "some", "none"}
                        /\ rejections \in Nat
  <2>1. UNCHANGED windowVars => WindowTypeOK'
    BY WindowStepsKeepType DEF TypeOK
  <2>2. ASSUME NEW c \in Callers, Call(c) PROVE TypeOK'
    <3> USE DEF TypeOK, At, GoTo, stateVars, historyVars, evidence
    <3>1. ASSUME NEW new \in States, DecideToMove(c, new) PROVE TypeOK'
      BY <2>1, <3>1 DEF DecideToMove, Sections
    <3>2. ASSUME NEW section \in Sections, GoTo(c, section), Reads PROVE TypeOK'
      BY <2>1, <3>2 DEF Reads
    <3>3. CASE PreDecide(c)
      BY <2>1, <3>3 DEF PreDecide, Sections
    <3>4. CASE SinceStateStart(c)
      BY <3>1, <3>2, <3>4 DEF SinceStateStart, Sections, States
    <3>5. CASE Execute(c)
      BY <2>1, <3>2, <3>5 DEF Execute, Sections
    <3>6. ASSUME NEW outcome \in {"nil", "failure"}, RunFunc(c, outcome) PROVE TypeOK'
      BY <2>1, <3>6 DEF RunFunc, Sections
    <3>7. CASE RecordResult(c)
      <4>1. Inc(err[c] # "nil") /\ (err[c] # "nil") \in BOOLEAN
        BY <3>7 DEF RecordResult
      <4>2. WindowTypeOK'
        BY <4>1, WindowStepsKeepType
      <4>3. results' \in Nat /\ failures' \in Nat /\ kept' \in {"all", "some", "none"}
        BY <3>7, EnoughIsEnough DEF RecordResult, UpTo
      <4> QED
        BY <3>7, <4>2, <4>3 DEF RecordResult, Sections
    <3>8. CASE PostDecide(c)
      BY <3>2, <3>8 DEF PostDecide, Sections, States
    <3>9. CASE HalfOpenTotal(c)
      BY <3>2, <3>9 DEF HalfOpenTotal, Sections
    <3>10. CASE HalfOpenRate(c)
      BY <3>1, <3>10 DEF HalfOpenRate, States
    <3>11. CASE ClosedTotal(c)
      BY <3>2, <3>11 DEF ClosedTotal, Sections
    <3>12. CASE ClosedRate(c)
      BY <3>1, <3>2, <3>12 DEF ClosedRate, Sections, States
    <3>13. CASE MoveState(c)
      <4>1. WindowTypeOK'
        BY <2>1, <3>13, WindowStepsKeepType DEF MoveState
      <4>2. callers'
        BY <3>13 DEF MoveState, AfterMove, Sections
      <4>3. circuit'
        <5>1. CASE state # target[c]
          <6>1. ChangeState(target[c]) /\ everFailed' = everFailed
            BY <3>13, <5>1 DEF MoveState
          <6>2. target[c] \in States
            OBVIOUS
          <6> QED
            BY <6>1, <6>2 DEF ChangeState
        <5>2. CASE state = target[c]
          BY <3>13, <5>2 DEF MoveState
        <5> QED
          BY <5>1, <5>2
      <4> QED
        BY <4>1, <4>2, <4>3
    <3> QED
      BY <2>2, <3>3, <3>4, <3>5, <3>6, <3>7, <3>8, <3>9, <3>10, <3>11, <3>12, <3>13 DEF Call
  <2>3. CASE WindowSlider
    <3>1. WindowTypeOK'
      BY <2>3, WindowStepsKeepType DEF WindowSlider, TypeOK
    <3>2. results' \in Nat /\ failures' \in Nat /\ kept' \in {"all", "some", "none"}
      BY <2>3, EnoughIsEnough DEF WindowSlider, UpTo, TypeOK
    <3> QED
      BY <2>3, <3>1, <3>2 DEF WindowSlider, TypeOK, stateVars, callVars
  <2>4. CASE WaitElapses
    BY <2>1, <2>4 DEF WaitElapses, TypeOK, callVars, historyVars, evidence
  <2>5. CASE UNCHANGED vars
    BY <2>1, <2>5 DEF vars, windowVars, TypeOK
  <2> QED
    BY <2>2, <2>3, <2>4, <2>5 DEF Next
<1> QED
  BY <1>1, <1>2, PTL DEF Spec

-----------------------------------------------------------------------------
\* The strengthening of HealthyNeverTrips: as long as no function has failed, no
\* bucket holds an error, and no caller is on a path that could move the circuit.
HealthyInv ==
  ~ everFailed =>
    /\ state = "closed"
    /\ \A i \in Slot : window[i].errs = 0
    /\ \A c \in Callers : /\ err[c] = "nil"
                          /\ pc[c] \notin {"sinceStart", "halfTotal", "halfRate", "move"}

\* A window without errors reaches no threshold: with requests in it its rate is
\* zero, and without requests the rate is NaN, which compares false.
LEMMA NoErrorsNoThreshold ==
  ASSUME WindowTypeOK, \A i \in Slot : window[i].errs = 0
  PROVE  ~ ErrorRateAtLeast(window, ErrorPercentThresholdToOpen)
<1> DEFINE errs == [i \in Slot |-> window[i].errs]
           totals == [i \in Slot |-> window[i].total]
<1>1. errs \in [Slot -> Nat] /\ totals \in [Slot -> Nat]
  BY DEF WindowTypeOK, Bucket
<1>2. DOMAIN window = Slot
  BY DEF WindowTypeOK
<1>3. Errors(window) = 0
  <2>1. Sum(errs) = 0
    BY <1>1, SumOfZeros
  <2> QED
    BY <1>2, <2>1 DEF Errors
<1>4. TotalRequests(window) \in Nat
  <2>1. Sum(totals) \in Nat
    BY <1>1, SumType
  <2> QED
    BY <1>2, <2>1 DEF TotalRequests
<1>5. ASSUME TotalRequests(window) > 0
      PROVE  0 * 100 < ErrorPercentThresholdToOpen * TotalRequests(window)
  <2> DEFINE total == TotalRequests(window)
  <2>1. ErrorPercentThresholdToOpen \in Nat /\ ErrorPercentThresholdToOpen > 0
    BY BreakerAssumption
  <2>2. total \in Nat /\ total > 0
    BY <1>4, <1>5
  <2> HIDE DEF total
  <2>3. ErrorPercentThresholdToOpen * total > 0
    BY <2>1, <2>2
  <2> QED
    BY <2>3 DEF total
<1> DEFINE product == ErrorPercentThresholdToOpen * TotalRequests(window)
<1>6. product \in Int
  BY <1>4, BreakerAssumption
<1> QED
  BY <1>3, <1>5, <1>6 DEF ErrorRateAtLeast

\* A circuit whose functions have never failed is closed, for any number of
\* callers in any interleaving with the slider.
THEOREM HealthyStaysClosed == Spec => []HealthyNeverTrips
<1>1. Init => HealthyInv
  BY DEF Init, WindowInit, HealthyInv, EmptyWindow, EmptyBucket
<1>2. TypeOK /\ HealthyInv /\ [Next]_vars => HealthyInv'
  <2> SUFFICES ASSUME TypeOK, HealthyInv, [Next]_vars, ~ everFailed' PROVE HealthyInv'
    BY DEF HealthyInv
  <2>1. ~ everFailed
    BY DEF Next, Call, PreDecide, SinceStateStart, Execute, RunFunc, RecordResult,
         PostDecide, HalfOpenTotal, HalfOpenRate, ClosedTotal, ClosedRate, MoveState,
         WindowSlider, WaitElapses, Reads, DecideToMove, historyVars, vars
  <2> USE DEF HealthyInv
  <2>2. ASSUME NEW c \in Callers, Call(c) PROVE HealthyInv'
    <3> USE DEF TypeOK, At, GoTo, stateVars, windowVars
    <3>1. CASE PreDecide(c)
      BY <2>1, <3>1 DEF PreDecide
    <3>2. CASE Execute(c)
      BY <2>1, <3>2 DEF Execute, Reads
    <3>3. ASSUME NEW outcome \in {"nil", "failure"}, RunFunc(c, outcome) PROVE HealthyInv'
      BY <2>1, <3>3 DEF RunFunc
    <3>4. CASE RecordResult(c)
      <4>1. /\ err[c] = "nil"
            /\ window' = [window EXCEPT ![currentBucket] =
                            [total |-> @.total + 1,
                             errs |-> @.errs + IF FALSE THEN 1 ELSE 0]]
        BY <2>1, <3>4 DEF RecordResult, Inc
      <4>2. \A i \in Slot : window'[i].errs = 0
        BY <2>1, <4>1 DEF WindowTypeOK, Bucket
      <4> QED
        BY <2>1, <3>4, <4>2 DEF RecordResult
    <3>5. CASE PostDecide(c)
      BY <2>1, <3>5 DEF PostDecide, Reads
    <3>6. CASE ClosedTotal(c)
      BY <2>1, <3>6 DEF ClosedTotal, Reads
    <3>7. CASE ClosedRate(c)
      <4>1. ~ ErrorRateAtLeast(window, ErrorPercentThresholdToOpen)
        BY <2>1, NoErrorsNoThreshold
      <4> QED
        BY <2>1, <3>7, <4>1 DEF ClosedRate, Reads
    <3>8. ~ (SinceStateStart(c) \/ HalfOpenTotal(c) \/ HalfOpenRate(c) \/ MoveState(c))
      BY <2>1 DEF SinceStateStart, HalfOpenTotal, HalfOpenRate, MoveState
    <3> QED
      BY <2>2, <3>1, <3>2, <3>3, <3>4, <3>5, <3>6, <3>7, <3>8 DEF Call
  <2>3. CASE WindowSlider
    <3>1. \A i \in Slot : window'[i].errs = 0
      BY <2>1, <2>3 DEF WindowSlider, Slide, EmptyBucket, TypeOK, WindowTypeOK
    <3> QED
      BY <2>1, <2>3, <3>1 DEF WindowSlider, stateVars, callVars
  <2>4. CASE WaitElapses
    BY <2>1, <2>4 DEF WaitElapses, windowVars, callVars
  <2>5. CASE UNCHANGED vars
    BY <2>1, <2>5 DEF vars
  <2> QED
    BY <2>2, <2>3, <2>4, <2>5 DEF Next
<1>3. HealthyInv => HealthyNeverTrips
  BY DEF HealthyInv, HealthyNeverTrips
<1> QED
  BY <1>1, <1>2, <1>3, TypeCorrect, PTL DEF Spec

-----------------------------------------------------------------------------
LEMMA CountsType ==
  ASSUME NEW w \in [Slot -> Bucket]
  PROVE  /\ [i \in Slot |-> w[i].total] \in [Slot -> Nat]
         /\ [i \in Slot |-> w[i].errs] \in [Slot -> Nat]
         /\ TotalRequests(w) = Sum([i \in Slot |-> w[i].total])
         /\ Errors(w) = Sum([i \in Slot |-> w[i].errs])
         /\ TotalRequests(w) \in Nat /\ Errors(w) \in Nat
<1>1. /\ [i \in Slot |-> w[i].total] \in [Slot -> Nat]
      /\ [i \in Slot |-> w[i].errs] \in [Slot -> Nat]
  BY DEF Bucket
<1> QED
  BY <1>1, SumType DEF TotalRequests, Errors

\* A result counts once, and once as an error if it is one.
LEMMA IncCountsOne ==
  ASSUME WindowTypeOK, NEW failed \in BOOLEAN, Inc(failed)
  PROVE  /\ TotalRequests(window') = TotalRequests(window) + 1
         /\ Errors(window') = IF failed THEN Errors(window) + 1 ELSE Errors(window)
<1> DEFINE totals  == [i \in Slot |-> window[i].total]
           totals2 == [i \in Slot |-> window'[i].total]
           errs    == [i \in Slot |-> window[i].errs]
           errs2   == [i \in Slot |-> window'[i].errs]
           cur == currentBucket
<1>1. window' \in [Slot -> Bucket] /\ window \in [Slot -> Bucket] /\ cur \in Slot
  BY WindowStepsKeepType DEF WindowTypeOK
<1>2. /\ totals \in [Slot -> Nat] /\ totals2 \in [Slot -> Nat]
      /\ errs \in [Slot -> Nat] /\ errs2 \in [Slot -> Nat]
  BY <1>1, CountsType
<1>3. \A i \in Slot : totals2[i] = IF i = cur THEN totals[i] + 1 ELSE totals[i]
  BY <1>1 DEF Inc, Bucket
<1>4. \A i \in Slot : errs2[i] = IF i = cur /\ failed THEN errs[i] + 1 ELSE errs[i]
  BY <1>1 DEF Inc, Bucket
<1>5. /\ TotalRequests(window) = Sum(totals) /\ TotalRequests(window') = Sum(totals2)
      /\ Errors(window) = Sum(errs) /\ Errors(window') = Sum(errs2)
  BY <1>1, CountsType
<1> HIDE DEF totals, totals2, errs, errs2
<1>6. Sum(totals2) = Sum(totals) + 1
  BY <1>1, <1>2, <1>3, SumAddsOne
<1>7. CASE failed
  <2>1. Sum(errs2) = Sum(errs) + 1
    BY <1>1, <1>2, <1>4, <1>7, SumAddsOne
  <2> QED
    BY <1>5, <1>6, <1>7, <2>1
<1>8. CASE ~ failed
  <2>1. errs2 = errs
    BY <1>2, <1>4, <1>8
  <2> QED
    BY <1>5, <1>6, <1>8, <2>1
<1> QED
  BY <1>7, <1>8

\* A caller that comes late to moveState never throws recorded results away.
THEOREM LateMoversAreHarmless == Spec => LateMoverKeepsRecords
<1> DEFINE Kept == state' = state /\ ~ WindowSlider
                     => TotalRequests(window') >= TotalRequests(window)
<1>1. TypeOK /\ [Next]_vars => [Kept]_vars
  <2> SUFFICES ASSUME TypeOK, Next, state' = state, ~ WindowSlider
               PROVE  TotalRequests(window') >= TotalRequests(window)
    OBVIOUS
  <2>1. CASE window' = window
    <3>1. TotalRequests(window) \in Nat
      BY CountsType DEF TypeOK, WindowTypeOK
    <3> QED
      BY <2>1, <3>1
  <2>2. CASE \E c \in Callers : RecordResult(c)
    <3>1. PICK c \in Callers : RecordResult(c)
      BY <2>2
    <3>2. Inc(err[c] # "nil") /\ (err[c] # "nil") \in BOOLEAN
      BY <3>1 DEF RecordResult
    <3>3. TotalRequests(window') = TotalRequests(window) + 1
      BY <3>2, IncCountsOne DEF TypeOK
    <3>4. TotalRequests(window) \in Nat
      BY CountsType DEF TypeOK, WindowTypeOK
    <3> QED
      BY <3>3, <3>4
  <2>3. window' = window \/ \E c \in Callers : RecordResult(c)
    BY DEF Next, Call, PreDecide, SinceStateStart, Execute, RunFunc, PostDecide,
         HalfOpenTotal, HalfOpenRate, ClosedTotal, ClosedRate, MoveState, ChangeState,
         WaitElapses, Reads, DecideToMove, windowVars, stateVars, TypeOK
  <2> QED
    BY <2>1, <2>2, <2>3
<1> QED
  BY <1>1, TypeCorrect, PTL DEF Spec, LateMoverKeepsRecords

-----------------------------------------------------------------------------
\* The callers that are about to record a rejection.
Rejecting == {c \in Callers : pc[c] = "inc" /\ err[c] = "ErrCircuitOpen"}

\* The strengthening of LateRejectionsAreFew: the rejections still to come count
\* too. Outside of the open state nobody joins those callers, and the one that
\* moved the circuit there is not among them.
LateInv ==
  /\ state = "open" => rejections = 0
  /\ state # "open" => rejections + Cardinality(Rejecting) < Cardinality(Callers)

LEMMA RejectingIsFinite ==
  /\ IsFiniteSet(Rejecting) /\ Cardinality(Rejecting) \in Nat
  /\ Cardinality(Callers) \in Nat /\ Cardinality(Callers) > 0
<1>1. Rejecting \in SUBSET Callers
  BY DEF Rejecting
<1> QED
  BY <1>1, CallersAssumption, FS_Subset, FS_EmptySet, FS_CardinalityType

\* For any number of callers, however late they come to the recorder, fewer
\* rejections than callers are counted in a state that executes functions.
THEOREM FewLateRejections == Spec => []LateRejectionsAreFew
<1>1. Init => LateInv
  <2> SUFFICES ASSUME Init PROVE LateInv
    OBVIOUS
  <2>1. Rejecting = {}
    BY DEF Init, Rejecting
  <2>2. Cardinality(Rejecting) = 0
    BY <2>1, FS_EmptySet
  <2> QED
    BY <2>2, RejectingIsFinite DEF Init, LateInv
<1>2. TypeOK /\ LateInv /\ [Next]_vars => LateInv'
  <2> SUFFICES ASSUME TypeOK, LateInv, [Next]_vars PROVE LateInv'
    OBVIOUS
  <2> USE RejectingIsFinite
  \* A step that stays in its state, rejects nobody new and counts nothing.
  <2>1. ASSUME UNCHANGED <<state, rejections>>, Rejecting' = Rejecting PROVE LateInv'
    BY <2>1 DEF LateInv
  <2>2. ASSUME NEW c \in Callers, NEW section \in Sections \ {"inc"},
               pc[c] # "inc", GoTo(c, section), UNCHANGED <<state, rejections>>,
               \A d \in Callers : d # c => err'[d] = err[d]
        PROVE  LateInv'
    <3>1. Rejecting' = Rejecting
      BY <2>2 DEF GoTo, Rejecting, TypeOK
    <3> QED
      BY <2>1, <2>2, <3>1
  <2>3. ASSUME NEW c \in Callers, Execute(c) PROVE LateInv'
    <3>1. CASE state = "open"
      BY <2>3, <3>1 DEF Execute, LateInv, stateVars, historyVars
    <3>2. CASE state # "open"
      BY <2>2, <2>3, <3>2 DEF Execute, Reads, At, stateVars, historyVars, Sections
    <3> QED
      BY <3>1, <3>2
  <2>4. ASSUME NEW c \in Callers, NEW outcome \in {"nil", "failure"}, RunFunc(c, outcome)
        PROVE  LateInv'
    <3>1. Rejecting' = Rejecting
      BY <2>4 DEF RunFunc, At, GoTo, Rejecting, TypeOK
    <3> QED
      BY <2>1, <2>4, <3>1 DEF RunFunc, stateVars
  <2>5. ASSUME NEW c \in Callers, RecordResult(c) PROVE LateInv'
    <3>1. CASE err[c] = "ErrCircuitOpen"
      <4>1. Rejecting' = Rejecting \ {c} /\ c \in Rejecting
        BY <2>5, <3>1 DEF RecordResult, At, GoTo, Rejecting, TypeOK
      <4>2. Cardinality(Rejecting') = Cardinality(Rejecting) - 1
        BY <4>1, FS_RemoveElement
      <4> QED
        BY <2>5, <3>1, <4>2 DEF RecordResult, LateInv, stateVars, TypeOK
    <3>2. CASE err[c] # "ErrCircuitOpen"
      <4>1. Rejecting' = Rejecting
        BY <2>5, <3>2 DEF RecordResult, At, GoTo, Rejecting, TypeOK
      <4> QED
        BY <2>1, <2>5, <3>2, <4>1 DEF RecordResult, stateVars
    <3> QED
      BY <3>1, <3>2
  <2>6. ASSUME NEW c \in Callers, MoveState(c) PROVE LateInv'
    <3>1. Rejecting' = Rejecting /\ c \notin Rejecting
      BY <2>6 DEF MoveState, AfterMove, At, GoTo, Rejecting, TypeOK
    <3>2. CASE state = target[c]
      BY <2>1, <2>6, <3>1, <3>2 DEF MoveState, stateVars
    <3>3. CASE state # target[c]
      <4>1. rejections' = 0
        BY <2>6, <3>3 DEF MoveState, ChangeState
      <4>2. Rejecting \in SUBSET (Callers \ {c}) /\ IsFiniteSet(Callers \ {c})
        BY <3>1, CallersAssumption, FS_RemoveElement DEF Rejecting
      <4>3. Cardinality(Callers \ {c}) = Cardinality(Callers) - 1
        BY CallersAssumption, FS_RemoveElement
      <4>4. Cardinality(Rejecting) < Cardinality(Callers)
        BY <4>2, <4>3, FS_Subset
      <4> QED
        BY <3>1, <4>1, <4>4 DEF LateInv
    <3> QED
      BY <3>2, <3>3
  <2>7. ASSUME NEW c \in Callers,
               \/ PreDecide(c) \/ SinceStateStart(c) \/ PostDecide(c) \/ HalfOpenTotal(c)
               \/ HalfOpenRate(c) \/ ClosedTotal(c) \/ ClosedRate(c)
        PROVE  LateInv'
    <3>1. PICK section \in Sections \ {"inc"} : GoTo(c, section)
      BY <2>7 DEF PreDecide, SinceStateStart, PostDecide, HalfOpenTotal, HalfOpenRate,
                  ClosedTotal, ClosedRate, DecideToMove, Sections
    <3>2. pc[c] # "inc" /\ UNCHANGED <<state, rejections>>
      BY <2>7 DEF PreDecide, SinceStateStart, PostDecide, HalfOpenTotal, HalfOpenRate,
                  ClosedTotal, ClosedRate, DecideToMove, Reads, At, stateVars, historyVars
    <3>3. \A d \in Callers : d # c => err'[d] = err[d]
      BY <2>7 DEF PreDecide, SinceStateStart, PostDecide, HalfOpenTotal, HalfOpenRate,
                  ClosedTotal, ClosedRate, DecideToMove, Reads, TypeOK
    <3> QED
      BY <2>2, <3>1, <3>2, <3>3
  <2>8. CASE WindowSlider \/ WaitElapses \/ UNCHANGED vars
    <3>1. UNCHANGED <<state, rejections>> /\ UNCHANGED <<pc, err>>
      BY <2>8 DEF WindowSlider, WaitElapses, vars, stateVars, callVars, historyVars
    <3>2. Rejecting' = Rejecting
      BY <3>1 DEF Rejecting
    <3> QED
      BY <2>1, <3>1, <3>2
  <2> QED
    BY <2>3, <2>4, <2>5, <2>6, <2>7, <2>8 DEF Next, Call
<1>3. TypeOK /\ LateInv => LateRejectionsAreFew
  BY RejectingIsFinite DEF LateInv, LateRejectionsAreFew, TypeOK
<1> QED
  BY <1>1, <1>2, <1>3, TypeCorrect, PTL DEF Spec

-----------------------------------------------------------------------------
\* The slider only forgets.
LEMMA SlideForgets ==
  ASSUME WindowTypeOK, Slide
  PROVE  TotalRequests(window') <= TotalRequests(window) /\ Errors(window') <= Errors(window)
<1> DEFINE totals  == [i \in Slot |-> window[i].total]
           totals2 == [i \in Slot |-> window'[i].total]
           errs    == [i \in Slot |-> window[i].errs]
           errs2   == [i \in Slot |-> window'[i].errs]
<1>1. window' \in [Slot -> Bucket] /\ window \in [Slot -> Bucket]
  BY WindowStepsKeepType DEF WindowTypeOK
<1>2. /\ totals \in [Slot -> Nat] /\ totals2 \in [Slot -> Nat]
      /\ errs \in [Slot -> Nat] /\ errs2 \in [Slot -> Nat]
  BY <1>1, CountsType
<1>3. \A i \in Slot : totals2[i] <= totals[i] /\ errs2[i] <= errs[i]
  BY <1>1 DEF Slide, Bucket, EmptyBucket
<1>4. /\ TotalRequests(window) = Sum(totals) /\ TotalRequests(window') = Sum(totals2)
      /\ Errors(window) = Sum(errs) /\ Errors(window') = Sum(errs2)
  BY <1>1, CountsType
<1> HIDE DEF totals, totals2, errs, errs2
<1> QED
  BY <1>2, <1>3, <1>4, SumMonotone

LEMMA NothingRecorded == TotalRequests(EmptyWindow) = 0 /\ Errors(EmptyWindow) = 0
<1>1. EmptyWindow \in [Slot -> Bucket]
  BY EmptyBucketType DEF EmptyWindow
<1>2. \A i \in Slot : EmptyWindow[i].total = 0 /\ EmptyWindow[i].errs = 0
  BY DEF EmptyWindow, EmptyBucket
<1> QED
  BY <1>1, <1>2, CountsType, SumOfZeros

\* The strengthening of WindowIsEvidence: errors are among the results, in every
\* bucket and in the history, and an empty window that had results has lost all.
EvidenceInv ==
  /\ WindowIsEvidence
  /\ \A i \in Slot : window[i].errs <= window[i].total
  /\ Errors(window) > 0 => failures > 0
  /\ kept = "none" => TotalRequests(window) = 0
  /\ results > 0 /\ TotalRequests(window) = 0 => kept = "none"

LEMMA EvidenceCounts ==
  ASSUME TypeOK
  PROVE  /\ WindowTypeOK /\ window \in [Slot -> Bucket]
         /\ results \in Nat /\ failures \in Nat
         /\ TotalRequests(window) \in Nat /\ Errors(window) \in Nat
BY CountsType DEF TypeOK, WindowTypeOK

\* Enough evidence in the window is enough results in this state.
LEMMA EvidenceIsGenuine ==
  ASSUME TypeOK, EvidenceInv, NEW n \in Nat, n <= Enough,
         TotalRequests(window) >= n
  PROVE  results >= n
BY EvidenceCounts, EnoughIsEnough DEF EvidenceInv, WindowIsEvidence

\* What a tick drops from the window had been recorded in this state, and what has
\* been dropped does not come back.
LEMMA SliderDropsEvidence ==
  ASSUME TypeOK, EvidenceInv, WindowSlider, window' # window
  PROVE  results > 0 /\ (kept = "none" => kept' = "none")
<1>0. WindowTypeOK /\ Slide /\ window \in [Slot -> Bucket]
  BY EvidenceCounts DEF WindowSlider
<1>1. PICK i \in Slot : window[i] # EmptyBucket
  <2>1. nextIndexToReplace \in Slot /\ window' = [window EXCEPT ![nextIndexToReplace] = EmptyBucket]
    BY <1>0 DEF Slide
  <2> QED
    BY <1>0, <2>1
<1>2. window[i].total # 0
  BY <1>0, <1>1 DEF EvidenceInv, Bucket, EmptyBucket
<1>3. TotalRequests(window) # 0
  <2> DEFINE totals == [j \in Slot |-> window[j].total]
  <2>1. totals \in [Slot -> Nat] /\ TotalRequests(window) = Sum(totals) /\ totals[i] # 0
    BY <1>0, <1>2, CountsType
  <2> HIDE DEF totals
  <2> QED
    BY <2>1, SumOfZerosOnly
<1> QED
  BY <1>3, EvidenceCounts, EnoughIsEnough DEF EvidenceInv, WindowIsEvidence

\* In any order of the callers' steps, the slider's and the clock's, the window keeps
\* to the results of this state.
LEMMA EvidenceStep ==
  ASSUME TypeOK, EvidenceInv, [Next]_vars
  PROVE  EvidenceInv'
<1>0. /\ WindowTypeOK /\ window \in [Slot -> Bucket] /\ Enough' = Enough
      /\ results \in Nat /\ failures \in Nat
      /\ TotalRequests(window) \in Nat /\ Errors(window) \in Nat
  BY EvidenceCounts DEF Enough
<1>1. ASSUME UNCHANGED <<window, results, failures, kept>> PROVE EvidenceInv'
  BY <1>0, <1>1 DEF EvidenceInv, WindowIsEvidence
<1>2. ASSUME NEW c \in Callers, Call(c) PROVE EvidenceInv'
  <2>1. CASE RecordResult(c)
    <3> DEFINE failed == err[c] # "nil"
    <3>1. Inc(failed) /\ failed \in BOOLEAN
      BY <2>1 DEF RecordResult
    <3>2. /\ TotalRequests(window') = TotalRequests(window) + 1
          /\ Errors(window') = IF failed THEN Errors(window) + 1 ELSE Errors(window)
      BY <1>0, <3>1, IncCountsOne
    <3>3. /\ results' = IF kept = "all" THEN results + 1 ELSE UpTo(Enough, results + 1)
          /\ failures' = IF ~ failed THEN failures
                         ELSE IF kept = "all" THEN failures + 1 ELSE 1
          /\ kept' = IF kept = "none" THEN "some" ELSE kept
      BY <2>1 DEF RecordResult
    <3>4. \A i \in Slot : window'[i].errs <= window'[i].total
      BY <1>0, <3>1 DEF Inc, Bucket, EvidenceInv
    <3> HIDE DEF failed
    <3>5. WindowIsEvidence'
      BY <1>0, <3>1, <3>2, <3>3, EnoughIsEnough DEF EvidenceInv, WindowIsEvidence, UpTo
    <3>6. Errors(window') > 0 => failures' > 0
      BY <1>0, <3>1, <3>2, <3>3 DEF EvidenceInv
    <3>7. TotalRequests(window') # 0 /\ kept' # "none"
      BY <1>0, <3>2, <3>3
    <3> QED
      BY <3>4, <3>5, <3>6, <3>7 DEF EvidenceInv
  <2>2. CASE MoveState(c)
    <3>1. CASE state = target[c]
      BY <1>1, <2>2, <3>1 DEF MoveState, windowVars, evidence
    <3>2. CASE state # target[c]
      <4>1. window' = EmptyWindow /\ results' = 0 /\ failures' = 0 /\ kept' = "all"
        BY <2>2, <3>2 DEF MoveState, ChangeState, Reset
      <4>2. \A i \in Slot : window'[i].errs <= window'[i].total
        BY <4>1 DEF EmptyWindow, EmptyBucket
      <4> QED
        BY <4>1, <4>2, NothingRecorded DEF EvidenceInv, WindowIsEvidence
    <3> QED
      BY <3>1, <3>2
  <2>3. CASE \/ PreDecide(c) \/ SinceStateStart(c) \/ Execute(c)
             \/ \E outcome \in {"nil", "failure"} : RunFunc(c, outcome)
             \/ PostDecide(c) \/ HalfOpenTotal(c) \/ HalfOpenRate(c)
             \/ ClosedTotal(c) \/ ClosedRate(c)
    BY <1>1, <2>3 DEF PreDecide, SinceStateStart, Execute, RunFunc, PostDecide,
         HalfOpenTotal, HalfOpenRate, ClosedTotal, ClosedRate, DecideToMove, Reads,
         windowVars, historyVars, evidence
  <2> QED
    BY <1>2, <2>1, <2>2, <2>3 DEF Call
<1>3. CASE WindowSlider
  <2>1. CASE window' = window
    BY <1>1, <1>3, <2>1 DEF WindowSlider
  <2>2. CASE window' # window
    <3>1. /\ Slide
          /\ results' = UpTo(Enough, results) /\ failures' = UpTo(1, failures)
          /\ kept' = IF TotalRequests(window') = 0 THEN "none" ELSE "some"
      BY <1>3, <2>2 DEF WindowSlider
    <3>2. TotalRequests(window') <= TotalRequests(window) /\ Errors(window') <= Errors(window)
      BY <1>0, <3>1, SlideForgets
    <3>3. TotalRequests(window') \in Nat /\ Errors(window') \in Nat
      BY <1>0, <3>1, WindowStepsKeepType, CountsType DEF WindowTypeOK
    <3>4. \A i \in Slot : window'[i].errs <= window'[i].total
      BY <1>0, <3>1 DEF Slide, EmptyBucket, EvidenceInv
    <3>5. WindowIsEvidence'
      BY <1>0, <3>1, <3>2, <3>3, EnoughIsEnough DEF EvidenceInv, WindowIsEvidence, UpTo
    <3>6. Errors(window') > 0 => failures' > 0
      BY <1>0, <3>1, <3>2, <3>3 DEF EvidenceInv, UpTo
    <3>7. /\ kept' = "none" => TotalRequests(window') = 0
          /\ TotalRequests(window') = 0 => kept' = "none"
      BY <3>1
    <3> QED
      BY <3>4, <3>5, <3>6, <3>7 DEF EvidenceInv
  <2> QED
    BY <2>1, <2>2
<1>4. CASE WaitElapses \/ UNCHANGED vars
  BY <1>1, <1>4 DEF WaitElapses, windowVars, historyVars, evidence, vars
<1> QED
  BY <1>2, <1>3, <1>4 DEF Next

LEMMA EvidenceHolds == Spec => []EvidenceInv
<1>1. Init => EvidenceInv
  <2> SUFFICES ASSUME Init PROVE EvidenceInv
    OBVIOUS
  <2>1. window = EmptyWindow /\ results = 0 /\ failures = 0 /\ kept = "all"
    BY DEF Init, WindowInit
  <2>2. \A i \in Slot : window[i].errs <= window[i].total
    BY <2>1 DEF EmptyWindow, EmptyBucket
  <2> QED
    BY <2>1, <2>2, NothingRecorded DEF EvidenceInv, WindowIsEvidence
<1>2. TypeOK /\ EvidenceInv /\ [Next]_vars => EvidenceInv'
  BY EvidenceStep
<1> QED
  BY <1>1, <1>2, TypeCorrect, PTL DEF Spec

\* With any number of callers, thresholds and buckets, the window counts exactly what
\* was recorded since the circuit came to its state, until the slider drops some of
\* it, and none but that until there are enough results to decide on (moveState with
\* recorder.reset, inc and slideWindow).
THEOREM EvidenceIsOfThisState == Spec => []WindowIsEvidence
<1>1. EvidenceInv => WindowIsEvidence
  BY DEF EvidenceInv
<1> QED
  BY <1>1, EvidenceHolds, PTL

-----------------------------------------------------------------------------
(***************************************************************************)
(* A single caller: BreakerProtocol.  Between the moment it reads the      *)
(* recorder and the moment it moves the circuit only the slider and the    *)
(* clock can act, and a tick only weakens what a move has to rest on, so   *)
(* that what it decided on still holds when it moves.  The refinement      *)
(* follows from what is said here of each section and of the window.       *)
(***************************************************************************)
\* The slot that a tick replaces, if it is one of the ring, is the oldest.
ReplacesOldest ==
  nextIndexToReplace \in Slot =>
    nextIndexToReplace = IF currentBucket + 1 = WindowSize THEN 0 ELSE currentBucket + 1

\* When the last result was an error, whatever older results the window still
\* counts, it counts that error too.
LastErrorIsSeen ==
  lastFailed =>
    \A a \in Slot : window[SlotOfAge(a)].total > 0
                      => \E b \in 0 .. a : window[SlotOfAge(b)].errs > 0

EnoughToOpen == state = "closed" /\ results >= MinimumRequestToOpen

\* What a single caller has found out on its way to moveState is still so.
DecisionHolds(c) ==
  /\ pc[c] = "sinceStart" => state = "open"
  /\ pc[c] = "halfTotal" => state = "halfopen"
  /\ pc[c] = "closedTotal" => state = "closed"
  /\ pc[c] = "halfRate" => Protocol!EnoughProbes
  /\ pc[c] = "closedRate" => EnoughToOpen
  /\ pc[c] = "move" =>
       \/ target[c] = "halfopen" /\ state = "open" /\ waited
       \/ target[c] = "closed" /\ Protocol!MayClose
       \/ target[c] = "open" /\ (Protocol!MayReopen \/ Protocol!MayTrip)

SerialInv ==
  /\ ReplacesOldest
  /\ LastErrorIsSeen
  /\ \A c \in Callers : DecisionHolds(c)

\* A rate of zero says that there are results, and that the last one was good.
LEMMA ZeroRateMeansGood ==
  ASSUME WindowTypeOK, LastErrorIsSeen, ErrorRateIsZero(window)
  PROVE  ~ lastFailed
<1> DEFINE errs == [i \in Slot |-> window[i].errs]
           totals == [i \in Slot |-> window[i].total]
<1>1. errs \in [Slot -> Nat] /\ window \in [Slot -> Bucket]
  BY DEF WindowTypeOK, Bucket
<1>2. \A i \in Slot : window[i].errs = 0
  <2>1. Sum(errs) = 0
    BY <1>1 DEF ErrorRateIsZero, Errors
  <2>2. \A i \in Slot : errs[i] = 0
    <3> HIDE DEF errs
    <3> QED
      BY <1>1, <2>1, SumOfZerosOnly
  <2> QED
    BY <2>2
<1>3. PICK i \in Slot : window[i].total > 0
  <2>1. totals \in [Slot -> Nat] /\ Sum(totals) > 0
    BY <1>1, CountsType DEF ErrorRateIsZero
  <2>2. ~ \A i \in Slot : totals[i] = 0
    <3> HIDE DEF totals
    <3> QED
      BY <2>1, SumOfZeros
  <2> QED
    BY <2>1, <2>2
<1>4. PICK a \in Slot : SlotOfAge(a) = i
  <2> USE WindowAssumption DEF WindowTypeOK, Slot, SlotOfAge
  <2>1. CASE i <= currentBucket
    <3>1. currentBucket - i \in Slot /\ SlotOfAge(currentBucket - i) = i
      BY <2>1
    <3> QED
      BY <3>1
  <2>2. CASE i > currentBucket
    <3>1. currentBucket - i + WindowSize \in Slot /\ SlotOfAge(currentBucket - i + WindowSize) = i
      BY <2>2
    <3> QED
      BY <3>1
  <2> QED
    BY <2>1, <2>2 DEF WindowTypeOK
<1>5. \A b \in 0 .. a : SlotOfAge(b) \in Slot
  BY WindowAssumption DEF WindowTypeOK, Slot, SlotOfAge
<1> QED
  BY <1>2, <1>3, <1>4, <1>5 DEF LastErrorIsSeen

\* A tick drops the oldest bucket: had it been the only one that still counts the
\* last error, then nothing at all is counted any more.
LEMMA SlideKeepsOrder ==
  ASSUME WindowTypeOK, ReplacesOldest, LastErrorIsSeen, Slide, lastFailed' = lastFailed
  PROVE  ReplacesOldest' /\ LastErrorIsSeen'
<1> USE WindowAssumption DEF WindowTypeOK, Slot
<1>1. CASE nextIndexToReplace \notin DOMAIN window
  <2>1. UNCHANGED <<window, nextIndexToReplace, currentBucket>>
    BY <1>1 DEF Slide
  <2>2. \A a \in Slot : SlotOfAge(a)' = SlotOfAge(a)
    BY <2>1 DEF SlotOfAge
  <2>3. \A a \in Slot : \A b \in 0 .. a : SlotOfAge(b)' = SlotOfAge(b)
    BY <2>2
  <2> QED
    BY <2>1, <2>2, <2>3 DEF ReplacesOldest, LastErrorIsSeen
<1>2. CASE nextIndexToReplace \in DOMAIN window
  <2>1. /\ window' = [window EXCEPT ![nextIndexToReplace] = EmptyBucket]
        /\ currentBucket' = nextIndexToReplace
        /\ nextIndexToReplace' = IF nextIndexToReplace + 1 >= WindowSize
                                 THEN 0 ELSE nextIndexToReplace + 1
        /\ nextIndexToReplace \in Slot
    BY <1>2 DEF Slide
  <2>2. nextIndexToReplace = IF currentBucket + 1 = WindowSize THEN 0 ELSE currentBucket + 1
    BY <2>1 DEF ReplacesOldest
  <2>3. ReplacesOldest'
    BY <2>1 DEF ReplacesOldest
  <2>4. SlotOfAge(0)' = nextIndexToReplace
    BY <2>1 DEF SlotOfAge
  <2>5. ASSUME NEW a \in Slot, a # 0
        PROVE  /\ SlotOfAge(a)' = SlotOfAge(a - 1)
               /\ a - 1 \in Slot
               /\ SlotOfAge(a - 1) # nextIndexToReplace
               /\ SlotOfAge(a - 1) \in Slot
    BY <2>1, <2>2, <2>5 DEF SlotOfAge
  <2>6. ASSUME NEW a \in Slot, a # 0
        PROVE  window'[SlotOfAge(a)'] = window[SlotOfAge(a - 1)]
    BY <2>1, <2>5, <2>6
  <2>7. window'[SlotOfAge(0)'].total = 0
    BY <2>1, <2>4 DEF EmptyBucket
  <2>8. ASSUME lastFailed, NEW a \in Slot, window'[SlotOfAge(a)'].total > 0
        PROVE  \E b \in 0 .. a : window'[SlotOfAge(b)'].errs > 0
    <3>1. a # 0
      BY <2>7, <2>8
    <3>2. a - 1 \in Slot /\ window[SlotOfAge(a - 1)].total > 0
      BY <2>5, <2>6, <2>8, <3>1
    <3>3. PICK b \in 0 .. a - 1 : window[SlotOfAge(b)].errs > 0
      BY <2>8, <3>2 DEF LastErrorIsSeen
    <3>4. b + 1 \in Slot /\ b + 1 # 0 /\ b + 1 \in 0 .. a /\ (b + 1) - 1 = b
      BY <3>1
    <3>5. window'[SlotOfAge(b + 1)'] = window[SlotOfAge(b)]
      BY <2>6, <3>4
    <3> QED
      BY <3>3, <3>4, <3>5
  <2> QED
    BY <2>3, <2>8 DEF LastErrorIsSeen
<1> QED
  BY <1>1, <1>2

\* A result is counted in the youngest bucket.
LEMMA IncKeepsOrder ==
  ASSUME WindowTypeOK, ReplacesOldest, NEW failed \in BOOLEAN, Inc(failed),
         lastFailed' = failed
  PROVE  ReplacesOldest' /\ LastErrorIsSeen'
<1> USE WindowAssumption DEF WindowTypeOK, Slot
<1>1. UNCHANGED <<nextIndexToReplace, currentBucket>>
  BY DEF Inc
<1>2. SlotOfAge(0)' = currentBucket
  BY <1>1 DEF SlotOfAge
<1>3. failed => window'[SlotOfAge(0)'].errs > 0
  BY <1>2 DEF Inc, Bucket
<1>4. \A a \in Slot : 0 \in 0 .. a
  OBVIOUS
<1> QED
  BY <1>1, <1>3, <1>4 DEF ReplacesOldest, LastErrorIsSeen

\* While the window and what is known of the last result stay, so does their order.
LEMMA SameWindowSameOrder ==
  ASSUME ReplacesOldest, LastErrorIsSeen, UNCHANGED <<windowVars, lastFailed>>
  PROVE  ReplacesOldest' /\ LastErrorIsSeen'
<1>1. UNCHANGED <<window, nextIndexToReplace, currentBucket, lastFailed>>
  BY DEF windowVars
<1>2. \A a : SlotOfAge(a)' = SlotOfAge(a)
  BY <1>1 DEF SlotOfAge
<1> QED
  BY <1>1, <1>2 DEF ReplacesOldest, LastErrorIsSeen

\* What a step of the caller that leaves the recorder alone may do: if the circuit
\* stays where it is, what the caller decides on in this step has to be so, and
\* nothing else changes.
LEMMA OnlyDecides ==
  ASSUME TypeOK, SerialInv, NEW c \in Callers, Callers = {c},
         UNCHANGED <<windowVars, stateVars, lastFailed>>,
         DecisionHolds(c)'
  PROVE  SerialInv'
<1>1. ReplacesOldest' /\ LastErrorIsSeen'
  BY SameWindowSameOrder DEF SerialInv
<1> QED
  BY <1>1 DEF SerialInv

\* A verdict on the half-open circuit rests on evidence ...
LEMMA VerdictHasEvidence ==
  ASSUME TypeOK, EvidenceInv, LastErrorIsSeen, Protocol!EnoughProbes
  PROVE  IF ErrorRateIsZero(window) THEN Protocol!MayClose ELSE Protocol!MayReopen
<1>1. results > 0
  BY BreakerAssumption, EvidenceCounts DEF Protocol!EnoughProbes
<1>2. CASE ErrorRateIsZero(window)
  <2>1. ~ lastFailed
    BY <1>2, EvidenceCounts, ZeroRateMeansGood
  <2>2. kept = "all" => failures = 0
    BY <1>2 DEF ErrorRateIsZero, EvidenceInv, WindowIsEvidence
  <2> QED
    BY <1>2, <2>1, <2>2 DEF Protocol!MayClose
<1>3. CASE ~ ErrorRateIsZero(window)
  <2>1. TotalRequests(window) = 0 \/ Errors(window) > 0
    BY <1>3, EvidenceCounts DEF ErrorRateIsZero
  <2>2. failures > 0 \/ kept = "none"
    BY <1>1, <2>1 DEF EvidenceInv
  <2> QED
    BY <1>3, <2>2 DEF Protocol!MayReopen
<1> QED
  BY <1>2, <1>3

\* ... and so does the decision to trip.
LEMMA TripHasEvidence ==
  ASSUME TypeOK, EvidenceInv, EnoughToOpen,
         ErrorRateAtLeast(window, ErrorPercentThresholdToOpen)
  PROVE  Protocol!MayTrip
<1> DEFINE total == TotalRequests(window)
           errors == Errors(window)
           percent == ErrorPercentThresholdToOpen
<1>1. /\ total \in Nat /\ errors \in Nat /\ percent \in Nat /\ percent > 0
      /\ total > 0 /\ errors * 100 >= percent * total
  BY EvidenceCounts, BreakerAssumption DEF ErrorRateAtLeast
<1>2. (errors > 0 => failures > 0) /\ (kept = "all" => total = results /\ errors = failures)
  BY DEF EvidenceInv, WindowIsEvidence
<1>3. errors > 0
  <2> HIDE DEF total, errors, percent
  <2>1. percent * total > 0
    BY <1>1
  <2>2. percent * total \in Int
    BY <1>1
  <2> DEFINE needed == percent * total
  <2>3. needed > 0 /\ needed \in Int /\ errors * 100 >= needed
    BY <1>1, <2>1, <2>2
  <2> HIDE DEF needed
  <2> QED
    BY <1>1, <2>3
<1>4. kept = "all" => failures * 100 >= percent * results
  BY <1>1, <1>2
<1> QED
  BY <1>2, <1>3, <1>4 DEF EnoughToOpen, Protocol!MayTrip

\* A tick, which only takes evidence out of the window, and the clock leave what the
\* caller has found out as it is.
LEMMA DecisionStays ==
  ASSUME TypeOK, NEW c \in Callers, DecisionHolds(c),
         UNCHANGED <<pc, target, state, lastFailed>>, waited => waited',
         \/ UNCHANGED <<results, failures, kept>>
         \/ /\ results' = UpTo(Enough, results) /\ failures' = UpTo(1, failures)
            /\ kept' # "all" /\ (kept = "none" => kept' = "none")
  PROVE  DecisionHolds(c)'
<1>1. /\ results >= MinimumRequestToOpen => results' >= MinimumRequestToOpen
      /\ results >= SuccessfulRequiredOnHalfOpen => results' >= SuccessfulRequiredOnHalfOpen
      /\ failures > 0 => failures' > 0
      /\ kept' = "all" => UNCHANGED <<results, failures, kept>>
      /\ kept = "none" => kept' = "none"
  BY EvidenceCounts, EnoughIsEnough, BreakerAssumption DEF UpTo
<1>2. /\ EnoughToOpen => EnoughToOpen'
      /\ Protocol!EnoughProbes => Protocol!EnoughProbes'
      /\ Protocol!MayClose => Protocol!MayClose'
      /\ Protocol!MayReopen => Protocol!MayReopen'
      /\ Protocol!MayTrip => Protocol!MayTrip'
  BY <1>1 DEF EnoughToOpen, Protocol!EnoughProbes, Protocol!MayClose, Protocol!MayReopen,
       Protocol!MayTrip
<1> QED
  BY <1>2 DEF DecisionHolds

\* A single caller keeps its decisions good, with the slider and the clock running.
LEMMA SerialStep ==
  ASSUME TypeOK, EvidenceInv, SerialInv, [Next]_vars, NEW c \in Callers, Callers = {c}
  PROVE  SerialInv'
<1> USE DEF At, GoTo
<1>0. DecisionHolds(c) /\ WindowTypeOK /\ results \in Nat
  BY EnoughIsEnough DEF SerialInv, TypeOK
<1>1. ASSUME NEW section \in Sections, GoTo(c, section),
             section \notin {"sinceStart", "halfTotal", "closedTotal", "halfRate",
                             "closedRate", "move"}
      PROVE  DecisionHolds(c)'
  BY <1>1 DEF DecisionHolds, TypeOK
<1>2. ASSUME UNCHANGED <<pc, target, state, lastFailed, results, failures, kept>>,
             waited => waited'
      PROVE  DecisionHolds(c)'
  BY <1>0, <1>2, DecisionStays
<1>3. Call(c) => SerialInv'
  <2>1. CASE PreDecide(c)
    <3>1. DecisionHolds(c)'
      BY <2>1 DEF PreDecide, DecisionHolds, TypeOK, stateVars
    <3> QED
      BY <2>1, <3>1, OnlyDecides DEF PreDecide, historyVars, evidence
  <2>2. CASE SinceStateStart(c)
    <3>1. DecisionHolds(c)'
      BY <1>0, <2>2 DEF SinceStateStart, DecideToMove, DecisionHolds, TypeOK, stateVars, Reads
    <3> QED
      BY <2>2, <3>1, OnlyDecides DEF SinceStateStart, DecideToMove, Reads, historyVars, evidence
  <2>3. CASE Execute(c)
    <3>1. DecisionHolds(c)'
      BY <1>1, <2>3 DEF Execute, Sections
    <3> QED
      BY <2>3, <3>1, OnlyDecides DEF Execute, Reads, historyVars, evidence
  <2>4. ASSUME NEW outcome \in {"nil", "failure"}, RunFunc(c, outcome) PROVE SerialInv'
    <3>1. DecisionHolds(c)'
      BY <1>1, <2>4 DEF RunFunc, Sections
    <3> QED
      BY <2>4, <3>1, OnlyDecides DEF RunFunc, evidence
  <2>5. CASE RecordResult(c)
    <3>1. /\ Inc(err[c] # "nil") /\ (err[c] # "nil") \in BOOLEAN
          /\ lastFailed' = (err[c] # "nil")
      BY <2>5 DEF RecordResult
    <3>2. ReplacesOldest' /\ LastErrorIsSeen'
      BY <1>0, <3>1, IncKeepsOrder DEF SerialInv
    <3>3. DecisionHolds(c)'
      BY <1>1, <2>5 DEF RecordResult, Sections
    <3> QED
      BY <3>2, <3>3 DEF SerialInv
  <2>6. CASE PostDecide(c)
    <3>1. DecisionHolds(c)'
      BY <2>6 DEF PostDecide, DecisionHolds, TypeOK, Reads, stateVars
    <3> QED
      BY <2>6, <3>1, OnlyDecides DEF PostDecide, Reads, historyVars, evidence
  <2>7. CASE HalfOpenTotal(c)
    <3>1. TotalRequests(window) >= SuccessfulRequiredOnHalfOpen
            => results >= SuccessfulRequiredOnHalfOpen
      BY EvidenceIsGenuine, EnoughIsEnough, BreakerAssumption
    <3>2. DecisionHolds(c)'
      BY <1>0, <2>7, <3>1 DEF HalfOpenTotal, DecisionHolds, Protocol!EnoughProbes, TypeOK,
           Reads, stateVars, historyVars, evidence
    <3> QED
      BY <2>7, <3>2, OnlyDecides DEF HalfOpenTotal, Reads, historyVars, evidence
  <2>8. CASE HalfOpenRate(c)
    <3>1. Protocol!EnoughProbes
      BY <1>0, <2>8 DEF HalfOpenRate, DecisionHolds
    <3>2. IF ErrorRateIsZero(window) THEN Protocol!MayClose ELSE Protocol!MayReopen
      BY <3>1, VerdictHasEvidence DEF SerialInv
    <3>3. UNCHANGED <<state, results, failures, lastFailed, kept>>
      BY <2>8 DEF HalfOpenRate, DecideToMove, stateVars, historyVars, evidence
    <3>4. (Protocol!MayClose => Protocol!MayClose') /\ (Protocol!MayReopen => Protocol!MayReopen')
      BY <3>3 DEF Protocol!MayClose, Protocol!MayReopen, Protocol!EnoughProbes
    <3>5. /\ pc'[c] = "move"
          /\ target'[c] = IF ErrorRateIsZero(window) THEN "closed" ELSE "open"
      BY <2>8 DEF HalfOpenRate, DecideToMove, TypeOK
    <3>6. DecisionHolds(c)'
      BY <3>2, <3>4, <3>5 DEF DecisionHolds
    <3> QED
      BY <2>8, <3>6, OnlyDecides DEF HalfOpenRate, DecideToMove, historyVars, evidence
  <2>9. CASE ClosedTotal(c)
    <3>1. TotalRequests(window) >= MinimumRequestToOpen => results >= MinimumRequestToOpen
      BY EvidenceIsGenuine, EnoughIsEnough, BreakerAssumption
    <3>2. DecisionHolds(c)'
      BY <1>0, <2>9, <3>1 DEF ClosedTotal, DecisionHolds, EnoughToOpen, TypeOK, Reads,
           stateVars, historyVars, evidence
    <3> QED
      BY <2>9, <3>2, OnlyDecides DEF ClosedTotal, Reads, historyVars, evidence
  <2>10. CASE ClosedRate(c)
    <3>1. CASE GoTo(c, "idle") /\ Reads
      <4>1. DecisionHolds(c)'
        BY <1>1, <3>1 DEF Sections
      <4> QED
        BY <3>1, <4>1, OnlyDecides DEF Reads, historyVars, evidence
    <3>2. CASE /\ ErrorRateAtLeast(window, ErrorPercentThresholdToOpen)
               /\ DecideToMove(c, "open")
      <4>1. EnoughToOpen
        BY <1>0, <2>10 DEF ClosedRate, DecisionHolds
      <4>2. Protocol!MayTrip
        BY <3>2, <4>1, TripHasEvidence
      <4>3. UNCHANGED <<state, results, failures, kept>>
        BY <3>2 DEF DecideToMove, stateVars, historyVars, evidence
      <4>4. Protocol!MayTrip'
        BY <4>2, <4>3 DEF Protocol!MayTrip
      <4>5. pc'[c] = "move" /\ target'[c] = "open"
        BY <3>2 DEF DecideToMove, TypeOK
      <4>6. DecisionHolds(c)'
        BY <4>4, <4>5 DEF DecisionHolds
      <4> QED
        BY <3>2, <4>6, OnlyDecides DEF DecideToMove, historyVars, evidence
    <3> QED
      BY <2>10, <3>1, <3>2 DEF ClosedRate
  <2>11. CASE MoveState(c)
    <3>1. DecisionHolds(c)'
      BY <1>1, <2>11 DEF MoveState, AfterMove, Sections
    <3>2. CASE state = target[c]
      BY <2>11, <3>1, <3>2, OnlyDecides DEF MoveState, evidence
    <3>3. CASE state # target[c]
      <4>1. Reset /\ ~ lastFailed'
        BY <2>11, <3>3 DEF MoveState, ChangeState
      <4>2. ReplacesOldest' /\ LastErrorIsSeen'
        BY <4>1, WindowAssumption DEF Reset, ReplacesOldest, LastErrorIsSeen, Slot
      <4> QED
        BY <3>1, <4>2 DEF SerialInv
    <3> QED
      BY <3>2, <3>3
  <2> QED
    BY <2>1, <2>2, <2>3, <2>4, <2>5, <2>6, <2>7, <2>8, <2>9, <2>10, <2>11 DEF Call
<1>4. WindowSlider => SerialInv'
  <2> SUFFICES ASSUME WindowSlider PROVE SerialInv'
    OBVIOUS
  <2>1. Slide /\ UNCHANGED <<state, waited, pc, target, lastFailed>>
    BY DEF WindowSlider, stateVars, callVars
  <2>2. ReplacesOldest' /\ LastErrorIsSeen'
    BY <1>0, <2>1, SlideKeepsOrder DEF SerialInv
  <2>3. DecisionHolds(c)'
    <3>1. CASE window' = window
      BY <1>2, <2>1, <3>1 DEF WindowSlider
    <3>2. CASE window' # window
      BY <1>0, <2>1, <3>2, DecisionStays, SliderDropsEvidence DEF WindowSlider
    <3> QED
      BY <3>1, <3>2
  <2> QED
    BY <2>2, <2>3 DEF SerialInv
<1>5. WaitElapses => SerialInv'
  <2> SUFFICES ASSUME WaitElapses PROVE SerialInv'
    OBVIOUS
  <2>1. UNCHANGED <<windowVars, pc, target, state, results, failures, lastFailed, kept>> /\ waited'
    BY DEF WaitElapses, callVars, historyVars, evidence
  <2>2. DecisionHolds(c)'
    BY <1>2, <2>1
  <2>3. ReplacesOldest' /\ LastErrorIsSeen'
    BY <2>1, SameWindowSameOrder DEF SerialInv
  <2> QED
    BY <2>2, <2>3 DEF SerialInv
<1>6. UNCHANGED vars => SerialInv'
  <2> SUFFICES ASSUME UNCHANGED vars PROVE SerialInv'
    OBVIOUS
  <2>1. UNCHANGED <<windowVars, stateVars, pc, target, results, failures, lastFailed, kept>>
    BY DEF vars, windowVars, stateVars
  <2>2. DecisionHolds(c)'
    BY <1>2, <2>1 DEF stateVars
  <2> QED
    BY <2>1, <2>2, OnlyDecides
<1> QED
  BY <1>3, <1>4, <1>5, <1>6 DEF Next

\* A single caller moves the circuit as BreakerProtocol says, which names the places
\* where it departs from the comment of New, whatever the thresholds, the number of
\* buckets, and the moments at which the slider and the clock act (circuitbreaker.Run).
THEOREM SerialFollowsProtocol ==
  ASSUME NEW c, Callers = {c}
  PROVE  Spec => FollowsProtocol
<1>1. Init => Protocol!Init
  BY DEF Init, Protocol!Init
<1>2. Init => SerialInv
  <2> SUFFICES ASSUME Init PROVE SerialInv
    OBVIOUS
  <2>1. ReplacesOldest /\ LastErrorIsSeen
    BY WindowAssumption DEF Init, WindowInit, ReplacesOldest, LastErrorIsSeen, Slot
  <2> QED
    BY <2>1 DEF Init, SerialInv, DecisionHolds
<1>3. TypeOK /\ EvidenceInv /\ SerialInv /\ [Next]_vars => SerialInv'
  BY SerialStep
<1> DEFINE shown == <<state, waited, results, failures, lastFailed, kept>>
<1>4. TypeOK /\ EvidenceInv /\ SerialInv /\ [Next]_vars => [Protocol!Next]_shown
  <2> SUFFICES ASSUME TypeOK, EvidenceInv, SerialInv, [Next]_vars
               PROVE  Protocol!Next \/ UNCHANGED shown
    OBVIOUS
  <2>0. c \in Callers /\ DecisionHolds(c)
    BY DEF SerialInv
  <2>1. CASE RecordResult(c)
    <3>1. Protocol!Record(err[c] # "nil") /\ (err[c] # "nil") \in BOOLEAN
      BY <2>1 DEF RecordResult, Protocol!Record, Protocol!Enough, Enough, Protocol!UpTo,
                  UpTo, stateVars
    <3> QED
      BY <3>1 DEF Protocol!Next
  <2>2. CASE MoveState(c)
    <3>1. CASE state = target[c]
      BY <2>2, <3>1 DEF MoveState, stateVars, evidence
    <3>2. CASE state # target[c]
      <4>1. Protocol!Enter(target[c]) /\ pc[c] = "move"
        BY <2>2, <3>2 DEF MoveState, ChangeState, Protocol!Enter, At
      <4> QED
        BY <2>0, <3>2, <4>1 DEF DecisionHolds, Protocol!Next, Protocol!Probe, Protocol!Close,
             Protocol!Reopen, Protocol!Trip
    <3> QED
      BY <3>1, <3>2
  <2>3. CASE WaitElapses
    BY <2>3 DEF WaitElapses, historyVars, evidence, Protocol!Next, Protocol!WaitElapses
  <2>4. CASE \/ PreDecide(c) \/ SinceStateStart(c) \/ Execute(c)
             \/ \E outcome \in {"nil", "failure"} : RunFunc(c, outcome)
             \/ PostDecide(c) \/ HalfOpenTotal(c) \/ HalfOpenRate(c)
             \/ ClosedTotal(c) \/ ClosedRate(c)
    BY <2>4 DEF PreDecide, SinceStateStart, Execute, RunFunc, PostDecide, HalfOpenTotal,
         HalfOpenRate, ClosedTotal, ClosedRate, DecideToMove, Reads, stateVars, historyVars,
         evidence
  <2>5. CASE WindowSlider
    <3>1. CASE window' = window
      BY <2>5, <3>1 DEF WindowSlider, stateVars
    <3>2. CASE window' # window
      <4>1. results > 0 /\ (kept = "none" => kept' = "none")
        BY <2>5, <3>2, SliderDropsEvidence
      <4>2. /\ results' = UpTo(Enough, results) /\ failures' = UpTo(1, failures)
            /\ kept' \in {"some", "none"} /\ UNCHANGED <<state, waited, lastFailed>>
        BY <2>5, <3>2 DEF WindowSlider, stateVars
      <4>3. Protocol!Forget
        BY <4>1, <4>2 DEF Protocol!Forget, Protocol!Enough, Enough, Protocol!UpTo, UpTo
      <4> QED
        BY <4>3 DEF Protocol!Next
    <3> QED
      BY <3>1, <3>2
  <2>6. CASE UNCHANGED vars
    BY <2>6 DEF vars
  <2> QED
    BY <2>1, <2>2, <2>3, <2>4, <2>5, <2>6 DEF Next, Call
<1> QED
  BY <1>1, <1>2, <1>3, <1>4, TypeCorrect, EvidenceHolds, PTL
  DEF Spec, FollowsProtocol, Protocol!Spec, Protocol!protocolVars
=============================================================================
