---------------------------- MODULE BucketWindow ----------------------------
(***************************************************************************)
(* The metrics recorder of the circuit breaker (circuitbreaker/metrics.go):*)
(* a ring of buckets that counts results.  Each operation holds b.mu from  *)
(* its first to its last line, so each one is a single action here; the    *)
(* ticker's goroutine and the callers of the breaker interleave freely.    *)
(***************************************************************************)
EXTENDS Integers, FiniteSets

CONSTANTS
  WindowSize,     \* windowSize: MetricsSlidingWindowBucketQuantity
  MaxPerBucket    \* bound of the model: results counted in one bucket

ASSUME WindowAssumption == WindowSize \in Nat \ {0} /\ MaxPerBucket \in Nat \ {0}

VARIABLES
  window,               \* the ring of buckets
  nextIndexToReplace,   \* slot of the oldest bucket, the next one to go
  currentBucket,        \* slot of the bucket that results are counted in
  panicked              \* the slider indexed outside the ring: process dead

windowVars == <<window, nextIndexToReplace, currentBucket, panicked>>

Slot == 0 .. WindowSize - 1
Bucket == [total : Nat, errs : Nat]
EmptyBucket == [total |-> 0, errs |-> 0]
EmptyWindow == [i \in Slot |-> EmptyBucket]

WindowTypeOK ==
  /\ window \in [Slot -> Bucket]
  /\ nextIndexToReplace \in Slot \cup {1}
  /\ currentBucket \in Slot
  /\ panicked \in BOOLEAN

-----------------------------------------------------------------------------
(***************************************************************************)
(* The loops that add the buckets up.  The sum of f is written as the size *)
(* of a disjoint union, one element per unit of every f[i], because the    *)
(* theorems about Cardinality can then be used on it; MCCircuitBreaker     *)
(* checks that it is SumFunction.                                          *)
(***************************************************************************)
Units(f) == UNION {{i} \X (1 .. f[i]) : i \in DOMAIN f}
Sum(f) == Cardinality(Units(f))

TotalRequests(w) == Sum([i \in DOMAIN w |-> w[i].total])
Errors(w) == Sum([i \in DOMAIN w |-> w[i].errs])

(***************************************************************************)
(* The two comparisons made with errorRate().  It divides floats, so with  *)
(* no requests it is 0/0 = NaN, and every comparison with NaN is false.    *)
(***************************************************************************)
ErrorRateIsZero(w) == TotalRequests(w) > 0 /\ Errors(w) = 0

BuggyRateWithoutNaN(w, percent) == Errors(w) * 100 >= percent * TotalRequests(w)

ErrorRateAtLeast(w, percent) ==
  /\ TotalRequests(w) > 0
  /\ Errors(w) * 100 >= percent * TotalRequests(w)

-----------------------------------------------------------------------------
WindowInit ==
  /\ window = EmptyWindow
  /\ currentBucket = 0
  /\ nextIndexToReplace = 1
  /\ panicked = FALSE

Inc(failed) ==
  /\ window' = [window EXCEPT ![currentBucket] =
                  [total |-> @.total + 1, errs |-> @.errs + IF failed THEN 1 ELSE 0]]
  /\ UNCHANGED <<nextIndexToReplace, currentBucket, panicked>>

\* A reset that moves the running bucket, and not the next one to go.
BuggyReset ==
  /\ window' = EmptyWindow
  /\ currentBucket' = 0
  /\ UNCHANGED <<nextIndexToReplace, panicked>>

Reset ==
  /\ window' = EmptyWindow
  /\ currentBucket' = 0
  /\ nextIndexToReplace' = 1
  /\ UNCHANGED panicked

\* A wrap-around test that is off by one.
BuggySlide ==
  /\ IF nextIndexToReplace \in DOMAIN window
     THEN /\ window' = [window EXCEPT ![nextIndexToReplace] = EmptyBucket]
          /\ currentBucket' = nextIndexToReplace
          /\ nextIndexToReplace' = IF nextIndexToReplace + 1 > WindowSize
                                   THEN 0 ELSE nextIndexToReplace + 1
          /\ UNCHANGED panicked
     ELSE panicked' = TRUE /\ UNCHANGED <<window, nextIndexToReplace, currentBucket>>

(***************************************************************************)
(* One tick of windowSlider.  The assignment b.window[nextIndexToReplace]  *)
(* is a bounds-checked Go index: outside the ring the goroutine panics,    *)
(* and a panic nobody recovers from ends the process.                      *)
(***************************************************************************)
Slide ==
  IF nextIndexToReplace \in DOMAIN window
  THEN /\ window' = [window EXCEPT ![nextIndexToReplace] = EmptyBucket]
       /\ currentBucket' = nextIndexToReplace
       /\ nextIndexToReplace' = IF nextIndexToReplace + 1 >= WindowSize
                                THEN 0 ELSE nextIndexToReplace + 1
       /\ UNCHANGED panicked
  ELSE panicked' = TRUE /\ UNCHANGED <<window, nextIndexToReplace, currentBucket>>

WindowNext ==
  /\ ~ panicked
  /\ \/ \E failed \in BOOLEAN :
          window[currentBucket].total < MaxPerBucket /\ Inc(failed)
     \/ Reset
     \/ Slide

WindowSpec == WindowInit /\ [][WindowNext]_windowVars

-----------------------------------------------------------------------------
\* The slider never indexes outside the ring: the goroutine started by
\* newBucketWindow for any number of buckets survives every tick.
NoPanic == ~ panicked

\* The slot that was current a ticks ago.
SlotOfAge(a) == IF a <= currentBucket THEN currentBucket - a
                ELSE currentBucket - a + WindowSize

\* The ring implements the sliding window the breaker is documented to use:
\* each tick forgets exactly the bucket that is WindowSize ticks old
\* (windowSlider, inc and reset together).
Recorder == INSTANCE SlidingWindow
              WITH Size <- WindowSize,
                   recent <- [a \in Slot |-> window[SlotOfAge(a)]]
SlidesAsDocumented == Recorder!Spec

\* The inductive invariant behind both: the next slot to be replaced is the
\* one after the current slot around the ring, hence the oldest.
RingInv ==
  /\ WindowTypeOK
  /\ ~ panicked
  /\ nextIndexToReplace = IF currentBucket + 1 = WindowSize THEN 0 ELSE currentBucket + 1
=============================================================================
