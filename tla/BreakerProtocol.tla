-------------------------- MODULE BreakerProtocol --------------------------
(***************************************************************************)
(* Which evidence every change of the circuit breaker's state rests on.    *)
(* The promise is the comment of circuitbreaker.New, and departs from it   *)
(* in three places, where that comment does not hold even for one caller:  *)
(*   - a circuit trips at the threshold already, not only above it;        *)
(*   - the slider may drop results, or all of them, between two looks at   *)
(*     the recorder and before the move that follows: then a circuit is    *)
(*     only promised to trip on some error, and to close although a probe  *)
(*     before the last has failed;                                         *)
(*   - with all of them dropped it may open again without a failed probe.  *)
(***************************************************************************)
EXTENDS Naturals

CONSTANTS ErrorPercentThresholdToOpen, MinimumRequestToOpen, SuccessfulRequiredOnHalfOpen

VARIABLES
  phase,        \* the state of the circuit
  waited,       \* it has been in this state for WaitDurationInOpenState
  results,      \* results recorded in this state
  failures,     \* the errors among them
  lastFailed,   \* the last of them was an error
  kept          \* "all", "some" or "none" of them are remembered

protocolVars == <<phase, waited, results, failures, lastFailed, kept>>

\* Once some are forgotten, counting further makes no difference to any guard.
Enough == IF MinimumRequestToOpen > SuccessfulRequiredOnHalfOpen
          THEN MinimumRequestToOpen ELSE SuccessfulRequiredOnHalfOpen
UpTo(most, n) == IF n > most THEN most ELSE n

Init == /\ phase = "closed" /\ waited = FALSE
        /\ results = 0 /\ failures = 0 /\ lastFailed = FALSE /\ kept = "all"

Record(failed) ==
  /\ results' = IF kept = "all" THEN results + 1 ELSE UpTo(Enough, results + 1)
  /\ failures' = IF ~ failed THEN failures ELSE IF kept = "all" THEN failures + 1 ELSE 1
  /\ lastFailed' = failed
  /\ kept' = IF kept = "none" THEN "some" ELSE kept
  /\ UNCHANGED <<phase, waited>>

\* "the oldest bucket [...] will be deleted": results that were still remembered.
Forget ==
  /\ results > 0
  /\ kept' \in IF kept = "none" THEN {"none"} ELSE {"some", "none"}
  /\ results' = UpTo(Enough, results) /\ failures' = UpTo(1, failures)
  /\ UNCHANGED <<phase, waited, lastFailed>>

WaitElapses == waited' = TRUE /\ UNCHANGED <<phase, results, failures, lastFailed, kept>>

\* "On every state change the recorded metrics will be reset."
Enter(new) == /\ phase' = new /\ waited' = FALSE
              /\ results' = 0 /\ failures' = 0 /\ lastFailed' = FALSE /\ kept' = "all"

\* "the error percent is greater that the configured threshold [...] and at least it
\* made N executions": at least, and of what is remembered.
MayTrip ==
  /\ phase = "closed" /\ results >= MinimumRequestToOpen /\ failures > 0
  /\ kept = "all" => failures * 100 >= ErrorPercentThresholdToOpen * results

\* "when N executions have been made [...] if all have been ok": of those remembered.
EnoughProbes == phase = "halfopen" /\ results >= SuccessfulRequiredOnHalfOpen
MayClose == EnoughProbes /\ ~ lastFailed /\ (kept = "all" => failures = 0)

\* "if not it will move to open state": or with none remembered.
MayReopen == EnoughProbes /\ (failures > 0 \/ kept = "none")

Trip == MayTrip /\ Enter("open")
Probe == phase = "open" /\ waited /\ Enter("halfopen")
Close == MayClose /\ Enter("closed")
Reopen == MayReopen /\ Enter("open")

Next == \/ \E failed \in BOOLEAN : Record(failed)
        \/ Forget \/ WaitElapses \/ Trip \/ Probe \/ Close \/ Reopen

Spec == Init /\ [][Next]_protocolVars
=============================================================================
