------------------------------- MODULE Chaos -------------------------------
(***************************************************************************)
(* The chaos runner (chaos/inject.go).  A call reads the injector without  *)
(* its lock, and the counters of the calls so far in another critical      *)
(* section than the one it is counted in itself.                           *)
(***************************************************************************)
EXTENDS Integers, FiniteSets

CONSTANTS
  Calls,      \* callers, each of which calls again and again
  Percents,   \* what SetErrorPercent is called with
  MaxTotal    \* bound of the model: calls that are made

ASSUME ChaosAssumption ==
  /\ IsFiniteSet(Calls) /\ Percents \subseteq Int /\ 0 \in Percents /\ MaxTotal \in Nat

VARIABLES
  latency,        \* whether the injector's latency is more than none
  errorPercent,   \* of the injector
  total, errs,    \* of the failureInjector
  place,          \* where each caller is
  current,        \* its currentErrPerc
  err,            \* what its call returns
  lowest, highest,  \* history: the range of errorPercent so far
  returned          \* history: how many calls have returned what

injectorVars == <<latency, errorPercent, lowest, highest>>
counters == <<total, errs, returned>>
vars == <<injectorVars, counters, place, current, err>>

Errors == {"nil", "failure", "ErrFailureInjected"}

TypeOK ==
  /\ latency \in BOOLEAN
  /\ {errorPercent, lowest, highest} \subseteq 0 .. 100
  /\ total \in Nat /\ errs \in Nat
  /\ place \in [Calls -> {"idle", "sleep", "measure", "compare", "running", "count"}]
  /\ current \in [Calls -> -1 .. 100]
  /\ err \in [Calls -> Errors]
  /\ returned \in [Errors -> Nat]

\* The injector is set up before the runner is used, or left as it is.
Init ==
  /\ latency \in BOOLEAN
  /\ errorPercent \in Percents \cap 0 .. 100
  /\ lowest = errorPercent /\ highest = errorPercent
  /\ total = 0 /\ errs = 0
  /\ place = [c \in Calls |-> "idle"]
  /\ current = [c \in Calls |-> 0]
  /\ err = [c \in Calls |-> "nil"]
  /\ returned = [e \in Errors |-> 0]

-----------------------------------------------------------------------------
SetLatency(positive) ==
  /\ latency' = positive
  /\ UNCHANGED <<errorPercent, lowest, highest, counters, place, current, err>>

SetErrorPercent(percent) ==
  /\ percent <= 100 /\ percent >= 0
  /\ errorPercent' = percent
  /\ lowest' = IF percent < lowest THEN percent ELSE lowest
  /\ highest' = IF percent > highest THEN percent ELSE highest
  /\ UNCHANGED <<latency, counters, place, current, err>>

GoesTo(c, there) == place' = [place EXCEPT ![c] = there]

\* Run, which reads the latency.
InFlight == {c \in Calls : place[c] # "idle"}
Run(c) ==
  /\ place[c] = "idle" /\ total + Cardinality(InFlight) < MaxTotal
  /\ GoesTo(c, IF latency THEN "sleep" ELSE "measure")
  /\ UNCHANGED <<injectorVars, counters, current, err>>

\* time.Sleep(lat) is over.
Wake(c) ==
  /\ place[c] = "sleep" /\ GoesTo(c, "measure")
  /\ UNCHANGED <<injectorVars, counters, current, err>>

\* The error rate computed in integers.
BuggyCurrentErrPercs == IF total = 0 THEN {0} ELSE {(errs \div total) * 100}

\* What int((float64(errs) / float64(total)) * 100) may be.  0/0 is NaN, whose
\* conversion is 0 or the least int (here -1), depending on the architecture; of some
\* quotients with a whole percentage the float is less by a bit: 29/100 gives 28.
CurrentErrPercs ==
  IF total = 0 THEN {0, -1}
  ELSE LET percent == (errs * 100) \div total IN
       {percent} \cup (IF (errs * 100) % total = 0 /\ 0 < errs /\ errs < total
                       THEN {percent - 1} ELSE {})

\* currentErrPerc = ..., holding f.mu.
Measure(c) ==
  /\ place[c] = "measure" /\ GoesTo(c, "compare")
  /\ \E percent \in CurrentErrPercs : current' = [current EXCEPT ![c] = percent]
  /\ UNCHANGED <<injectorVars, counters, err>>

\* if currentErrPerc < f.cfg.Injector.errorPercent
Compare(c) ==
  /\ place[c] = "compare"
  /\ IF current[c] < errorPercent
     THEN GoesTo(c, "count") /\ err' = [err EXCEPT ![c] = "ErrFailureInjected"]
     ELSE GoesTo(c, "running") /\ UNCHANGED err
  /\ current' = [current EXCEPT ![c] = 0]
  /\ UNCHANGED <<injectorVars, counters>>

\* f.runner.Run(ctx, fn)
FuncReturns(c, e) ==
  /\ place[c] = "running" /\ GoesTo(c, "count")
  /\ err' = [err EXCEPT ![c] = e]
  /\ UNCHANGED <<injectorVars, counters, current>>

\* The end of a call, with this much more in errs.
Return(c, more) ==
  /\ place[c] = "count" /\ GoesTo(c, "idle")
  /\ total' = total + 1 /\ errs' = errs + more
  /\ returned' = [returned EXCEPT ![err[c]] = @ + 1]
  /\ err' = [err EXCEPT ![c] = "nil"]
  /\ UNCHANGED <<injectorVars, current>>

\* Counting an injected error where it is decided, and once more here.
BuggyCount(c) == Return(c, CASE err[c] = "nil" -> 0 [] err[c] = "failure" -> 1 [] OTHER -> 2)

\* The deferred function, holding f.mu.
Count(c) == Return(c, IF err[c] = "nil" THEN 0 ELSE 1)

Caller(c) == \/ Run(c) \/ Wake(c) \/ Measure(c) \/ Compare(c) \/ Count(c)
             \/ \E e \in {"nil", "failure"} : FuncReturns(c, e)

Next == \/ \E c \in Calls : Caller(c)
        \/ \E positive \in BOOLEAN : SetLatency(positive)
        \/ \E percent \in Percents : SetErrorPercent(percent)

Spec == Init /\ [][Next]_vars

-----------------------------------------------------------------------------
\* Of the calls that return, no larger part has an injected error than the largest
\* percentage set, but for one call of each caller (the counters read in one
\* critical section and written in another, the injector changing in between).
NeverTooManyInjected ==
  LET calls == returned["nil"] + returned["failure"] + returned["ErrFailureInjected"]
  IN  100 * returned["ErrFailureInjected"] <= highest * calls + 100 * Cardinality(Calls)

\* Of the calls that return, no smaller part fails than the smallest percentage
\* set, but for one call of each caller, however the callers and the failures of
\* their functions interleave (the same critical sections).
NeverTooFewFail ==
  LET failed == returned["failure"] + returned["ErrFailureInjected"]
  IN  100 * failed + lowest * Cardinality(Calls) >= lowest * (returned["nil"] + failed)
=============================================================================
