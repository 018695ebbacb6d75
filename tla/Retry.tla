------------------------------- MODULE Retry -------------------------------
(***************************************************************************)
(* The retry runner (retry/retry.go) around the timeout runner, the inner  *)
(* chain of the hystrix example.  The attempts of a call follow each       *)
(* other, but the functions of attempts that timed out go on beside those  *)
(* of later ones.  How long a wait is makes no difference here.            *)
(***************************************************************************)
EXTENDS Timeout

ASSUME RetryAssumption == Times \in Nat \ {0}   \* Times is cfg.Times

VARIABLES
  place,      \* where each call of Run is
  attempt,    \* its i, the attempt made last
  err         \* its err, what that attempt returned

retryVars == <<place, attempt, err>>
vars == <<timeoutVars, retryVars>>

RetryTypeOK ==
  /\ TimeoutTypeOK
  /\ place \in [Calls -> {"idle", "attempt", "sleep", "returned"}]
  /\ attempt \in [Calls -> 0 .. Times]
  /\ err \in [Calls -> {"nil"} \cup Failures]

Init ==
  /\ TimeoutInit
  /\ place = [c \in Calls |-> "idle"]
  /\ attempt = [c \in Calls |-> 0]
  /\ err = [c \in Calls |-> "nil"]

-----------------------------------------------------------------------------
GoesTo(c, there) == place' = [place EXCEPT ![c] = there]

Run(c) ==
  /\ place[c] = "idle" /\ GoesTo(c, "attempt")
  /\ StartExecution(<<c, 0>>)
  /\ UNCHANGED <<attempt, err>>

\* next.Run has returned.
AttemptReturns(c) ==
  LET result == answer[<<c, attempt[c]>>] IN
  /\ place[c] = "attempt" /\ result \in {"nil"} \cup Failures
  /\ err' = [err EXCEPT ![c] = result]
  /\ GoesTo(c, IF result = "nil" THEN "returned" ELSE "sleep")
  /\ UNCHANGED <<timeoutVars, attempt>>

NextAttempt(c) ==
  /\ GoesTo(c, "attempt")
  /\ attempt' = [attempt EXCEPT ![c] = @ + 1]
  /\ StartExecution(<<c, attempt[c] + 1>>)

GiveUp(c) == GoesTo(c, "returned") /\ UNCHANGED <<timeoutVars, attempt>>

\* i < cfg.Times.
BuggyWake(c) ==
  /\ place[c] = "sleep"
  /\ IF attempt[c] + 1 < Times THEN NextAttempt(c) ELSE GiveUp(c)
  /\ UNCHANGED err

\* time.Sleep is over, which also follows the last attempt: the next attempt,
\* or return err.
Wake(c) ==
  /\ place[c] = "sleep"
  /\ IF attempt[c] < Times THEN NextAttempt(c) ELSE GiveUp(c)
  /\ UNCHANGED err

Caller(c) == Run(c) \/ AttemptReturns(c) \/ Wake(c)
Execution(x) == \/ Deadline(x) \/ Select(x) \/ Goroutine(x)
                \/ \E result \in {"nil", "failure"} : FuncReturns(x, result)
Next == (\E c \in Calls : Caller(c)) \/ ((\E x \in Executions : Execution(x)) /\ UNCHANGED retryVars)

Spec == Init /\ [][Next]_vars

-----------------------------------------------------------------------------
\* A call that succeeds had its success from the function of its last attempt,
\* never from the late function of an attempt it had given up or of another call,
\* and did not go on after it (the loop of retry with the channels of timeout).
SuccessIsGenuine ==
  \A c \in Calls : place[c] = "returned" /\ err[c] = "nil" =>
    /\ outcome[<<c, attempt[c]>>] = "nil"
    /\ \A i \in 0 .. Times : i < attempt[c] => answer[<<c, i>>] \in Failures
    /\ \A i \in 0 .. Times : i > attempt[c] => answer[<<c, i>>] = "none"

\* A call that fails has made all of its attempts, each of which failed, and
\* returns what the last one did (the loop of retry).
ErrorMeansAllFailed ==
  \A c \in Calls : place[c] = "returned" /\ err[c] # "nil" =>
    /\ \A i \in 0 .. Times : answer[<<c, i>>] \in Failures
    /\ err[c] = answer[<<c, Times>>]

\* A function still begins or goes on after its execution has returned only when its
\* goroutine had looked at the context before, and the execution then returned
\* ErrTimeout: a caller that gets any other answer, ErrContextCanceled too, leaves
\* no work behind (the look and the call of command.Run against the deadline and
\* the select of timeout).
AtWork(x) == goroutine[x] \in {"checked", "running"}
LateWorkTimedOut ==
  [][\A x \in Executions :
       answer[x] \notin {"none", "select"} /\ AtWork(x)'
         => AtWork(x) /\ answer[x] = "ErrTimeout"]_vars
=============================================================================
