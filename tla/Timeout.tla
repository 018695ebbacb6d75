------------------------------ MODULE Timeout ------------------------------
(***************************************************************************)
(* The timeout runner (timeout/timeout.go) at the end of a chain: each     *)
(* execution has a goroutine of its own for the function, which outlives   *)
(* the execution when the deadline comes first.  The goroutine's call of   *)
(* next.Run is command.Run of goresilience.go, whose look at the context   *)
(* and whose call of the function are two steps: the deadline may pass,    *)
(* and the execution return, in between.  When an execution returns, its   *)
(* goroutine is over or its context is done already, so that cfg.Cancel    *)
(* makes no difference here, nor does a deadline that passes later; a      *)
(* context cancelled by the caller is a deadline that passes at once.      *)
(***************************************************************************)
EXTENDS Integers

CONSTANTS
  Calls,    \* calls of the runner in front, each with a context of its own
  Times     \* how often that runner may try again

\* The executions: every attempt of every call.
Executions == Calls \X (0 .. Times)

VARIABLES
  done,         \* executions whose context is done
  answer,       \* what each execution returned, or where it is
  goroutine,    \* where its goroutine is
  outcome,      \* what next.Run returned in it
  errc          \* executions with a result in the buffer of errc

timeoutVars == <<done, answer, goroutine, outcome, errc>>

Failures == {"failure", "ErrContextCanceled", "ErrTimeout"}
Outcomes == {"nil", "failure", "ErrContextCanceled"}

TimeoutTypeOK ==
  /\ done \subseteq Executions
  /\ answer \in [Executions -> {"none", "select", "nil"} \cup Failures]
  /\ goroutine \in [Executions -> {"none", "spawned", "checked", "running", "send", "ended"}]
  /\ outcome \in [Executions -> {"none"} \cup Outcomes]
  /\ errc \subseteq Executions

TimeoutInit ==
  /\ done = {}
  /\ answer = [x \in Executions |-> "none"]
  /\ goroutine = [x \in Executions |-> "none"]
  /\ outcome = [x \in Executions |-> "none"]
  /\ errc = {}

-----------------------------------------------------------------------------
\* <-ctx.Done() does not block.
ContextDone(x) == x \in done

\* Run up to its select.
StartExecution(x) ==
  /\ answer[x] = "none"
  /\ answer' = [answer EXCEPT ![x] = "select"]
  /\ goroutine' = [goroutine EXCEPT ![x] = "spawned"]
  /\ UNCHANGED <<done, outcome, errc>>

Deadline(x) ==
  /\ answer[x] = "select" /\ x \notin done
  /\ done' = done \cup {x}
  /\ UNCHANGED <<answer, goroutine, outcome, errc>>

\* A command that executes its function whatever the context says.
BuggyCommandRun(x) ==
  /\ goroutine[x] = "spawned"
  /\ goroutine' = [goroutine EXCEPT ![x] = "checked"]
  /\ UNCHANGED <<done, answer, outcome, errc>>

\* The select of command.Run: "Only execute if [...] the context has not been cancelled".
CommandRun(x) ==
  /\ goroutine[x] = "spawned"
  /\ IF ContextDone(x)
     THEN /\ goroutine' = [goroutine EXCEPT ![x] = "send"]
          /\ outcome' = [outcome EXCEPT ![x] = "ErrContextCanceled"]
     ELSE /\ goroutine' = [goroutine EXCEPT ![x] = "checked"]
          /\ UNCHANGED outcome
  /\ UNCHANGED <<done, answer, errc>>

\* return f(ctx) of its default, which does not look again.
CommandCalls(x) ==
  /\ goroutine[x] = "checked"
  /\ goroutine' = [goroutine EXCEPT ![x] = "running"]
  /\ UNCHANGED <<done, answer, outcome, errc>>

FuncReturns(x, err) ==
  /\ goroutine[x] = "running"
  /\ goroutine' = [goroutine EXCEPT ![x] = "send"]
  /\ outcome' = [outcome EXCEPT ![x] = err]
  /\ UNCHANGED <<done, answer, errc>>

\* A channel without a buffer: somebody has to be there.
BuggyCanSend(x) == answer[x] = "select"

\* errc has a buffer of one: sending blocks when a result is in it.
CanSend(x) == x \notin errc

\* errc <- next.Run(ctx, f)
SendResult(x) ==
  /\ goroutine[x] = "send" /\ CanSend(x)
  /\ goroutine' = [goroutine EXCEPT ![x] = "ended"]
  /\ errc' = errc \cup {x}
  /\ UNCHANGED <<done, answer, outcome>>

Return(x, err) == answer' = [answer EXCEPT ![x] = err]

\* One channel for all the executions of a call.
BuggyReceiveResult(x) ==
  /\ answer[x] = "select"
  /\ \E y \in errc : errc' = errc \ {y} /\ Return(x, outcome[y])
  /\ UNCHANGED <<done, goroutine, outcome>>

\* case err := <-errc
ReceiveResult(x) ==
  /\ answer[x] = "select" /\ x \in errc
  /\ errc' = errc \ {x}
  /\ Return(x, outcome[x])
  /\ UNCHANGED <<done, goroutine, outcome>>

\* A deadline that is looked at when the function is over.
BuggyTimesOut(x) ==
  /\ answer[x] = "select" /\ ContextDone(x) /\ goroutine[x] = "ended"
  /\ Return(x, "ErrTimeout")
  /\ UNCHANGED <<done, goroutine, outcome, errc>>

\* case <-ctx.Done(), which select may choose although a result is there.
TimesOut(x) ==
  /\ answer[x] = "select" /\ ContextDone(x)
  /\ Return(x, "ErrTimeout")
  /\ UNCHANGED <<done, goroutine, outcome, errc>>

Goroutine(x) == CommandRun(x) \/ CommandCalls(x) \/ SendResult(x)
Select(x) == ReceiveResult(x) \/ TimesOut(x)
=============================================================================
