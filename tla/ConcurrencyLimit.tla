-------------------------- MODULE ConcurrencyLimit --------------------------
(***************************************************************************)
(* The concurrency limit runner (concurrencylimit/concurrencylimit.go)     *)
(* with the AIMD limiter, over any executor that keeps its contract: the   *)
(* calls of Run, each in its caller's goroutine, feed the limiter and      *)
(* resize the executor's pool one after the other, without a lock from the *)
(* first to the second.                                                    *)
(***************************************************************************)
EXTENDS Aimd, FiniteSets

CONSTANTS
  Calls,              \* calls of Run
  RejectedNeverRun,   \* the executor never executes a call it rejected: fifo only
  Policy              \* the ExecutionResultPolicy

Policies == {"FailureOnRejected", "FailureOnExternalError", "NoFailure"}

ASSUME RunnerAssumption ==
  /\ IsFiniteSet(Calls) /\ Cardinality(Calls) <= MaxInflight
  /\ RejectedNeverRun \in BOOLEAN /\ Policy \in Policies

VARIABLES
  func, reply,        \* the executor's
  quantity,           \* the workers that it was last asked for
  stage,              \* where each call is
  err,                \* what Execute returns to it
  currentInflights,   \* the number of calls in flight it left behind
  newLimit,           \* the limit that the limiter gave it
  inflights,          \* c.inflights
  executing           \* c.executing

executorVars == <<func, reply>>
runVars == <<stage, err, currentInflights, newLimit>>
vars == <<limit, executorVars, quantity, runVars, inflights, executing>>

Executor == INSTANCE ExecutorContract

TypeOK ==
  /\ limit \in Nat /\ quantity \in Nat
  /\ func \in [Calls -> {"notrun", "running", "finished"}]
  /\ reply \in [Calls -> {"none", "result", "rejected"}]
  /\ stage \in [Calls -> {"idle", "execute", "measure", "resize", "returned"}]
  /\ err \in [Calls -> {"nil", "failure", "ErrRejectedExecution"}]
  /\ currentInflights \in [Calls -> 0 .. MaxInflight]
  /\ newLimit \in [Calls -> Nat]
  /\ inflights \in 0 .. MaxInflight
  /\ executing \in 0 .. MaxInflight

\* NewMiddleware: SetWorkerQuantity(GetLimit()) on a new executor.
Init ==
  /\ LimitInit
  /\ Executor!Init /\ quantity = GetLimit
  /\ stage = [c \in Calls |-> "idle"]
  /\ err = [c \in Calls |-> "nil"]
  /\ currentInflights = [c \in Calls |-> 0]
  /\ newLimit = [c \in Calls |-> 0]
  /\ inflights = 0 /\ executing = 0

-----------------------------------------------------------------------------
At(c, s) == stage[c] = s
GoTo(c, s) == stage' = [stage EXCEPT ![c] = s]

\* c.inflights.Inc(), and into Executor.Execute.
Enter(c) ==
  /\ At(c, "idle") /\ GoTo(c, "execute")
  /\ inflights' = inflights + 1
  /\ UNCHANGED <<limit, executorVars, quantity, err, currentInflights, newLimit, executing>>

Rejected(c) ==
  /\ At(c, "execute") /\ Executor!Reject(c)
  /\ err' = [err EXCEPT ![c] = "ErrRejectedExecution"]
  /\ UNCHANGED <<limit, quantity, stage, currentInflights, newLimit, inflights, executing>>

Answered(c) ==
  /\ Executor!Answer(c)
  /\ UNCHANGED <<limit, quantity, runVars, inflights, executing>>

\* The function given to Execute, in its worker, in time or late: c.executing.Inc() ...
StartFunc(c) ==
  /\ ~ At(c, "idle") /\ Executor!Run(c)
  /\ executing' = executing + 1
  /\ UNCHANGED <<limit, quantity, runVars, inflights>>

\* A decrement after the function, that a function which fails leaves out.
BuggyFinishFunc(c, outcome) ==
  /\ Executor!Finish(c)
  /\ executing' = IF outcome = "failure" THEN executing ELSE executing - 1
  /\ err' = [err EXCEPT ![c] = IF reply[c] = "none" THEN outcome ELSE @]
  /\ UNCHANGED <<limit, quantity, stage, currentInflights, newLimit, inflights>>

\* ... c.runner.Run(ctx, f) and, deferred, c.executing.Dec()
FinishFunc(c, outcome) ==
  /\ Executor!Finish(c)
  /\ executing' = executing - 1
  /\ err' = [err EXCEPT ![c] = IF reply[c] = "none" THEN outcome ELSE @]
  /\ UNCHANGED <<limit, quantity, stage, currentInflights, newLimit, inflights>>

\* The number of calls in flight that Inc has returned, this one included.
BuggyLeave(c) ==
  /\ At(c, "execute") /\ reply[c] # "none"
  /\ inflights' = inflights - 1
  /\ currentInflights' = [currentInflights EXCEPT ![c] = inflights]
  /\ GoTo(c, "measure")
  /\ UNCHANGED <<limit, executorVars, quantity, err, newLimit, executing>>

\* currentInflights = c.inflights.Dec()
Leave(c) ==
  /\ At(c, "execute") /\ reply[c] # "none"
  /\ inflights' = inflights - 1
  /\ currentInflights' = [currentInflights EXCEPT ![c] = inflights - 1]
  /\ GoTo(c, "measure")
  /\ UNCHANGED <<limit, executorVars, quantity, err, newLimit, executing>>

\* The policies of policy.go.
ExecutionResultPolicy(e) ==
  CASE e = "nil" -> "success"
    [] e = "failure" /\ Policy = "FailureOnExternalError" -> "failure"
    [] e = "ErrRejectedExecution" /\ Policy = "FailureOnRejected" -> "failure"
    [] OTHER -> "ignore"

\* Run returns.
Return(c) ==
  /\ GoTo(c, "returned")
  /\ err' = [err EXCEPT ![c] = "nil"]
  /\ currentInflights' = [currentInflights EXCEPT ![c] = 0]
  /\ newLimit' = [newLimit EXCEPT ![c] = 0]
  /\ UNCHANGED <<limit, executorVars, inflights, executing>>

Ignore(c) ==
  /\ At(c, "measure") /\ ExecutionResultPolicy(err[c]) = "ignore"
  /\ Return(c) /\ UNCHANGED quantity

\* Limiter.MeasureSample
Measure(c) ==
  /\ At(c, "measure") /\ ExecutionResultPolicy(err[c]) # "ignore"
  /\ \E slow \in BOOLEAN :
       MeasureSample(currentInflights[c], ExecutionResultPolicy(err[c]), slow)
  /\ newLimit' = [newLimit EXCEPT ![c] = GetLimit']
  /\ GoTo(c, "resize")
  /\ UNCHANGED <<executorVars, quantity, err, currentInflights, inflights, executing>>

\* A pool that is only resized when it has to grow.
BuggySetLimit(c) ==
  /\ At(c, "resize")
  /\ quantity' = IF newLimit[c] > quantity THEN newLimit[c] ELSE quantity
  /\ Return(c)

\* Executor.SetWorkerQuantity
SetLimit(c) ==
  /\ At(c, "resize")
  /\ quantity' = newLimit[c]
  /\ Return(c)

\* Bound of the model: a new call takes the name of one that has returned, once
\* its function does not run any more.
Recur(c) ==
  /\ At(c, "returned") /\ GoTo(c, "idle")
  /\ Executor!Again(c)
  /\ UNCHANGED <<limit, quantity, err, currentInflights, newLimit, inflights, executing>>

Run(c) == \/ Rejected(c) \/ Answered(c) \/ Leave(c)
          \/ Ignore(c) \/ Measure(c) \/ SetLimit(c)
Worker(c) == \/ StartFunc(c)
             \/ \E outcome \in {"nil", "failure"} : FinishFunc(c, outcome)

Next == \E c \in Calls : Enter(c) \/ Run(c) \/ Worker(c) \/ Recur(c)

Spec == Init /\ [][Next]_vars

-----------------------------------------------------------------------------
\* The counters count what they are named after: the calls between Inc and Dec,
\* rejected ones included, and the functions inside a worker, late ones included (Run).
CountersAreExact ==
  /\ inflights = Cardinality({c \in Calls : stage[c] = "execute"})
  /\ executing = Cardinality({c \in Calls : func[c] = "running"})

\* Whatever order the callers come to the pool in, the pool is never set below
\* the limiter's minimum, so the executor never stops for good (Run with
\* decreaseLimit).
PoolKeepsMinimum == quantity >= MinimumLimit

\* Nor is it ever set beyond what the other calls ask for, however the samples and
\* the resizings of the callers overtake each other: a call does not ask for a
\* worker for itself (Run, from inflights.Dec() to MeasureSample).
PoolNeverOutgrowsCalls == AskedFor(quantity, Cardinality(Calls) - 1)

\* A limit that does not change any more becomes the size of the pool as long as
\* calls are measured, although limits given out before may be applied late, in
\* any order, or never (Run, from MeasureSample to SetWorkerQuantity).
PoolFollowsLimit ==
  <>[][limit' = limit]_limit /\ []<><<\E c \in Calls : Measure(c)>>_vars
    => <>[](quantity = GetLimit)
=============================================================================
