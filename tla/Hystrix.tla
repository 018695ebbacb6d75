------------------------------ MODULE Hystrix ------------------------------
(***************************************************************************)
(* A bulkhead in front of retry in front of timeout, put together by       *)
(* RunnerChain as in the hystrix example (examples/hystrix/main.go), with  *)
(* a MaxWaitTime and without a StopC.  b.runner.Run in a worker of the     *)
(* bulkhead is a call of retry.  Functions that timed out run on beside    *)
(* the pool, and may never return.                                         *)
(***************************************************************************)
EXTENDS Retry, FiniteSets

CONSTANTS Workers, NoJob

ASSUME ChainAssumption == IsFiniteSet(Workers) /\ IsFiniteSet(Calls) /\ NoJob \notin Calls

VARIABLES maxWait, worker, job, stopped, call, sending, func,
          queued, processed, timeouts   \* the bulkhead's

Bulkhead == INSTANCE Bulkhead

bulkheadVars ==
  <<maxWait, worker, job, stopped, call, sending, func, queued, processed, timeouts>>
chainVars == <<vars, bulkheadVars>>

ChainInit == Init /\ Bulkhead!Init /\ maxWait = TRUE

-----------------------------------------------------------------------------
\* bulkhead.Run, in the caller's goroutine.
CallGoesOn(c) == /\ Bulkhead!Offer(c) \/ Bulkhead!Reject(c) \/ Bulkhead!GetResult(c)
                 /\ UNCHANGED vars
CallOrTimer(c) == (Bulkhead!Run(c) \/ Bulkhead!MaxWaitTime(c)) /\ UNCHANGED vars

WorkerOutside(w) == (Bulkhead!StartWorker(w) \/ Bulkhead!ReceiveJob(w)) /\ UNCHANGED vars

\* job(): resC <- b.runner.Run(ctx, f), a call of retry's Run from its beginning ...
RunChain(w) == Bulkhead!RunJob(w) /\ Run(job[w])

\* A worker that leaves the call of retry to itself.
BuggyChainReturns(w) == Bulkhead!FinishJob(w) /\ UNCHANGED vars

\* ... to its end.
ChainReturns(w) == /\ worker[w] = "job" /\ place[job[w]] = "returned"
                   /\ Bulkhead!FinishJob(w) /\ UNCHANGED vars

WorkerStep(w) == WorkerOutside(w) \/ RunChain(w) \/ ChainReturns(w)
RetryStep(c) == (AttemptReturns(c) \/ Wake(c)) /\ UNCHANGED bulkheadVars
ExecutionStep(x) == Execution(x) /\ UNCHANGED <<retryVars, bulkheadVars>>

ChainNext ==
  \/ \E c \in Calls : CallGoesOn(c) \/ CallOrTimer(c) \/ RetryStep(c)
  \/ \E w \in Workers : WorkerStep(w)
  \/ \E x \in Executions : ExecutionStep(x)

ChainSpec == ChainInit /\ [][ChainNext]_chainVars

\* Goroutines are scheduled, timers fire and waits end.  No function has to return.
ChainFairSpec ==
  /\ ChainSpec
  /\ \A c \in Calls : /\ WF_chainVars(CallGoesOn(c)) /\ WF_chainVars(RetryStep(c))
                      /\ WF_chainVars(Bulkhead!MaxWaitTime(c) /\ UNCHANGED vars)
  /\ \A w \in Workers : WF_chainVars(WorkerStep(w))
  /\ \A x \in Executions :
       /\ WF_chainVars((Deadline(x) \/ Select(x)) /\ UNCHANGED <<retryVars, bulkheadVars>>)
       /\ WF_chainVars(Goroutine(x) /\ UNCHANGED <<retryVars, bulkheadVars>>)

-----------------------------------------------------------------------------
\* A worker always comes back, although the functions given to the chain may hang
\* for ever: the functions of a bulkhead return, on which its own promises rest,
\* when they are calls of a chain with a timeout (the bulkhead's worker around the
\* loop of retry around the select of timeout).
WorkersComeBack == \A w \in Workers : worker[w] = "job" ~> worker[w] = "select"

\* What the bulkhead limits is the attempts somebody waits for: each of them holds
\* a worker of its own.  Functions left behind are not among them (the worker's
\* job around the loop of retry and the select of timeout).
Attended == {x \in Executions : answer[x] = "select"}
AttemptsHoldWorkers ==
  /\ \A x \in Attended : \E w \in Workers : worker[w] = "job" /\ job[w] = x[1]
  /\ Cardinality(Attended) <= Cardinality({w \in Workers : worker[w] = "job"})

\* The goroutine of an execution never blocks on sending its result, also when
\* nobody waits for it any more (the buffer of errc, with the select of timeout).
NoGoroutineLeak == \A x \in Executions : goroutine[x] = "send" => CanSend(x)
=============================================================================
