--------------------------- MODULE HystrixProofs ---------------------------
(***************************************************************************)
(* Theorems about retry around timeout, and about the bulkhead around      *)
(* them, for any calls, any workers and any number of attempts.            *)
(***************************************************************************)
EXTENDS Hystrix, SequenceLemmas, FunctionTheorems

Returned == {"nil"} \cup Failures

\* What the timeout runner keeps to: an outcome is there as soon as the function
\* is over, an execution that succeeded had it from its own goroutine, and one
\* that has returned leaves behind a goroutine that is over, or has timed out with
\* its context done.
ExecutionInv(x) ==
  /\ answer[x] = "none" <=> goroutine[x] = "none"
  /\ goroutine[x] \in {"send", "ended"} => outcome[x] \in Outcomes
  /\ x \in errc => goroutine[x] = "ended"
  /\ answer[x] = "nil" => outcome[x] = "nil" /\ goroutine[x] = "ended"
  /\ answer[x] \in Returned \ {"ErrTimeout"} => goroutine[x] = "ended"
  /\ answer[x] = "ErrTimeout" => ContextDone(x)

\* What the loop of a call keeps to: the attempts before the current one have
\* failed, and those after it have not been made.
LoopInv(c) ==
  /\ place[c] = "idle" => attempt[c] = 0 /\ \A i \in 0 .. Times : answer[<<c, i>>] = "none"
  /\ place[c] # "idle" => answer[<<c, attempt[c]>>] # "none"
  /\ \A i \in 0 .. Times : i < attempt[c] => answer[<<c, i>>] \in Failures
  /\ \A i \in 0 .. Times : i > attempt[c] => answer[<<c, i>>] = "none"
  /\ place[c] \in {"sleep", "returned"} => err[c] = answer[<<c, attempt[c]>>]
  /\ place[c] = "sleep" => err[c] \in Failures
  /\ place[c] = "returned" => err[c] = "nil" \/ attempt[c] = Times

RetryInv ==
  /\ RetryTypeOK
  /\ \A x \in Executions : ExecutionInv(x)
  /\ \A c \in Calls : LoopInv(c)

LEMMA AttemptIsExecution ==
  ASSUME NEW c \in Calls, NEW i \in 0 .. Times
  PROVE  <<c, i>> \in Executions
BY DEF Executions

\* A step of an execution that has been started keeps the loops' part: the
\* execution only moves from "select" to an answer.
LEMMA ExecutionKeepsLoop ==
  ASSUME RetryTypeOK, NEW c \in Calls, LoopInv(c), NEW x \in Executions, UNCHANGED retryVars,
         NEW a \in {"select"} \cup Returned,
         answer' = [answer EXCEPT ![x] = a], answer[x] = "select"
  PROVE  LoopInv(c)'
<1> USE RetryAssumption DEF RetryTypeOK, TimeoutTypeOK, LoopInv, retryVars, Returned, Failures
<1>1. \A i \in 0 .. Times : answer'[<<c, i>>] = IF <<c, i>> = x THEN a ELSE answer[<<c, i>>]
  BY AttemptIsExecution
<1>2. \A i \in 0 .. Times : <<c, i>> = x => i = attempt[c] /\ place[c] = "attempt"
  OBVIOUS
<1> QED
  BY <1>1, <1>2

\* A step of one call, which starts at most one execution of its own, leaves the
\* loops of the others alone.
LEMMA OtherLoopsKept ==
  ASSUME RetryTypeOK, NEW c \in Calls, NEW d \in Calls \ {c}, LoopInv(d),
         \A i \in 0 .. Times : answer'[<<d, i>>] = answer[<<d, i>>],
         place'[d] = place[d], attempt'[d] = attempt[d], err'[d] = err[d]
  PROVE  LoopInv(d)'
<1>1. attempt[d] \in 0 .. Times
  BY DEF RetryTypeOK
<1> QED
  BY <1>1 DEF LoopInv

\* Starting an attempt that has not been made gives the execution a goroutine.
LEMMA StartKeepsExecutions ==
  ASSUME RetryTypeOK, \A x \in Executions : ExecutionInv(x),
         NEW x \in Executions, StartExecution(x)
  PROVE  TimeoutTypeOK' /\ \A y \in Executions : ExecutionInv(y)'
BY DEF RetryTypeOK, TimeoutTypeOK, ExecutionInv, StartExecution, ContextDone,
       Returned, Failures, Outcomes

LEMMA RetryInvHolds == Spec => []RetryInv
<1> USE RetryAssumption
<1>1. Init => RetryInv
  <2> SUFFICES ASSUME Init PROVE RetryInv
    OBVIOUS
  <2> USE DEF Init, TimeoutInit
  <2>1. RetryTypeOK
    <3>1. 0 \in 0 .. Times
      OBVIOUS
    <3>2. /\ answer \in [Executions -> {"none", "select", "nil"} \cup Failures]
          /\ goroutine \in [Executions -> {"none", "spawned", "checked", "running", "send", "ended"}]
          /\ outcome \in [Executions -> {"none"} \cup Outcomes]
      OBVIOUS
    <3>3. /\ place \in [Calls -> {"idle", "attempt", "sleep", "returned"}]
          /\ attempt \in [Calls -> 0 .. Times]
          /\ err \in [Calls -> {"nil"} \cup Failures]
      BY <3>1
    <3> QED
      BY <3>2, <3>3, Zenon DEF RetryTypeOK, TimeoutTypeOK
  <2>2. \A x \in Executions : ExecutionInv(x)
    BY DEF ExecutionInv, Returned, Failures
  <2>3. ASSUME NEW c \in Calls PROVE LoopInv(c)
    <3>1. \A i \in 0 .. Times : answer[<<c, i>>] = "none"
      BY AttemptIsExecution
    <3>2. place[c] = "idle" /\ attempt[c] = 0
      OBVIOUS
    <3> QED
      BY <3>1, <3>2 DEF LoopInv
  <2> QED
    BY <2>1, <2>2, <2>3 DEF RetryInv
<1>2. RetryInv /\ [Next]_vars => RetryInv'
  <2> SUFFICES ASSUME RetryInv, [Next]_vars PROVE RetryInv'
    OBVIOUS
  <2> USE DEF RetryInv
  <2>1. ASSUME NEW c \in Calls, Run(c) PROVE RetryInv'
    <3>1. <<c, 0>> \in Executions
      BY AttemptIsExecution
    <3>2. RetryTypeOK' /\ \A x \in Executions : ExecutionInv(x)'
      BY <2>1, <3>1, StartKeepsExecutions DEF Run, GoesTo, RetryTypeOK
    <3>3. \A x \in Executions : answer'[x] = IF x = <<c, 0>> THEN "select" ELSE answer[x]
      BY <2>1, <3>1 DEF Run, StartExecution, RetryTypeOK, TimeoutTypeOK
    <3>4. LoopInv(c)'
      BY <2>1, <3>3, AttemptIsExecution DEF Run, GoesTo, LoopInv, RetryTypeOK, Failures
    <3>5. ASSUME NEW d \in Calls \ {c} PROVE LoopInv(d)'
      BY <2>1, <3>3, <3>5, AttemptIsExecution, OtherLoopsKept DEF Run, GoesTo, RetryTypeOK
    <3> QED
      BY <3>2, <3>4, <3>5
  <2>2. ASSUME NEW c \in Calls, AttemptReturns(c) PROVE RetryInv'
    <3>1. RetryTypeOK' /\ \A x \in Executions : ExecutionInv(x)'
      BY <2>2 DEF AttemptReturns, timeoutVars, GoesTo, RetryTypeOK, TimeoutTypeOK,
                  ExecutionInv, ContextDone
    <3>2. LoopInv(c)'
      BY <2>2 DEF AttemptReturns, timeoutVars, GoesTo, LoopInv, RetryTypeOK, Failures
    <3>3. ASSUME NEW d \in Calls \ {c} PROVE LoopInv(d)'
      BY <2>2, <3>3, OtherLoopsKept DEF AttemptReturns, timeoutVars, GoesTo, RetryTypeOK
    <3> QED
      BY <3>1, <3>2, <3>3
  <2>3. ASSUME NEW c \in Calls, Wake(c), attempt[c] < Times PROVE RetryInv'
    <3> DEFINE i == attempt[c] + 1
    <3>1. i \in 0 .. Times /\ <<c, i>> \in Executions
      BY <2>3, AttemptIsExecution DEF RetryTypeOK
    <3>2. NextAttempt(c) /\ place[c] = "sleep" /\ err' = err
      BY <2>3 DEF Wake
    <3>3. RetryTypeOK' /\ \A x \in Executions : ExecutionInv(x)'
      BY <3>1, <3>2, StartKeepsExecutions DEF NextAttempt, GoesTo, RetryTypeOK
    <3>4. \A x \in Executions : answer'[x] = IF x = <<c, i>> THEN "select" ELSE answer[x]
      BY <3>1, <3>2 DEF NextAttempt, StartExecution, RetryTypeOK, TimeoutTypeOK
    <3>5. LoopInv(c)'
      <4>1. place'[c] = "attempt" /\ attempt'[c] = i
        BY <3>2 DEF NextAttempt, GoesTo, RetryTypeOK
      <4>2. \A j \in 0 .. Times :
              answer'[<<c, j>>] = IF j = i THEN "select" ELSE answer[<<c, j>>]
        BY <3>4, AttemptIsExecution
      <4>3. answer[<<c, attempt[c]>>] \in Failures /\ attempt[c] \in 0 .. Times
        BY <3>2 DEF LoopInv, RetryTypeOK
      <4> QED
        BY <3>1, <4>1, <4>2, <4>3 DEF LoopInv
    <3>6. ASSUME NEW d \in Calls \ {c} PROVE LoopInv(d)'
      BY <3>2, <3>4, <3>6, AttemptIsExecution, OtherLoopsKept
         DEF NextAttempt, GoesTo, RetryTypeOK
    <3> QED
      BY <3>3, <3>5, <3>6
  <2>4. ASSUME NEW c \in Calls, Wake(c), ~ (attempt[c] < Times) PROVE RetryInv'
    <3>1. /\ place[c] = "sleep" /\ GoesTo(c, "returned")
          /\ UNCHANGED <<timeoutVars, attempt, err>>
      BY <2>4 DEF Wake, GiveUp
    <3>2. RetryTypeOK' /\ \A x \in Executions : ExecutionInv(x)'
      BY <3>1 DEF timeoutVars, GoesTo, RetryTypeOK, TimeoutTypeOK, ExecutionInv, ContextDone
    <3>3. LoopInv(c)'
      BY <2>4, <3>1 DEF timeoutVars, GoesTo, LoopInv, RetryTypeOK
    <3>4. ASSUME NEW d \in Calls \ {c} PROVE LoopInv(d)'
      BY <3>1, <3>4, OtherLoopsKept DEF timeoutVars, GoesTo, RetryTypeOK
    <3> QED
      BY <3>2, <3>3, <3>4
  <2>5. ASSUME NEW x \in Executions, Execution(x), UNCHANGED retryVars PROVE RetryInv'
    <3> USE DEF RetryTypeOK, TimeoutTypeOK, retryVars
    <3>1. CASE Deadline(x)
      <4>1. \A c \in Calls : LoopInv(c)'
        BY <2>5, <3>1 DEF Deadline, LoopInv
      <4> QED
        BY <2>5, <3>1, <4>1 DEF Deadline, ExecutionInv, ContextDone
    <3>2. CASE ReceiveResult(x)
      <4>1. outcome[x] \in Outcomes /\ Outcomes \subseteq Returned
        BY <3>2 DEF ReceiveResult, ExecutionInv, Outcomes, Returned, Failures
      <4>2. \A c \in Calls : LoopInv(c)'
        BY <2>5, <3>2, <4>1, ExecutionKeepsLoop DEF ReceiveResult, Return
      <4> QED
        BY <2>5, <3>2, <4>1, <4>2
           DEF ReceiveResult, Return, ExecutionInv, ContextDone, Returned, Failures, Outcomes
    <3>3. CASE TimesOut(x)
      <4>1. \A c \in Calls : LoopInv(c)'
        BY <2>5, <3>3, ExecutionKeepsLoop DEF TimesOut, Return, Returned, Failures
      <4> QED
        BY <2>5, <3>3, <4>1 DEF TimesOut, Return, ExecutionInv, ContextDone, Returned, Failures
    <3>4. CASE CommandRun(x)
      <4>1. \A c \in Calls : LoopInv(c)'
        BY <2>5, <3>4 DEF CommandRun, LoopInv
      <4> QED
        BY <2>5, <3>4, <4>1 DEF CommandRun, ExecutionInv, ContextDone, Outcomes
    <3>5. CASE CommandCalls(x)
      <4>1. \A c \in Calls : LoopInv(c)'
        BY <2>5, <3>5 DEF CommandCalls, LoopInv
      <4> QED
        BY <2>5, <3>5, <4>1 DEF CommandCalls, ExecutionInv, ContextDone
    <3>6. CASE SendResult(x)
      <4>1. \A c \in Calls : LoopInv(c)'
        BY <2>5, <3>6 DEF SendResult, LoopInv
      <4> QED
        BY <2>5, <3>6, <4>1 DEF SendResult, ExecutionInv, ContextDone
    <3>7. ASSUME NEW result \in {"nil", "failure"}, FuncReturns(x, result) PROVE RetryInv'
      <4>1. \A c \in Calls : LoopInv(c)'
        BY <2>5, <3>7 DEF FuncReturns, LoopInv
      <4> QED
        BY <2>5, <3>7, <4>1 DEF FuncReturns, ExecutionInv, ContextDone, Outcomes
    <3> QED
      BY <2>5, <3>1, <3>2, <3>3, <3>4, <3>5, <3>6, <3>7 DEF Execution, Select, Goroutine
  <2>6. CASE UNCHANGED vars
    BY <2>6 DEF vars, timeoutVars, retryVars, RetryTypeOK, TimeoutTypeOK, ExecutionInv,
                ContextDone, LoopInv
  <2> QED
    BY <2>1, <2>2, <2>3, <2>4, <2>5, <2>6 DEF Next, Caller
<1> QED
  BY <1>1, <1>2, PTL DEF Spec

-----------------------------------------------------------------------------
\* Type correctness, for any calls and any number of attempts (retry around timeout).
THEOREM RetryTypeCorrect == Spec => []RetryTypeOK
<1>1. RetryInv => RetryTypeOK
  BY DEF RetryInv
<1> QED
  BY <1>1, RetryInvHolds, PTL

\* A success is that of the last attempt's own function, and ends the loop.
THEOREM SuccessComesFromItsFunction == Spec => []SuccessIsGenuine
<1>1. RetryInv => SuccessIsGenuine
  BY RetryAssumption, AttemptIsExecution
     DEF RetryInv, RetryTypeOK, TimeoutTypeOK, ExecutionInv, LoopInv, SuccessIsGenuine
<1> QED
  BY <1>1, RetryInvHolds, PTL

\* An error is returned only after Times + 1 attempts that all failed.
THEOREM ErrorTakesAllAttempts == Spec => []ErrorMeansAllFailed
<1>1. RetryInv => ErrorMeansAllFailed
  <2> SUFFICES ASSUME RetryInv, NEW c \in Calls, place[c] = "returned", err[c] # "nil"
               PROVE  /\ \A i \in 0 .. Times : answer[<<c, i>>] \in Failures
                      /\ err[c] = answer[<<c, Times>>]
    BY DEF ErrorMeansAllFailed
  <2>1. attempt[c] = Times /\ err[c] = answer[<<c, Times>>]
    BY DEF RetryInv, LoopInv
  <2>2. err[c] \in Failures
    BY DEF RetryInv, RetryTypeOK
  <2>3. ASSUME NEW i \in 0 .. Times, i < Times PROVE answer[<<c, i>>] \in Failures
    BY <2>1, <2>3 DEF RetryInv, LoopInv
  <2> QED
    BY <2>1, <2>2, <2>3, RetryAssumption
<1> QED
  BY <1>1, RetryInvHolds, PTL

\* Whatever still works for an execution that has returned had looked at the context
\* before, and the caller was told ErrTimeout (command.Run against timeout.Run).
THEOREM LateWorkIsOfTimeouts == Spec => LateWorkTimedOut
<1> DEFINE Late(x) == answer[x] \notin {"none", "select"} /\ AtWork(x)'
             OfTimeouts == \A x \in Executions : Late(x) => AtWork(x) /\ answer[x] = "ErrTimeout"
<1>1. RetryInv /\ [Next]_vars => [OfTimeouts]_vars
  <2> SUFFICES ASSUME RetryInv, Next, NEW x \in Executions, Late(x)
               PROVE  AtWork(x) /\ answer[x] = "ErrTimeout"
    OBVIOUS
  <2> USE DEF RetryInv, RetryTypeOK, TimeoutTypeOK
  <2>1. AtWork(x)
    <3>1. ASSUME NEW c \in Calls, Caller(c) PROVE AtWork(x)
      <4>1. ASSUME NEW y, StartExecution(y) PROVE AtWork(x)
        BY <4>1 DEF StartExecution, AtWork
      <4>2. CASE UNCHANGED timeoutVars
        BY <4>2 DEF timeoutVars, AtWork
      <4> QED
        BY <3>1, <4>1, <4>2, Zenon DEF Caller, Run, AttemptReturns, Wake, NextAttempt, GiveUp
    <3>2. ASSUME NEW y \in Executions, CommandRun(y) PROVE AtWork(x)
      <4>1. x = y => goroutine[x] = "spawned" /\ ContextDone(x)
        BY <3>2 DEF CommandRun, ExecutionInv, Returned, Failures
      <4> QED
        BY <3>2, <4>1 DEF CommandRun, AtWork
    <3>3. ASSUME NEW y \in Executions, Execution(y), ~ CommandRun(y) PROVE AtWork(x)
      BY <3>3 DEF Execution, Select, Goroutine, Deadline, ReceiveResult, TimesOut, SendResult,
                  CommandCalls, FuncReturns, AtWork
    <3> QED
      BY <3>1, <3>2, <3>3 DEF Next
  <2>2. answer[x] = "ErrTimeout"
    BY <2>1 DEF ExecutionInv, Returned, Failures, AtWork
  <2> QED
    BY <2>1, <2>2
<1> QED
  BY <1>1, RetryInvHolds, PTL DEF Spec, LateWorkTimedOut

\* No goroutine of an execution finds its buffer full, whatever functions do late
\* (the goroutine of timeout.Run against its select).
THEOREM ResultsAreNeverHeldUp == Spec => []NoGoroutineLeak
<1>1. RetryInv => NoGoroutineLeak
  BY DEF RetryInv, ExecutionInv, NoGoroutineLeak, CanSend
<1> QED
  BY <1>1, RetryInvHolds, PTL

-----------------------------------------------------------------------------
\* The bulkhead hands calls of its own on, and the loop of a call is only run by a
\* worker that holds it.
HandoverInv ==
  /\ sending \in Seq(Calls)
  /\ worker \in [Workers -> {"spawned", "select", "job"}]
  /\ job \in [Workers -> Calls \cup {NoJob}]
  /\ \A w \in Workers : worker[w] = "job" => job[w] \in Calls
Held(c) == \E w \in Workers : worker[w] = "job" /\ job[w] = c
HeldInv == \A c \in Calls : place[c] \in {"attempt", "sleep"} => Held(c)

LEMMA StepsKeepHandover == HandoverInv /\ [ChainNext]_chainVars => HandoverInv'
<1> SUFFICES ASSUME HandoverInv, [ChainNext]_chainVars PROVE HandoverInv'
  OBVIOUS
<1> USE ChainAssumption DEF HandoverInv, Bulkhead!poolVars, Bulkhead!WorkerGoesTo
<1>1. ASSUME NEW c \in Calls, CallGoesOn(c) \/ CallOrTimer(c) PROVE HandoverInv'
  <2>1. UNCHANGED <<worker, job>>
    BY <1>1 DEF CallGoesOn, CallOrTimer, Bulkhead!Offer, Bulkhead!Reject, Bulkhead!GetResult,
                Bulkhead!Run, Bulkhead!MaxWaitTime
  <2>2. \/ sending' = Append(sending, c)
        \/ \E i \in DOMAIN sending : sending' = Bulkhead!RemoveAt(sending, i)
        \/ sending' = sending
    BY <1>1 DEF CallGoesOn, CallOrTimer, Bulkhead!Offer, Bulkhead!Reject, Bulkhead!GetResult,
                Bulkhead!Run, Bulkhead!MaxWaitTime
  <2>3. ASSUME NEW i \in DOMAIN sending PROVE Bulkhead!RemoveAt(sending, i) \in Seq(Calls)
    <3>1. Bulkhead!RemoveAt(sending, i) = RemoveAt(sending, i)
      BY DEF Bulkhead!RemoveAt, RemoveAt
    <3> QED
      BY <3>1, LenProperties, RemoveAtProperties
  <2>4. sending' \in Seq(Calls)
    BY <2>2, <2>3, AppendProperties
  <2> QED
    BY <2>1, <2>4
<1>2. ASSUME NEW w \in Workers, Bulkhead!ReceiveJob(w) PROVE HandoverInv'
  <2>1. Head(sending) \in Calls /\ Tail(sending) \in Seq(Calls)
    BY <1>2, HeadTailProperties DEF Bulkhead!ReceiveJob
  <2> QED
    BY <1>2, <2>1 DEF Bulkhead!ReceiveJob
<1>3. ASSUME NEW w \in Workers, Bulkhead!StartWorker(w) PROVE HandoverInv'
  BY <1>3 DEF Bulkhead!StartWorker
<1>4. ASSUME NEW w \in Workers, RunChain(w) \/ ChainReturns(w) PROVE HandoverInv'
  BY <1>4 DEF RunChain, ChainReturns, Bulkhead!RunJob, Bulkhead!FinishJob
<1>5. CASE UNCHANGED bulkheadVars
  BY <1>5 DEF bulkheadVars
<1> QED
  BY <1>1, <1>2, <1>3, <1>4, <1>5
  DEF ChainNext, WorkerStep, WorkerOutside, RetryStep, ExecutionStep, chainVars

LEMMA HandoverHolds == ChainSpec => []HandoverInv
<1>1. ChainInit => HandoverInv
  BY EmptySeq DEF ChainInit, Bulkhead!Init, HandoverInv
<1> QED
  BY <1>1, StepsKeepHandover, PTL DEF ChainSpec

-----------------------------------------------------------------------------
\* Seen from retry, the workers of the bulkhead are its callers: every behaviour of
\* the chain is one of retry around timeout (bulkhead.Run and startWorkerPool).
THEOREM ChainRunsRetry == ChainSpec => Spec
<1>1. ChainInit => Init
  BY DEF ChainInit
<1>2. HandoverInv /\ [ChainNext]_chainVars => [Next]_vars
  <2> SUFFICES ASSUME HandoverInv, [ChainNext]_chainVars PROVE [Next]_vars
    OBVIOUS
  <2>1. ASSUME NEW w \in Workers, RunChain(w) PROVE Next
    <3>1. job[w] \in Calls
      BY <2>1 DEF RunChain, Bulkhead!RunJob, HandoverInv
    <3> QED
      BY <2>1, <3>1 DEF RunChain, Next, Caller
  <2>2. ASSUME NEW c \in Calls, RetryStep(c) PROVE Next
    BY <2>2 DEF RetryStep, Next, Caller
  <2>3. ASSUME NEW x \in Executions, ExecutionStep(x) PROVE Next
    BY <2>3 DEF ExecutionStep, Next
  <2>4. ASSUME NEW c \in Calls, CallGoesOn(c) \/ CallOrTimer(c) PROVE UNCHANGED vars
    BY <2>4 DEF CallGoesOn, CallOrTimer
  <2>5. ASSUME NEW w \in Workers, WorkerOutside(w) \/ ChainReturns(w) PROVE UNCHANGED vars
    BY <2>5 DEF WorkerOutside, ChainReturns
  <2>6. CASE UNCHANGED chainVars
    BY <2>6 DEF chainVars
  <2> QED
    BY <2>1, <2>2, <2>3, <2>4, <2>5, <2>6 DEF ChainNext, WorkerStep
<1> QED
  BY <1>1, <1>2, HandoverHolds, PTL DEF ChainSpec, Spec

\* So the answers of the chain are those of the call's own attempts, only attempts
\* that timed out leave work behind and no goroutine is left behind at its channel,
\* however many workers and calls there are (retry and timeout).
THEOREM ChainAnswersAreGenuine ==
  ChainSpec => /\ []SuccessIsGenuine /\ []ErrorMeansAllFailed
               /\ LateWorkTimedOut /\ []NoGoroutineLeak
BY ChainRunsRetry, SuccessComesFromItsFunction, ErrorTakesAllAttempts, LateWorkIsOfTimeouts,
   ResultsAreNeverHeldUp, PTL

-----------------------------------------------------------------------------
LEMMA StepsKeepHeld == RetryTypeOK /\ HandoverInv /\ HeldInv /\ [ChainNext]_chainVars => HeldInv'
<1> SUFFICES ASSUME RetryTypeOK, HandoverInv, HeldInv, [ChainNext]_chainVars PROVE HeldInv'
  OBVIOUS
<1> USE DEF HeldInv, Held
<1>1. ASSUME NEW c \in Calls, CallGoesOn(c) \/ CallOrTimer(c) PROVE HeldInv'
  BY <1>1 DEF CallGoesOn, CallOrTimer, vars, retryVars, Bulkhead!Offer, Bulkhead!Reject,
              Bulkhead!GetResult, Bulkhead!Run, Bulkhead!MaxWaitTime, Bulkhead!poolVars
<1>2. ASSUME NEW w \in Workers, WorkerOutside(w) PROVE HeldInv'
  <2>1. worker[w] # "job" /\ UNCHANGED place
    BY <1>2 DEF WorkerOutside, Bulkhead!StartWorker, Bulkhead!ReceiveJob, vars, retryVars
  <2>2. \A v \in Workers \ {w} : worker'[v] = worker[v] /\ job'[v] = job[v]
    BY <1>2 DEF WorkerOutside, Bulkhead!StartWorker, Bulkhead!ReceiveJob,
                Bulkhead!WorkerGoesTo, HandoverInv
  <2> QED
    BY <2>1, <2>2
<1>3. ASSUME NEW w \in Workers, RunChain(w) PROVE HeldInv'
  BY <1>3 DEF RunChain, Run, GoesTo, RetryTypeOK, Bulkhead!RunJob, Bulkhead!poolVars
<1>4. ASSUME NEW w \in Workers, ChainReturns(w) PROVE HeldInv'
  <2>1. place[job[w]] = "returned" /\ UNCHANGED place
    BY <1>4 DEF ChainReturns, vars, retryVars
  <2>2. \A v \in Workers \ {w} : worker'[v] = worker[v] /\ job'[v] = job[v]
    BY <1>4 DEF ChainReturns, Bulkhead!FinishJob, Bulkhead!WorkerGoesTo, HandoverInv
  <2>3. ASSUME NEW c \in Calls, place[c] \in {"attempt", "sleep"} PROVE Held(c)'
    <3>1. PICK v \in Workers : worker[v] = "job" /\ job[v] = c
      BY <2>3
    <3> QED
      BY <2>1, <2>2, <2>3, <3>1
  <2> QED
    BY <2>1, <2>3
<1>5. ASSUME NEW c \in Calls, RetryStep(c) PROVE HeldInv'
  <2>1. /\ place[c] \in {"attempt", "sleep"} /\ UNCHANGED <<worker, job>>
        /\ \A d \in Calls \ {c} : place'[d] = place[d]
    BY <1>5 DEF RetryStep, AttemptReturns, Wake, NextAttempt, GiveUp, GoesTo, bulkheadVars,
                RetryTypeOK
  <2> QED
    BY <2>1
<1>6. CASE (\E x \in Executions : ExecutionStep(x)) \/ UNCHANGED chainVars
  BY <1>6 DEF ExecutionStep, retryVars, bulkheadVars, chainVars, vars
<1> QED
  BY <1>1, <1>2, <1>3, <1>4, <1>5, <1>6 DEF ChainNext, WorkerStep

\* Of the executions of a call at most one is waited for: that of the attempt it is
\* at, and the call is held by a worker meanwhile.
LEMMA AttendedIsHeld ==
  ASSUME RetryInv, HeldInv, NEW x \in Attended
  PROVE  /\ x[1] \in Calls /\ Held(x[1])
         /\ x = <<x[1], attempt[x[1]]>>
<1>1. PICK c \in Calls, i \in 0 .. Times : x = <<c, i>>
  BY DEF Attended, Executions
<1>2. answer[<<c, i>>] = "select"
  BY <1>1 DEF Attended
<1>3. i = attempt[c] /\ place[c] = "attempt"
  <2>1. /\ attempt[c] \in 0 .. Times /\ Times \in Nat
        /\ place[c] \in {"idle", "attempt", "sleep", "returned"}
        /\ err[c] \in {"nil"} \cup Failures
    BY RetryAssumption DEF RetryInv, RetryTypeOK
  <2>2. LoopInv(c)
    BY DEF RetryInv
  <2>3. /\ i < attempt[c] => answer[<<c, i>>] \in Failures
        /\ i > attempt[c] => answer[<<c, i>>] = "none"
        /\ place[c] = "idle" => answer[<<c, i>>] = "none"
        /\ place[c] \in {"sleep", "returned"} => err[c] = answer[<<c, attempt[c]>>]
    BY <2>2 DEF LoopInv
  <2>4. ~ (i < attempt[c]) /\ ~ (i > attempt[c])
    BY <1>2, <2>3 DEF Failures
  <2>5. i = attempt[c]
    BY <2>1, <2>4
  <2> QED
    BY <1>2, <2>1, <2>3, <2>5 DEF Failures
<1> QED
  BY <1>1, <1>3 DEF HeldInv

\* For any calls, workers and attempts: what somebody waits for holds a worker of
\* its own, so the bulkhead's workers bound it (bulkhead.Run around retry's loop).
THEOREM BulkheadBoundsAttempts == ChainSpec => []AttemptsHoldWorkers
<1>1. ChainInit => HeldInv
  BY DEF ChainInit, Init, HeldInv
<1>2. RetryInv => RetryTypeOK
  BY DEF RetryInv
<1>3. RetryInv /\ HeldInv => AttemptsHoldWorkers
  <2> SUFFICES ASSUME RetryInv, HeldInv PROVE AttemptsHoldWorkers
    OBVIOUS
  <2> DEFINE busy == {w \in Workers : worker[w] = "job"}
             held == [x \in Attended |-> CHOOSE w \in Workers : worker[w] = "job" /\ job[w] = x[1]]
  <2>1. \A x \in Attended : /\ held[x] \in busy /\ job[held[x]] = x[1]
                            /\ x = <<x[1], attempt[x[1]]>>
    BY AttendedIsHeld DEF Held
  <2>2. held \in Injection(Attended, busy)
    <3>1. held \in [Attended -> busy]
      BY <2>1
    <3>2. \A x, y \in Attended : held[x] = held[y] => x = y
      BY <2>1
    <3> QED
      BY <3>1, <3>2, Fun_IsInj
  <2>3. IsFiniteSet(busy)
    BY ChainAssumption, FS_Subset
  <2>4. Cardinality(Attended) <= Cardinality(busy)
    BY <2>2, <2>3, FS_Injection
  <2>5. \A x \in Attended : \E w \in Workers : worker[w] = "job" /\ job[w] = x[1]
    BY AttendedIsHeld DEF Held
  <2> QED
    BY <2>4, <2>5 DEF AttemptsHoldWorkers
<1> QED
  BY <1>1, <1>2, <1>3, StepsKeepHeld, HandoverHolds, ChainRunsRetry, RetryInvHolds, PTL
  DEF ChainSpec
-----------------------------------------------------------------------------
\* Seen from the bulkhead, its functions are calls of retry: every behaviour of the
\* chain is one of the bulkhead (b.runner.Run in startWorkerPool).
THEOREM ChainRunsBulkhead == ChainSpec => Bulkhead!Spec
<1>1. ChainInit => Bulkhead!Init
  BY DEF ChainInit
<1>2. [ChainNext]_chainVars => [Bulkhead!Next]_(Bulkhead!vars)
  <2> SUFFICES ASSUME [ChainNext]_chainVars PROVE [Bulkhead!Next]_(Bulkhead!vars)
    OBVIOUS
  <2>1. ASSUME NEW c \in Calls, CallGoesOn(c) \/ CallOrTimer(c) PROVE Bulkhead!Next
    BY <2>1 DEF CallGoesOn, CallOrTimer, Bulkhead!Next, Bulkhead!Caller
  <2>2. ASSUME NEW w \in Workers, WorkerStep(w) PROVE Bulkhead!Next
    BY <2>2 DEF WorkerStep, WorkerOutside, RunChain, ChainReturns, Bulkhead!Next,
                Bulkhead!Worker
  <2>3. CASE UNCHANGED bulkheadVars
    BY <2>3 DEF bulkheadVars, Bulkhead!vars, Bulkhead!poolVars, Bulkhead!metricVars
  <2> QED
    BY <2>1, <2>2, <2>3 DEF ChainNext, RetryStep, ExecutionStep, chainVars
<1> QED
  BY <1>1, <1>2, PTL DEF ChainSpec, Bulkhead!Spec
=============================================================================
