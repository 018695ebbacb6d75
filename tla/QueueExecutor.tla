--------------------------- MODULE QueueExecutor ---------------------------
(***************************************************************************)
(* The LIFO executor (concurrencylimit/execute/lifo.go) and the CoDel      *)
(* executor (codel.go), whose policy follows the congestion: a             *)
(* dynamicQueue, the worker pool, the goroutine that carries jobs from one *)
(* to the other, and the calls, which give up after their timeout.  How    *)
(* long the timeout is makes no difference here: it may end at any moment. *)
(***************************************************************************)
EXTENDS DynamicQueue, WorkerPool

CONSTANT Executors   \* the executors that may have been made, "lifo" and "codel"

ASSUME ExecutorAssumption ==
  /\ Jobs = Calls /\ Policies = {"fifo", "lifo"}
  /\ Executors \subseteq {"lifo", "codel"}

VARIABLES
  executor,     \* the executor that NewLIFO or NewAdaptiveLIFOCodel has made
  call,         \* where each call of Execute is
  unsent,       \* calls whose goroutine has yet to reach in <- job
  dequeued,     \* calls whose dequeuedJob is closed
  canceled,     \* calls that have signalled canceledJob
  func,         \* whether the function of each call has been executed
  carried,      \* fromQueueToWorkerPool: the job it holds, if any
  carrierGone   \* fromQueueToWorkerPool has returned

callVars == <<call, unsent, dequeued, canceled, func>>
ownVars == <<executor, carried, carrierGone>>
vars == <<queueVars, poolVars, callVars, ownVars>>

TypeOK ==
  /\ QueueTypeOK
  /\ PoolTypeOK
  /\ call \in [Calls -> {"idle", "fifo", "lifo", "queueing", "waiting", "rejected", "answered"}]
  /\ unsent \subseteq Calls /\ dequeued \subseteq Calls /\ canceled \subseteq Calls
  /\ func \in [Calls -> {"notrun", "running", "finished"}]
  /\ executor \in Executors
  /\ carried \in AtMostOne /\ carrierGone \in BOOLEAN

Init ==
  /\ QueueInit
  /\ executor \in Executors
  /\ policy = IF executor = "codel" THEN "fifo" ELSE "lifo"
  /\ PoolInit
  /\ call = [c \in Calls |-> "idle"]
  /\ unsent = {} /\ dequeued = {} /\ canceled = {}
  /\ func = [c \in Calls |-> "notrun"]
  /\ carried = <<>> /\ carrierGone = FALSE

-----------------------------------------------------------------------------
\* Execute of codel.go begins with queueCongested.
ReadCongestion(c) ==
  /\ executor = "codel" /\ call[c] = "idle"
  /\ SinceLastEmpty
  /\ call' = [call EXCEPT ![c] = IF aged /\ size > 0 THEN "lifo" ELSE "fifo"]
  /\ UNCHANGED <<poolVars, unsent, dequeued, canceled, func, ownVars>>

\* The policy that the reading calls for; then the job is on its way.
AdaptPolicy(c) ==
  /\ call[c] \in {"fifo", "lifo"}
  /\ SetDequeuePolicy(call[c])
  /\ call' = [call EXCEPT ![c] = "queueing"]
  /\ unsent' = unsent \cup {c}
  /\ UNCHANGED <<poolVars, dequeued, canceled, func, ownVars>>

\* Execute of lifo.go.
Execute(c) ==
  /\ executor = "lifo" /\ call[c] = "idle"
  /\ call' = [call EXCEPT ![c] = "queueing"]
  /\ unsent' = unsent \cup {c}
  /\ UNCHANGED <<queueVars, poolVars, dequeued, canceled, func, ownVars>>

\* go func() { queue.InChannel() <- job }()
SendJob(c) ==
  /\ c \in unsent
  /\ Send(c)
  /\ unsent' = unsent \ {c}
  /\ UNCHANGED <<poolVars, call, dequeued, canceled, func, ownVars>>

\* case <-time.After(timeout)
GiveUp(c) ==
  /\ call[c] = "queueing"
  /\ call' = [call EXCEPT ![c] = "rejected"]
  /\ canceled' = canceled \cup {c}
  /\ UNCHANGED <<queueVars, poolVars, unsent, dequeued, func, ownVars>>

\* Returning as soon as the job is dequeued.
BuggySeeDequeued(c) ==
  /\ call[c] = "queueing" /\ c \in dequeued
  /\ call' = [call EXCEPT ![c] = "answered"]
  /\ UNCHANGED <<queueVars, poolVars, unsent, dequeued, canceled, func, ownVars>>

\* case <-dequeuedJob
SeeDequeued(c) ==
  /\ call[c] = "queueing" /\ c \in dequeued
  /\ call' = [call EXCEPT ![c] = "waiting"]
  /\ UNCHANGED <<queueVars, poolVars, unsent, dequeued, canceled, func, ownVars>>

\* return <-res
GetResult(c) ==
  /\ call[c] = "waiting" /\ func[c] = "finished"
  /\ call' = [call EXCEPT ![c] = "answered"]
  /\ UNCHANGED <<queueVars, poolVars, unsent, dequeued, canceled, func, ownVars>>

-----------------------------------------------------------------------------
\* fromQueueToWorkerPool, one job after the other, until it sees StopChannel.
CarryFromQueue(c) ==
  /\ carried = <<>> /\ ~ carrierGone
  /\ Receive(c)
  /\ carried' = <<c>>
  /\ UNCHANGED <<poolVars, callVars, executor, carrierGone>>

CarrierReturns ==
  /\ carried = <<>> /\ ~ carrierGone /\ stopped
  /\ carrierGone' = TRUE
  /\ UNCHANGED <<queueVars, poolVars, callVars, executor, carried>>

CarryToPool(w, c) ==
  /\ carried = <<c>>
  /\ ReceiveJob(w, c)
  /\ carried' = <<>>
  /\ UNCHANGED <<queueVars, callVars, executor, carrierGone>>

\* job(): close(dequeuedJob) ...
JobDequeued(w) ==
  /\ running[w] \in Calls \ dequeued
  /\ dequeued' = dequeued \cup {running[w]}
  /\ UNCHANGED <<queueVars, poolVars, call, unsent, canceled, func, ownVars>>

\* A job that is dropped when it finds the executor stopped.
BuggyJobCancelled(w) ==
  /\ running[w] \in dequeued /\ func[running[w]] = "notrun"
  /\ running[w] \in canceled \/ stopped
  /\ FinishJob(w)
  /\ UNCHANGED <<queueVars, callVars, ownVars>>

\* ... then it looks at canceledJob, and returns ...
JobCancelled(w) ==
  /\ running[w] \in dequeued /\ func[running[w]] = "notrun"
  /\ running[w] \in canceled
  /\ FinishJob(w)
  /\ UNCHANGED <<queueVars, callVars, ownVars>>

\* ... or executes f, ...
JobStarts(w) ==
  /\ running[w] \in dequeued /\ func[running[w]] = "notrun"
  /\ running[w] \notin canceled
  /\ func' = [func EXCEPT ![running[w]] = "running"]
  /\ UNCHANGED <<queueVars, poolVars, call, unsent, dequeued, canceled, ownVars>>

\* ... and puts its result into res.
JobFinishes(w) ==
  /\ running[w] \in Calls /\ func[running[w]] = "running"
  /\ func' = [func EXCEPT ![running[w]] = "finished"]
  /\ FinishJob(w)
  /\ UNCHANGED <<queueVars, call, unsent, dequeued, canceled, ownVars>>

-----------------------------------------------------------------------------
Caller(c) == ReadCongestion(c) \/ AdaptPolicy(c) \/ Execute(c)
               \/ SendJob(c) \/ GiveUp(c) \/ SeeDequeued(c) \/ GetResult(c)
Job(w) == JobDequeued(w) \/ JobCancelled(w) \/ JobStarts(w) \/ JobFinishes(w)

QueueGoroutines == (Enqueuer \/ Dequeuer) /\ UNCHANGED <<poolVars, callVars, ownVars>>
Carrier == \/ \E c \in Calls : CarryFromQueue(c)
           \/ \E w \in Workers, c \in Calls : CarryToPool(w, c)
           \/ CarrierReturns
Resize == /\ \/ \E quantity \in 0 .. MaxQuantity : SetWorkerQuantity(quantity)
             \/ \E w \in Workers : StopWorker(w)
          /\ UNCHANGED <<queueVars, callVars, ownVars>>
StopOrWait == (Stop \/ IntervalPasses) /\ UNCHANGED <<poolVars, callVars, ownVars>>

Next == \/ \E c \in Calls : Caller(c)
        \/ \E w \in Workers : Job(w)
        \/ QueueGoroutines \/ Carrier \/ Resize \/ StopOrWait

Spec == Init /\ [][Next]_vars

-----------------------------------------------------------------------------
ReplyOf(c) == CASE call[c] = "rejected" -> "rejected"
                [] call[c] = "answered" -> "result"
                [] OTHER -> "none"

\* Each function is executed at most once, and a call returns the result of its
\* execution or is rejected, however its timeout races its job (Execute, the
\* queue, the carrier and the pool together).
Contract == INSTANCE ExecutorContract
              WITH reply <- [c \in Calls |-> ReplyOf(c)], RejectedNeverRun <- FALSE
KeepsContract == Contract!Spec

\* From the call that makes it to the worker that starts it a job is in exactly
\* one place: none of the hand-overs loses or doubles one, whatever the policies,
\* the resizing of the pool and the stop channel do.
Line == deqJob \o jobs \o enqJob \o senders \o carried
Copies(c) == Cardinality({i \in DOMAIN Line : Line[i] = c})
             + Cardinality({w \in Workers : running[w] = c})
             + Cardinality({c} \cap unsent)
NoJobLost ==
  \A c \in Calls : IF call[c] \in {"idle", "fifo", "lifo"} THEN Copies(c) = 0
                   ELSE Copies(c) <= 1 /\ (c \notin dequeued => Copies(c) = 1)

\* A call that waits on res, where there is no timeout any more, has its result or
\* a worker that will give it one: it is never stranded, even when the executor is
\* stopped or its pool shrinks to nothing (Execute against the job it made).
NoCallStranded ==
  \A c \in Calls : call[c] = "waiting" =>
    func[c] = "finished" \/ (c \notin canceled /\ \E w \in Workers : running[w] = c)
=============================================================================
