------------------------------ MODULE Bulkhead ------------------------------
(***************************************************************************)
(* The bulkhead runner (bulkhead/bulkhead.go): a fixed pool of workers,    *)
(* callers that offer their job on the unbuffered channel jobC for as long *)
(* as MaxWaitTime allows, and a channel whose closing stops the workers.   *)
(* The counters are those of the metrics recorder.                         *)
(***************************************************************************)
EXTENDS Integers, FiniteSets, SequencesExt

CONSTANTS
  Workers,      \* cfg.Workers, by name
  Calls,        \* calls of Run
  NoJob         \* what a worker holds that waits in its select

ASSUME BulkheadAssumption ==
  /\ IsFiniteSet(Workers) /\ IsFiniteSet(Calls)
  /\ NoJob \notin Calls

VARIABLES
  maxWait,    \* cfg.MaxWaitTime is not 0; nothing changes it
  worker,     \* where each worker is
  job,        \* the job that it holds
  stopped,    \* StopC is closed
  call,       \* where each call is
  sending,    \* calls blocked in jobC <- job; a Go channel serves them in order
  func,       \* whether the function of each call has been executed
  queued, processed, timeouts   \* IncBulkheadQueued, -Processed and -Timeout

poolVars == <<worker, job, stopped>>
metricVars == <<queued, processed, timeouts>>
vars == <<maxWait, poolVars, call, sending, func, metricVars>>

TypeOK ==
  /\ maxWait \in BOOLEAN
  /\ worker \in [Workers -> {"spawned", "select", "job", "returned"}]
  /\ job \in [Workers -> Calls \cup {NoJob}]
  /\ stopped \in BOOLEAN
  /\ call \in [Calls -> {"idle", "queued", "sending", "timeout", "waiting",
                         "rejected", "answered"}]
  /\ sending \in Seq(Calls)
  /\ func \in [Calls -> {"notrun", "running", "finished"}]
  /\ queued \in Nat /\ processed \in Nat /\ timeouts \in Nat
  /\ \A w \in Workers : job[w] # NoJob <=> worker[w] = "job"
  /\ IsInjective(sending) /\ ToSet(sending) = {c \in Calls : call[c] = "sending"}

Init ==
  /\ maxWait \in BOOLEAN
  /\ worker = [w \in Workers |-> "spawned"]
  /\ job = [w \in Workers |-> NoJob]
  /\ stopped = FALSE
  /\ call = [c \in Calls |-> "idle"]
  /\ sending = <<>>
  /\ func = [c \in Calls |-> "notrun"]
  /\ queued = 0 /\ processed = 0 /\ timeouts = 0

-----------------------------------------------------------------------------
\* Run: IncBulkheadQueued ...
Run(c) ==
  /\ call[c] = "idle"
  /\ call' = [call EXCEPT ![c] = "queued"]
  /\ queued' = queued + 1
  /\ UNCHANGED <<maxWait, poolVars, sending, func, processed, timeouts>>

\* ... and the select.
Offer(c) ==
  /\ call[c] = "queued"
  /\ call' = [call EXCEPT ![c] = "sending"]
  /\ sending' = Append(sending, c)
  /\ UNCHANGED <<maxWait, poolVars, func, metricVars>>

\* A timeout that leaves the job where a worker still finds it.
BuggyMaxWaitTime(c) ==
  /\ maxWait /\ call[c] = "sending"
  /\ call' = [call EXCEPT ![c] = "timeout"]
  /\ UNCHANGED <<maxWait, poolVars, sending, func, metricVars>>

MaxWaitTime(c) ==
  /\ maxWait /\ call[c] = "sending"
  /\ call' = [call EXCEPT ![c] = "timeout"]
  /\ \E i \in DOMAIN sending : sending[i] = c /\ sending' = RemoveAt(sending, i)
  /\ UNCHANGED <<maxWait, poolVars, func, metricVars>>

\* IncBulkheadTimeout, and ErrTimeoutWaitingForExecution.
Reject(c) ==
  /\ call[c] = "timeout"
  /\ call' = [call EXCEPT ![c] = "rejected"]
  /\ timeouts' = timeouts + 1
  /\ UNCHANGED <<maxWait, poolVars, sending, func, queued, processed>>

\* return <-resC
GetResult(c) ==
  /\ call[c] = "waiting" /\ func[c] = "finished"
  /\ call' = [call EXCEPT ![c] = "answered"]
  /\ UNCHANGED <<maxWait, poolVars, sending, func, metricVars>>

\* Bound of the model: a new call takes the name of one that is over, whose share
\* of the counters is taken back.
Recur(c) ==
  /\ call[c] \in {"rejected", "answered"}
  /\ call' = [call EXCEPT ![c] = "idle"]
  /\ func' = [func EXCEPT ![c] = "notrun"]
  /\ queued' = queued - 1
  /\ IF call[c] = "rejected" THEN timeouts' = timeouts - 1 /\ UNCHANGED processed
                             ELSE processed' = processed - 1 /\ UNCHANGED timeouts
  /\ UNCHANGED <<maxWait, poolVars, sending>>

-----------------------------------------------------------------------------
WorkerGoesTo(w, place) == worker' = [worker EXCEPT ![w] = place]

\* startWorkerPool, itself in a goroutine: the worker reaches its select.
StartWorker(w) ==
  /\ worker[w] = "spawned" /\ WorkerGoesTo(w, "select")
  /\ UNCHANGED <<maxWait, job, stopped, call, sending, func, metricVars>>

ReceiveJob(w) ==
  /\ worker[w] = "select" /\ sending # <<>>
  /\ WorkerGoesTo(w, "job")
  /\ job' = [job EXCEPT ![w] = Head(sending)]
  /\ call' = [call EXCEPT ![Head(sending)] = "waiting"]
  /\ sending' = Tail(sending)
  /\ UNCHANGED <<maxWait, stopped, func, metricVars>>

\* Looking at StopC once more, and dropping the job.
BuggyRunJob(w) ==
  /\ worker[w] = "job" /\ func[job[w]] = "notrun"
  /\ IF stopped
     THEN /\ WorkerGoesTo(w, "returned")
          /\ job' = [job EXCEPT ![w] = NoJob]
          /\ UNCHANGED <<maxWait, func, processed>>
     ELSE /\ func' = [func EXCEPT ![job[w]] = "running"]
          /\ processed' = processed + 1
          /\ UNCHANGED <<maxWait, worker, job>>
  /\ UNCHANGED <<maxWait, stopped, call, sending, queued, timeouts>>

\* job(): IncBulkheadProcessed and b.runner.Run(ctx, f) ...
RunJob(w) ==
  /\ worker[w] = "job" /\ func[job[w]] = "notrun"
  /\ func' = [func EXCEPT ![job[w]] = "running"]
  /\ processed' = processed + 1
  /\ UNCHANGED <<maxWait, poolVars, call, sending, queued, timeouts>>

\* ... whose result goes into the buffer of resC.
FinishJob(w) ==
  /\ worker[w] = "job" /\ func[job[w]] = "running"
  /\ func' = [func EXCEPT ![job[w]] = "finished"]
  /\ WorkerGoesTo(w, "select")
  /\ job' = [job EXCEPT ![w] = NoJob]
  /\ UNCHANGED <<maxWait, stopped, call, sending, metricVars>>

\* A stop that is a message, which one worker consumes.
BuggyStopWorker(w) ==
  /\ worker[w] = "select" /\ stopped
  /\ stopped' = FALSE
  /\ WorkerGoesTo(w, "returned")
  /\ UNCHANGED <<maxWait, job, call, sending, func, metricVars>>

StopWorker(w) ==
  /\ worker[w] = "select" /\ stopped
  /\ WorkerGoesTo(w, "returned")
  /\ UNCHANGED <<maxWait, job, stopped, call, sending, func, metricVars>>

Stop == /\ ~ stopped /\ stopped' = TRUE
        /\ UNCHANGED <<maxWait, worker, job, call, sending, func, metricVars>>

Caller(c) == Run(c) \/ Offer(c) \/ MaxWaitTime(c) \/ Reject(c) \/ GetResult(c) \/ Recur(c)
Worker(w) == StartWorker(w) \/ ReceiveJob(w) \/ RunJob(w) \/ FinishJob(w) \/ StopWorker(w)

Next == (\E c \in Calls : Caller(c)) \/ (\E w \in Workers : Worker(w)) \/ Stop

Spec == Init /\ [][Next]_vars

\* Goroutines are scheduled, timers fire and functions return; a select that
\* finds StopC closed again and again chooses it in the end.  Nobody has to
\* call or to stop the bulkhead.
FairSpec ==
  /\ Spec
  /\ \A c \in Calls : WF_vars(Offer(c) \/ Reject(c) \/ GetResult(c)) /\ WF_vars(MaxWaitTime(c))
  /\ \A w \in Workers : WF_vars(Worker(w)) /\ SF_vars(StopWorker(w))

-----------------------------------------------------------------------------
\* The counters account for every call: what is queued is processed, timed out
\* or still on its way to the one or the other, never both (Run against the
\* workers).
Pending == {c \in Calls : \/ call[c] \in {"queued", "sending", "timeout"}
                          \/ call[c] = "waiting" /\ func[c] = "notrun"}
MetricsAddUp == queued = processed + timeouts + Cardinality(Pending)

ReplyOf(c) == CASE call[c] = "rejected" -> "rejected"
                [] call[c] = "answered" -> "result"
                [] OTHER -> "none"

\* A function is executed at most once, and never when its call is told that it
\* timed out waiting to be executed (Run against startWorkerPool).
Contract == INSTANCE ExecutorContract
              WITH reply <- [c \in Calls |-> ReplyOf(c)], RejectedNeverRun <- TRUE
KeepsContract == Contract!Spec

\* With a MaxWaitTime every call returns, also when the workers are stopped under
\* it. Without one it does too unless they are: from there on it may wait for ever
\* (Run against StopC, and the loop of the workers).
EveryCallReturns ==
  \A c \in Calls : call[c] # "idle" ~> \/ call[c] \in {"rejected", "answered"}
                                       \/ ~ maxWait /\ stopped

\* Closing StopC stops all the workers, the idle and the busy ones, even when
\* calls never cease to arrive (the select of the workers).
StopReachesWorkers == stopped ~> (\A w \in Workers : worker[w] = "returned")
=============================================================================
