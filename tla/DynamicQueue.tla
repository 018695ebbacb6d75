---------------------------- MODULE DynamicQueue ----------------------------
(***************************************************************************)
(* The job queue of the LIFO and CoDel executors                           *)
(* (concurrencylimit/execute/queue.go): an enqueuer goroutine that fills   *)
(* the list of jobs, a dequeuer goroutine that empties it and sleeps on a  *)
(* channel with a buffer of one when there is nothing to do, and the       *)
(* goroutines that send on the unbuffered channel in and receive from the  *)
(* unbuffered channel out.                                                 *)
(*                                                                         *)
(* The enqueuer signals while it holds jobsMu.  The dequeuer may take the  *)
(* old signal between the append and the send of the new one; that has the *)
(* outcome of taking it before the append, so the two are one step.        *)
(***************************************************************************)
EXTENDS Integers, Sequences

CONSTANTS
  Jobs,       \* the jobs; one that has left the queue stands for a new one
  Policies    \* the dequeue policies in use, "fifo" and "lifo"

ASSUME PolicyAssumption == Policies \subseteq {"fifo", "lifo"} /\ Policies # {}

VARIABLES
  senders,    \* goroutines blocked in in <- job; a Go channel serves them in order
  jobs,       \* d.jobs
  size,       \* queueStats.size
  aged,       \* time.Since(queueStats.lastTimeEmpty) > CodelInterval
  policy,     \* d.dequeuePolicy
  wakeUp,     \* the buffer of wakeUpDequeuerC is full
  stopped,    \* stopC is closed
  enqPc, enqJob,    \* the enqueuer's next step, and the job it holds, if any
  deqPc, deqJob     \* the same for the dequeuer

queueVars == <<senders, jobs, size, aged, policy, wakeUp, stopped,
               enqPc, enqJob, deqPc, deqJob>>
enqVars == <<enqPc, enqJob>>
deqVars == <<deqPc, deqJob>>

\* The goroutines hold at most one job each.
AtMostOne == {<<>>} \cup {<<j>> : j \in Jobs}

QueueTypeOK ==
  /\ senders \in Seq(Jobs)
  /\ jobs \in Seq(Jobs)
  /\ size \in Nat
  /\ aged \in BOOLEAN
  /\ policy \in Policies
  /\ wakeUp \in BOOLEAN
  /\ stopped \in BOOLEAN
  /\ enqPc \in {"select", "append", "returned"}
  /\ enqJob \in AtMostOne
  /\ deqPc \in {"top", "check", "sleep", "recheck", "take", "decr", "send", "returned"}
  /\ deqJob \in AtMostOne

\* The zero lastTimeEmpty of a new queue is long ago.
QueueInit ==
  /\ senders = <<>>
  /\ jobs = <<>>
  /\ size = 0
  /\ aged = TRUE
  /\ policy \in Policies
  /\ wakeUp = FALSE
  /\ stopped = FALSE
  /\ enqPc = "select" /\ enqJob = <<>>
  /\ deqPc = "top" /\ deqJob = <<>>

-----------------------------------------------------------------------------
\* j is on its way from in to out.
Inside(j) == LET all == deqJob \o jobs \o enqJob \o senders
             IN  \E i \in DOMAIN all : all[i] = j

\* The user side of in and of the policies.
Send(j) ==
  /\ senders' = Append(senders, j)
  /\ UNCHANGED <<jobs, size, aged, policy, wakeUp, stopped, enqVars, deqVars>>

SetDequeuePolicy(p) ==
  /\ policy' = p
  /\ UNCHANGED <<senders, jobs, size, aged, wakeUp, stopped, enqVars, deqVars>>

\* queueStats.SinceLastEmpty; its result is > CodelInterval exactly when the
\* queue is not empty and lastTimeEmpty is that old.
SinceLastEmpty ==
  /\ aged' = (aged /\ size > 0)
  /\ UNCHANGED <<senders, jobs, size, policy, wakeUp, stopped, enqVars, deqVars>>

\* The consumer receives the job that the dequeuer offers on out.
Receive(j) ==
  /\ deqPc = "send" /\ deqJob = <<j>>
  /\ deqPc' = "top"
  /\ deqJob' = <<>>
  /\ UNCHANGED <<senders, jobs, size, aged, policy, wakeUp, stopped, enqVars>>

Stop ==
  /\ ~ stopped
  /\ stopped' = TRUE
  /\ UNCHANGED <<senders, jobs, size, aged, policy, wakeUp, enqVars, deqVars>>

IntervalPasses ==
  /\ ~ aged
  /\ aged' = TRUE
  /\ UNCHANGED <<senders, jobs, size, policy, wakeUp, stopped, enqVars, deqVars>>

-----------------------------------------------------------------------------
\* enqueuer: a select over stopC and in; the job received is counted.
EnqueuerReceive ==
  /\ enqPc = "select" /\ senders # <<>>
  /\ enqPc' = "append"
  /\ enqJob' = <<Head(senders)>>
  /\ senders' = Tail(senders)
  /\ aged' = (aged /\ size > 0)
  /\ size' = size + 1
  /\ UNCHANGED <<jobs, policy, wakeUp, stopped, deqVars>>

EnqueuerReturn ==
  /\ enqPc = "select" /\ stopped
  /\ enqPc' = "returned"
  /\ UNCHANGED <<senders, jobs, size, aged, policy, wakeUp, stopped, enqJob, deqVars>>

\* A channel without a buffer: the signal is lost on a dequeuer that has decided to
\* sleep and has not yet reached its receive.
BuggyEnqueuerAppend ==
  /\ enqPc = "append"
  /\ jobs' = jobs \o enqJob
  /\ \E received \in BOOLEAN : wakeUp' = (deqPc = "sleep" /\ received)
  /\ enqPc' = "select"
  /\ enqJob' = <<>>
  /\ UNCHANGED <<senders, size, aged, policy, stopped, deqVars>>

\* enqueuer: enqueueAtEndPolicy and the signal, which a full buffer swallows.
EnqueuerAppend ==
  /\ enqPc = "append"
  /\ jobs' = jobs \o enqJob
  /\ wakeUp' = TRUE
  /\ enqPc' = "select"
  /\ enqJob' = <<>>
  /\ UNCHANGED <<senders, size, aged, policy, stopped, deqVars>>

-----------------------------------------------------------------------------
\* A step of the dequeuer that changes nothing but where it is.
DequeuerGoesTo(pc) ==
  /\ deqPc' = pc
  /\ UNCHANGED <<senders, jobs, size, aged, policy, wakeUp, stopped, enqVars, deqJob>>

DequeuerTop ==
  /\ deqPc = "top"
  /\ DequeuerGoesTo(IF stopped THEN "returned" ELSE "check")

DequeuerCheck ==
  /\ deqPc = "check"
  /\ DequeuerGoesTo(IF jobs = <<>> THEN "sleep" ELSE "take")

\* Waking up without a second look at the queue.
BuggyDequeuerWakes ==
  /\ deqPc = "sleep" /\ wakeUp
  /\ wakeUp' = FALSE
  /\ deqPc' = "take"
  /\ UNCHANGED <<senders, jobs, size, aged, policy, stopped, enqVars, deqJob>>

DequeuerWakes ==
  /\ deqPc = "sleep" /\ wakeUp
  /\ wakeUp' = FALSE
  /\ deqPc' = "recheck"
  /\ UNCHANGED <<senders, jobs, size, aged, policy, stopped, enqVars, deqJob>>

DequeuerRecheck ==
  /\ deqPc = "recheck"
  /\ DequeuerGoesTo(IF jobs = <<>> THEN "top" ELSE "take")

\* Policies that leave the job they return in the queue.
BuggyPolicyResult(p, queue) ==
  IF queue = <<>> THEN [job |-> <<>>, after |-> <<>>]
  ELSE [job |-> <<queue[IF p = "fifo" THEN 1 ELSE Len(queue)]>>, after |-> queue]

\* fifoDequeuePolicy and lifoDequeuePolicy; an empty queue gives a nil job.
PolicyResult(p, queue) ==
  IF queue = <<>> THEN [job |-> <<>>, after |-> <<>>]
  ELSE IF p = "fifo"
  THEN [job |-> <<Head(queue)>>, after |-> Tail(queue)]
  ELSE [job |-> <<queue[Len(queue)]>>, after |-> SubSeq(queue, 1, Len(queue) - 1)]

DequeuerTake ==
  /\ deqPc = "take"
  /\ deqJob' = PolicyResult(policy, jobs).job
  /\ jobs' = PolicyResult(policy, jobs).after
  /\ deqPc' = "decr"
  /\ UNCHANGED <<senders, size, aged, policy, wakeUp, stopped, enqVars>>

DequeuerDecr ==
  /\ deqPc = "decr"
  /\ size' = size - 1
  /\ aged' = (aged /\ size - 1 > 0)
  /\ deqPc' = "send"
  /\ UNCHANGED <<senders, jobs, policy, wakeUp, stopped, enqVars, deqJob>>

Enqueuer == EnqueuerReceive \/ EnqueuerReturn \/ EnqueuerAppend
Dequeuer == \/ DequeuerTop \/ DequeuerCheck \/ DequeuerWakes \/ DequeuerRecheck
            \/ DequeuerTake \/ DequeuerDecr

QueueNext ==
  \/ Enqueuer \/ Dequeuer
  \/ \E j \in Jobs : (~ Inside(j) /\ Send(j)) \/ Receive(j)
  \/ \E p \in Policies : SetDequeuePolicy(p)
  \/ SinceLastEmpty \/ IntervalPasses \/ Stop

QueueSpec == QueueInit /\ [][QueueNext]_queueVars

\* Both goroutines are scheduled, and the consumer keeps receiving.
QueueFairSpec == /\ QueueSpec
                 /\ WF_queueVars(Enqueuer) /\ WF_queueVars(Dequeuer)
                 /\ WF_queueVars(\E j \in Jobs : Receive(j))

-----------------------------------------------------------------------------
\* The dequeuer never sleeps on a signal that was lost: with jobs in the queue
\* its wake-up call is in the channel (enqueuer against dequeuer).
NoLostWakeUp == deqPc = "sleep" /\ jobs # <<>> => wakeUp

\* The dequeuer never takes from an empty queue, so no nil job goes out, in
\* spite of checking and taking in different critical sections (dequeuer).
NeverTakesFromEmpty == deqPc = "take" => jobs # <<>>

\* The statistics that congestion is decided on never drift from the queue: they
\* are ahead of it by the job about to be appended or just taken (queueStats).
SizeCounts ==
  size = Len(jobs) + Len(enqJob) + IF deqPc = "decr" THEN 1 ELSE 0

\* Every job is offered and delivered exactly once, each from the place that the
\* policy in use when it is taken names: the oldest or the newest of d.jobs
\* (enqueuer, dequeuer and the policies together).
Buffer == INSTANCE JobQueue WITH arriving <- enqJob, queued <- jobs, offered <- deqJob
DeliversOnce == Buffer!Spec

\* Once the policy remains fifo, every job sent to the queue comes out, however
\* many more are sent (both goroutines and the channel in).
EveryJobLeaves == <>[](policy = "fifo") =>
                    \A j \in Jobs : Inside(j) ~> (~ Inside(j) \/ stopped)
=============================================================================
