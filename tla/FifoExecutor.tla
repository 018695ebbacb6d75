---------------------------- MODULE FifoExecutor ----------------------------
(***************************************************************************)
(* The FIFO executor (concurrencylimit/execute/fifo.go): a call offers its *)
(* job on the pool's unbuffered channel until a worker takes it or         *)
(* MaxWaitTime is over.                                                    *)
(***************************************************************************)
EXTENDS WorkerPool

VARIABLES
  call,       \* where each call of Execute is
  sending,    \* calls blocked in jobQueue <- job; a Go channel serves them in order
  result      \* calls whose result is in their buffered channel

vars == <<poolVars, call, sending, result>>

TypeOK ==
  /\ PoolTypeOK
  /\ call \in [Calls -> {"idle", "sending", "waiting", "rejected", "answered"}]
  /\ sending \in Seq(Calls)
  /\ result \subseteq Calls

Init ==
  /\ PoolInit
  /\ call = [c \in Calls |-> "idle"]
  /\ sending = <<>>
  /\ result = {}

-----------------------------------------------------------------------------
\* A call that is over stands for a new one, with a channel of its own.
Execute(c) ==
  /\ call[c] \in {"idle", "rejected", "answered"}
  /\ call' = [call EXCEPT ![c] = "sending"]
  /\ sending' = Append(sending, c)
  /\ result' = result \ {c}
  /\ UNCHANGED poolVars

\* A rejection that leaves its job to the workers.
BuggyMaxWaitTime(c) ==
  /\ call[c] = "sending"
  /\ call' = [call EXCEPT ![c] = "rejected"]
  /\ UNCHANGED <<poolVars, sending, result>>

MaxWaitTime(c) ==
  /\ call[c] = "sending"
  /\ call' = [call EXCEPT ![c] = "rejected"]
  /\ \E i \in DOMAIN sending : sending[i] = c /\ sending' = RemoveAt(sending, i)
  /\ UNCHANGED <<poolVars, result>>

\* A worker and the first of the blocked calls meet on jobQueue.
Handover(w) ==
  /\ sending # <<>>
  /\ ReceiveJob(w, Head(sending))
  /\ sending' = Tail(sending)
  /\ call' = [call EXCEPT ![Head(sending)] = "waiting"]
  /\ UNCHANGED result

\* fn returns in its worker, and result <- fn().
FuncReturns(w) ==
  /\ FinishJob(w)
  /\ result' = result \cup {running[w]}
  /\ UNCHANGED <<call, sending>>

GetResult(c) ==
  /\ call[c] = "waiting" /\ c \in result
  /\ call' = [call EXCEPT ![c] = "answered"]
  /\ UNCHANGED <<poolVars, sending, result>>

WorkerReturns(w) == StopWorker(w) /\ UNCHANGED <<call, sending, result>>

Resize(quantity) == SetWorkerQuantity(quantity) /\ UNCHANGED <<call, sending, result>>

Next ==
  \/ \E c \in Calls : Execute(c) \/ MaxWaitTime(c) \/ GetResult(c)
  \/ \E w \in Workers : Handover(w) \/ FuncReturns(w) \/ WorkerReturns(w)
  \/ \E quantity \in 0 .. MaxQuantity : Resize(quantity)

Spec == Init /\ [][Next]_vars

\* Timers fire, functions return and callers are scheduled.  A stop channel that
\* stays closed is chosen by some select in the end, however many jobs are waiting
\* as well: the choice is random.  Nothing makes anyone call, resize the pool or
\* take a job: there may be no workers at all.
FairSpec ==
  /\ Spec
  /\ \A c \in Calls : WF_vars(MaxWaitTime(c)) /\ WF_vars(GetResult(c))
  /\ \A w \in Workers : WF_vars(FuncReturns(w)) /\ SF_vars(WorkerReturns(w))

-----------------------------------------------------------------------------
FuncOf(c) == IF c \in result THEN "finished"
             ELSE IF \E w \in Workers : running[w] = c THEN "running" ELSE "notrun"
ReplyOf(c) == CASE call[c] = "rejected" -> "rejected"
                [] call[c] = "answered" -> "result"
                [] OTHER -> "none"

\* Each function is executed at most once, its call returns its result or a
\* rejection, and a rejected function is never executed: the hand-over on the
\* unbuffered channel commits caller and worker together, while the pool is
\* resized (Execute with the worker pool).
Contract == INSTANCE ExecutorContract WITH
              func <- [c \in Calls |-> FuncOf(c)],
              reply <- [c \in Calls |-> ReplyOf(c)],
              RejectedNeverRun <- TRUE
KeepsContract == Contract!Spec

\* No call is left waiting: shrinking the pool, even to nothing, never strands
\* a call whose job a worker has taken (Execute against SetWorkerQuantity).
EveryCallReturns ==
  \A c \in Calls : call[c] \in {"sending", "waiting"} ~> call[c] \in {"rejected", "answered"}
=============================================================================
