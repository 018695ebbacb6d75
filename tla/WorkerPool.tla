----------------------------- MODULE WorkerPool -----------------------------
(***************************************************************************)
(* The resizable pool of workers under every executor                      *)
(* (concurrencylimit/execute/executor.go).  SetWorkerQuantity holds w.mu   *)
(* throughout; a worker waits in a select over its stop channel and the    *)
(* unbuffered jobQueue, and Go chooses at random when both are ready.      *)
(***************************************************************************)
EXTENDS Integers, SequencesExt

CONSTANTS
  Workers,    \* identities of worker goroutines; their number bounds how many live
  Calls,      \* the functions sent on jobQueue, one for every call of Execute
  NoJob,      \* what a worker runs that waits in its select
  MaxQuantity \* bound of the model: the largest quantity asked for

ASSUME PoolAssumption ==
  /\ IsFiniteSet(Workers)
  /\ NoJob \notin Calls
  /\ MaxQuantity \in Nat

VARIABLES
  workerStoppers,   \* w.workerStoppers, a stop channel named after its worker
  toldToStop,       \* workers whose stop channel is closed
  alive,            \* workers whose goroutine has not returned
  running           \* the job that each worker runs

poolVars == <<workerStoppers, toldToStop, alive, running>>

PoolTypeOK ==
  /\ workerStoppers \in Seq(Workers)
  /\ toldToStop \subseteq alive
  /\ alive \subseteq Workers
  /\ running \in [Workers -> Calls \cup {NoJob}]
  /\ \A w \in Workers \ alive : running[w] = NoJob

PoolInit ==
  /\ workerStoppers = <<>>
  /\ toldToStop = {}
  /\ alive = {}
  /\ running = [w \in Workers |-> NoJob]

-----------------------------------------------------------------------------
\* increaseWorkers: n new goroutines, each with a stop channel of its own.
IncreaseWorkers(n) ==
  \E new \in [1 .. n -> Workers \ alive] :
    /\ IsInjective(new)
    /\ workerStoppers' = workerStoppers \o new
    /\ alive' = alive \cup ToSet(new)
    /\ UNCHANGED <<toldToStop, running>>

\* Closing the stop channels and forgetting to drop them from the list.
BuggyDecreaseWorkers(n) ==
  /\ toldToStop' = toldToStop \cup ToSet(SubSeq(workerStoppers, 1, n))
  /\ UNCHANGED <<workerStoppers, alive, running>>

\* decreaseWorkers: the n oldest are told to stop.
DecreaseWorkers(n) ==
  /\ toldToStop' = toldToStop \cup ToSet(SubSeq(workerStoppers, 1, n))
  /\ workerStoppers' = SubSeq(workerStoppers, n + 1, Len(workerStoppers))
  /\ UNCHANGED <<alive, running>>

SetWorkerQuantity(quantity) ==
  LET have == Len(workerStoppers) IN
  /\ quantity >= 0 /\ quantity # have
  /\ IF have < quantity THEN IncreaseWorkers(quantity - have)
                        ELSE DecreaseWorkers(have - quantity)

Waiting(w) == w \in alive /\ running[w] = NoJob

\* The worker takes job from whoever sends it on jobQueue.
ReceiveJob(w, job) ==
  /\ Waiting(w)
  /\ running' = [running EXCEPT ![w] = job]
  /\ UNCHANGED <<workerStoppers, toldToStop, alive>>

\* f() returns.
FinishJob(w) ==
  /\ running[w] # NoJob
  /\ running' = [running EXCEPT ![w] = NoJob]
  /\ UNCHANGED <<workerStoppers, toldToStop, alive>>

\* A worker that obeys its stop channel in the middle of a job, and drops it.
BuggyStopWorker(w) ==
  /\ w \in toldToStop
  /\ toldToStop' = toldToStop \ {w}
  /\ alive' = alive \ {w}
  /\ running' = [running EXCEPT ![w] = NoJob]
  /\ UNCHANGED workerStoppers

StopWorker(w) ==
  /\ Waiting(w) /\ w \in toldToStop
  /\ toldToStop' = toldToStop \ {w}
  /\ alive' = alive \ {w}
  /\ UNCHANGED <<workerStoppers, running>>

-----------------------------------------------------------------------------
\* The list of stop channels is exactly the workers that are to live on, each
\* once, so len(w.workerStoppers) is the size the pool is shrinking or growing
\* to, and no channel is closed twice (SetWorkerQuantity against newWorker).
StoppersAreThePool ==
  /\ IsInjective(workerStoppers)
  /\ ToSet(workerStoppers) = alive \ toldToStop

\* Once nobody resizes the pool any more it has as many workers as were asked
\* for, even if jobs never cease to arrive (newWorker's select).
PoolConverges ==
  <>[][workerStoppers' = workerStoppers]_poolVars
     => <>[](Cardinality(alive) = Len(workerStoppers))
=============================================================================
