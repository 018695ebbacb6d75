--------------------------- MODULE BulkheadProofs ---------------------------
(***************************************************************************)
(* Theorems about the bulkhead, for any workers and any calls, with and    *)
(* without a MaxWaitTime.                                                  *)
(***************************************************************************)
EXTENDS Bulkhead, SequenceLemmas

\* Where everybody is.
PlaceInv ==
  /\ worker \in [Workers -> {"spawned", "select", "job", "returned"}]
  /\ job \in [Workers -> Calls \cup {NoJob}]
  /\ call \in [Calls -> {"idle", "queued", "sending", "timeout", "waiting",
                         "rejected", "answered"}]
  /\ sending \in Seq(Calls)
  /\ func \in [Calls -> {"notrun", "running", "finished"}]

\* What a call, its function and the worker that holds it have to do with each
\* other: a call that is sending is blocked on jobC once; the job of a worker is of
\* a call that waits for it, and no other worker has it; what has not been handed
\* over, or was rejected, has not been run; what was answered is over.
HandoverInv ==
  /\ \A c \in Calls : Occurrences(sending, c) = IF call[c] = "sending" THEN 1 ELSE 0
  /\ \A w \in Workers : worker[w] = "job" =>
       /\ job[w] \in Calls /\ call[job[w]] = "waiting" /\ func[job[w]] # "finished"
       /\ \A v \in Workers : worker[v] = "job" /\ job[v] = job[w] => v = w
  /\ \A c \in Calls : call[c] \notin {"waiting", "answered"} => func[c] = "notrun"
  /\ \A c \in Calls : call[c] = "answered" => func[c] = "finished"

\* The model takes a call that is over out of the counters: that they are no less
\* than 0 is the matter of CountsInv below.
CounterInv ==
  /\ queued \in Int /\ processed \in Int /\ timeouts \in Int
  /\ MetricsAddUp

BulkheadInv == PlaceInv /\ HandoverInv /\ CounterInv

LEMMA PendingIsFinite == IsFiniteSet(Pending) /\ Cardinality(Pending) \in Nat
<1>1. Pending \in SUBSET Calls
  BY DEF Pending
<1> QED
  BY <1>1, BulkheadAssumption, FS_Subset, FS_CardinalityType

LEMMA BulkheadInit == Init => BulkheadInv
<1> SUFFICES ASSUME Init PROVE BulkheadInv
  OBVIOUS
<1>1. PlaceInv
  BY EmptySeq DEF Init, PlaceInv
<1>2. HandoverInv
  BY OccurrencesInShort DEF Init, HandoverInv
<1>3. Cardinality(Pending) = 0
  <2>1. Pending = {}
    BY DEF Init, Pending
  <2> QED
    BY <2>1, FS_EmptySet
<1>4. CounterInv
  BY <1>3 DEF Init, CounterInv, MetricsAddUp
<1> QED
  BY <1>1, <1>2, <1>4 DEF BulkheadInv

-----------------------------------------------------------------------------
\* The first of the blocked calls is one that is sending.
LEMMA HeadIsSending ==
  ASSUME BulkheadInv, sending # <<>>
  PROVE  Head(sending) \in Calls /\ call[Head(sending)] = "sending"
<1>1. sending \in Seq(Calls)
  BY DEF BulkheadInv, PlaceInv
<1>2. /\ Head(sending) \in Calls /\ Tail(sending) \in Seq(Calls)
      /\ Occurrences(sending, Head(sending)) = Occurrences(Tail(sending), Head(sending)) + 1
  BY <1>1, OccurrencesInTail
<1>3. Occurrences(Tail(sending), Head(sending)) \in Nat
  BY <1>2, PlacesFinite
<1> QED
  BY <1>2, <1>3 DEF BulkheadInv, HandoverInv

LEMMA StepsKeepPlaces == BulkheadInv /\ [Next]_vars => PlaceInv'
<1> SUFFICES ASSUME BulkheadInv, [Next]_vars PROVE PlaceInv'
  OBVIOUS
<1> USE DEF BulkheadInv, PlaceInv, poolVars, metricVars, WorkerGoesTo
<1>1. ASSUME NEW c \in Calls, Caller(c) PROVE PlaceInv'
  <2>1. CASE Offer(c)
    BY <2>1, AppendProperties DEF Offer
  <2>2. CASE MaxWaitTime(c)
    <3>1. PICK i \in DOMAIN sending : sending' = RemoveAt(sending, i)
      BY <2>2 DEF MaxWaitTime
    <3>2. sending' \in Seq(Calls)
      BY <3>1, LenProperties, RemoveAtProperties
    <3> QED
      BY <2>2, <3>2 DEF MaxWaitTime
  <2>3. CASE Run(c) \/ Reject(c) \/ GetResult(c) \/ Recur(c)
    BY <2>3 DEF Run, Reject, GetResult, Recur
  <2> QED
    BY <1>1, <2>1, <2>2, <2>3 DEF Caller
<1>2. ASSUME NEW w \in Workers, Worker(w) PROVE PlaceInv'
  <2>1. CASE ReceiveJob(w)
    BY <2>1, HeadIsSending, HeadTailProperties DEF ReceiveJob
  <2>2. CASE StartWorker(w) \/ RunJob(w) \/ FinishJob(w) \/ StopWorker(w)
    BY <2>2 DEF StartWorker, RunJob, FinishJob, StopWorker, HandoverInv
  <2> QED
    BY <1>2, <2>1, <2>2 DEF Worker
<1>3. CASE Stop \/ UNCHANGED vars
  BY <1>3 DEF Stop, vars
<1> QED
  BY <1>1, <1>2, <1>3 DEF Next

\* Who blocks on jobC.
LEMMA StepsKeepSenders ==
  ASSUME BulkheadInv, [Next]_vars, NEW d \in Calls
  PROVE  Occurrences(sending', d) = IF call'[d] = "sending" THEN 1 ELSE 0
<1> USE DEF BulkheadInv, PlaceInv, poolVars, metricVars
<1>1. /\ Occurrences(sending, d) = IF call[d] = "sending" THEN 1 ELSE 0
      /\ Occurrences(sending', d) \in Nat
  BY StepsKeepPlaces, PlacesFinite DEF HandoverInv
<1>2. ASSUME NEW c \in Calls, Offer(c)
      PROVE  Occurrences(sending', d) = IF call'[d] = "sending" THEN 1 ELSE 0
  <2>1. Occurrences(sending', d) = Occurrences(sending, d) + IF c = d THEN 1 ELSE 0
    BY <1>2, OccurrencesInAppend DEF Offer
  <2> QED
    BY <1>1, <1>2, <2>1 DEF Offer
<1>3. ASSUME NEW c \in Calls, MaxWaitTime(c)
      PROVE  Occurrences(sending', d) = IF call'[d] = "sending" THEN 1 ELSE 0
  <2>1. PICK i \in DOMAIN sending : sending[i] = c /\ sending' = RemoveAt(sending, i)
    BY <1>3 DEF MaxWaitTime
  <2>2. Occurrences(sending, d) = Occurrences(sending', d) + IF c = d THEN 1 ELSE 0
    BY <2>1, LenProperties, OccurrencesInRemoveAt
  <2> QED
    BY <1>1, <1>3, <2>2 DEF MaxWaitTime
<1>4. ASSUME NEW w \in Workers, ReceiveJob(w)
      PROVE  Occurrences(sending', d) = IF call'[d] = "sending" THEN 1 ELSE 0
  <2>0. PICK c \in Calls : c = Head(sending) /\ call[c] = "sending"
    BY <1>4, HeadIsSending DEF ReceiveJob
  <2>1. Occurrences(sending, d) = Occurrences(sending', d) + IF c = d THEN 1 ELSE 0
    BY <1>4, <2>0, OccurrencesInTail DEF ReceiveJob
  <2> QED
    BY <1>1, <1>4, <2>0, <2>1 DEF ReceiveJob
<1>5. ASSUME sending' = sending, call'[d] = "sending" <=> call[d] = "sending"
      PROVE  Occurrences(sending', d) = IF call'[d] = "sending" THEN 1 ELSE 0
  BY <1>1, <1>5
<1>6. ASSUME NEW c \in Calls, Run(c) \/ Reject(c) \/ GetResult(c) \/ Recur(c)
      PROVE  sending' = sending /\ (call'[d] = "sending" <=> call[d] = "sending")
  BY <1>6 DEF Run, Reject, GetResult, Recur
<1>7. ASSUME NEW w \in Workers, StartWorker(w) \/ RunJob(w) \/ FinishJob(w) \/ StopWorker(w)
      PROVE  UNCHANGED <<sending, call>>
  BY <1>7 DEF StartWorker, RunJob, FinishJob, StopWorker
<1>8. CASE Stop \/ UNCHANGED vars
  BY <1>5, <1>8 DEF Stop, vars
<1> QED
  BY <1>2, <1>3, <1>4, <1>5, <1>6, <1>7, <1>8 DEF Next, Caller, Worker

LEMMA StepsKeepHandover == BulkheadInv /\ [Next]_vars => HandoverInv'
<1> SUFFICES ASSUME BulkheadInv, [Next]_vars PROVE HandoverInv'
  OBVIOUS
<1> DEFINE JobsInv ==
             \A w \in Workers : worker[w] = "job" =>
               /\ job[w] \in Calls /\ call[job[w]] = "waiting" /\ func[job[w]] # "finished"
               /\ \A v \in Workers : worker[v] = "job" /\ job[v] = job[w] => v = w
           FuncsInv ==
             /\ \A c \in Calls : call[c] \notin {"waiting", "answered"} => func[c] = "notrun"
             /\ \A c \in Calls : call[c] = "answered" => func[c] = "finished"
<1>1. \A c \in Calls : Occurrences(sending', c) = IF call'[c] = "sending" THEN 1 ELSE 0
  BY StepsKeepSenders
<1> USE DEF BulkheadInv, PlaceInv, HandoverInv, poolVars, metricVars, WorkerGoesTo
<1>2. ASSUME NEW c \in Calls, Caller(c) PROVE JobsInv' /\ FuncsInv'
  <2>1. CASE Run(c) \/ Offer(c)
    BY <2>1 DEF Run, Offer
  <2>2. CASE MaxWaitTime(c)
    BY <2>2 DEF MaxWaitTime
  <2>3. CASE Reject(c)
    BY <2>3 DEF Reject
  <2>4. CASE GetResult(c)
    BY <2>4 DEF GetResult
  <2>5. CASE Recur(c)
    <3>1. \A w \in Workers : worker[w] = "job" => job[w] # c
      BY <2>5 DEF Recur
    <3>2. /\ UNCHANGED <<worker, job>>
          /\ \A d \in Calls \ {c} : call'[d] = call[d] /\ func'[d] = func[d]
      BY <2>5 DEF Recur
    <3>3. call'[c] = "idle" /\ func'[c] = "notrun"
      BY <2>5 DEF Recur
    <3> QED
      BY <3>1, <3>2, <3>3
  <2> QED
    BY <1>2, <2>1, <2>2, <2>3, <2>4, <2>5 DEF Caller
<1>3. ASSUME NEW w \in Workers, ReceiveJob(w) PROVE JobsInv' /\ FuncsInv'
  <2>1. PICK c \in Calls : c = Head(sending) /\ call[c] = "sending"
    BY <1>3, HeadIsSending DEF ReceiveJob
  <2>2. \A v \in Workers : worker[v] = "job" => job[v] # c
    BY <2>1
  <2>3. func[c] = "notrun"
    BY <2>1
  <2> QED
    BY <1>3, <2>1, <2>2, <2>3 DEF ReceiveJob
<1>4. ASSUME NEW w \in Workers, RunJob(w) PROVE JobsInv' /\ FuncsInv'
  BY <1>4 DEF RunJob
<1>5. ASSUME NEW w \in Workers, FinishJob(w) PROVE JobsInv' /\ FuncsInv'
  <2>1. PICK c \in Calls : c = job[w] /\ call[c] = "waiting"
    BY <1>5 DEF FinishJob
  <2>2. \A v \in Workers \ {w} : worker[v] = "job" => job[v] # c
    BY <1>5, <2>1 DEF FinishJob
  <2> QED
    BY <1>5, <2>1, <2>2 DEF FinishJob
<1>6. ASSUME NEW w \in Workers, StartWorker(w) \/ StopWorker(w) PROVE JobsInv' /\ FuncsInv'
  BY <1>6 DEF StartWorker, StopWorker
<1>7. CASE Stop \/ UNCHANGED vars
  BY <1>7 DEF Stop, vars
<1>8. JobsInv' /\ FuncsInv'
  BY <1>2, <1>3, <1>4, <1>5, <1>6, <1>7 DEF Next, Worker
<1> QED
  BY <1>1, <1>8 DEF HandoverInv

-----------------------------------------------------------------------------
\* A call that is counted leaves the pending ones when its share of the counters
\* moves from the one to the other.
LEMMA StepsKeepCounters == BulkheadInv /\ [Next]_vars => CounterInv'
<1> SUFFICES ASSUME BulkheadInv, [Next]_vars PROVE CounterInv'
  OBVIOUS
<1> USE PendingIsFinite
        DEF BulkheadInv, PlaceInv, HandoverInv, CounterInv, MetricsAddUp, poolVars, metricVars
<1>1. ASSUME Pending' = Pending, UNCHANGED metricVars PROVE CounterInv'
  BY <1>1
<1>2. ASSUME NEW c \in Calls, Run(c) PROVE CounterInv'
  <2>1. Pending' = Pending \cup {c} /\ c \notin Pending
    BY <1>2 DEF Run, Pending
  <2>2. Cardinality(Pending') = Cardinality(Pending) + 1
    BY <2>1, FS_AddElement
  <2> QED
    BY <1>2, <2>2 DEF Run
<1>3. ASSUME NEW c \in Calls, Offer(c) \/ MaxWaitTime(c) \/ GetResult(c) PROVE CounterInv'
  <2>1. Pending' = Pending
    BY <1>3 DEF Offer, MaxWaitTime, GetResult, Pending
  <2> QED
    BY <1>1, <1>3, <2>1 DEF Offer, MaxWaitTime, GetResult
<1>4. ASSUME NEW c \in Calls, Reject(c) PROVE CounterInv'
  <2>1. Pending' = Pending \ {c} /\ c \in Pending
    BY <1>4 DEF Reject, Pending
  <2>2. Cardinality(Pending') = Cardinality(Pending) - 1
    BY <2>1, FS_RemoveElement
  <2> QED
    BY <1>4, <2>2 DEF Reject
<1>5. ASSUME NEW c \in Calls, Recur(c) PROVE CounterInv'
  <2>1. Pending' = Pending
    BY <1>5 DEF Recur, Pending
  <2> QED
    BY <1>5, <2>1 DEF Recur
<1>6. ASSUME NEW w \in Workers, RunJob(w) PROVE CounterInv'
  <2>0. PICK c \in Calls : c = job[w] /\ call[c] = "waiting" /\ func[c] = "notrun"
    BY <1>6 DEF RunJob
  <2>1. Pending' = Pending \ {c} /\ c \in Pending
    BY <1>6, <2>0 DEF RunJob, Pending
  <2>2. Cardinality(Pending') = Cardinality(Pending) - 1
    BY <2>1, FS_RemoveElement
  <2> QED
    BY <1>6, <2>2 DEF RunJob
<1>7. ASSUME NEW w \in Workers, ReceiveJob(w) PROVE CounterInv'
  <2>0. PICK c \in Calls : c = Head(sending) /\ call[c] = "sending"
    BY <1>7, HeadIsSending DEF ReceiveJob
  <2>1. Pending' = Pending
    BY <1>7, <2>0 DEF ReceiveJob, Pending
  <2> QED
    BY <1>1, <1>7, <2>1 DEF ReceiveJob
<1>8. ASSUME NEW w \in Workers, FinishJob(w) PROVE CounterInv'
  <2>0. PICK c \in Calls : c = job[w] /\ call[c] = "waiting" /\ func[c] = "running"
    BY <1>8 DEF FinishJob
  <2>1. Pending' = Pending
    BY <1>8, <2>0 DEF FinishJob, Pending
  <2> QED
    BY <1>1, <1>8, <2>1 DEF FinishJob
<1>9. CASE (\E w \in Workers : StartWorker(w) \/ StopWorker(w)) \/ Stop \/ UNCHANGED vars
  <2>1. UNCHANGED <<call, func, metricVars>>
    BY <1>9 DEF StartWorker, StopWorker, Stop, vars
  <2>2. Pending' = Pending
    BY <2>1 DEF Pending
  <2> QED
    BY <1>1, <2>1, <2>2
<1> QED
  BY <1>2, <1>3, <1>4, <1>5, <1>6, <1>7, <1>8, <1>9 DEF Next, Caller, Worker

LEMMA BulkheadInvHolds == Spec => []BulkheadInv
<1>1. BulkheadInv /\ [Next]_vars => BulkheadInv'
  BY StepsKeepPlaces, StepsKeepHandover, StepsKeepCounters DEF BulkheadInv
<1> QED
  BY <1>1, BulkheadInit, PTL DEF Spec

\* For any calls and workers: what is counted as queued is processed, timed out or
\* on its way to the one or the other, once (Run against the workers).
THEOREM CountersAddUp == Spec => []MetricsAddUp
<1>1. BulkheadInv => MetricsAddUp
  BY DEF BulkheadInv, CounterInv
<1> QED
  BY <1>1, BulkheadInvHolds, PTL

-----------------------------------------------------------------------------
\* What the counters count: functions that were executed, and calls that were told
\* that they timed out.
Executed == {c \in Calls : func[c] # "notrun"}
TimedOut == {c \in Calls : call[c] = "rejected"}
CountsInv == processed = Cardinality(Executed) /\ timeouts = Cardinality(TimedOut)

LEMMA CountedAreFinite ==
  /\ IsFiniteSet(Executed) /\ Cardinality(Executed) \in Nat
  /\ IsFiniteSet(TimedOut) /\ Cardinality(TimedOut) \in Nat
<1>1. Executed \in SUBSET Calls /\ TimedOut \in SUBSET Calls
  BY DEF Executed, TimedOut
<1> QED
  BY <1>1, BulkheadAssumption, FS_Subset, FS_CardinalityType

LEMMA StepsKeepCounts == BulkheadInv /\ CountsInv /\ [Next]_vars => CountsInv'
<1> SUFFICES ASSUME BulkheadInv, CountsInv, [Next]_vars PROVE CountsInv'
  OBVIOUS
<1> USE CountedAreFinite DEF BulkheadInv, PlaceInv, HandoverInv, poolVars, metricVars
<1>1. ASSUME Executed' = Executed, TimedOut' = TimedOut, UNCHANGED <<processed, timeouts>>
      PROVE  CountsInv'
  BY <1>1 DEF CountsInv
<1>2. ASSUME NEW c \in Calls, Run(c) \/ Offer(c) \/ MaxWaitTime(c) \/ GetResult(c)
      PROVE  CountsInv'
  <2>1. Executed' = Executed /\ TimedOut' = TimedOut
    BY <1>2 DEF Run, Offer, MaxWaitTime, GetResult, Executed, TimedOut
  <2> QED
    BY <1>1, <1>2, <2>1 DEF Run, Offer, MaxWaitTime, GetResult
<1>3. ASSUME NEW c \in Calls, Reject(c) PROVE CountsInv'
  <2>1. Executed' = Executed /\ TimedOut' = TimedOut \cup {c} /\ c \notin TimedOut
    BY <1>3 DEF Reject, Executed, TimedOut
  <2>2. Cardinality(TimedOut') = Cardinality(TimedOut) + 1
    BY <2>1, FS_AddElement
  <2> QED
    BY <1>3, <2>1, <2>2 DEF CountsInv, Reject
<1>4. ASSUME NEW c \in Calls, Recur(c) PROVE CountsInv'
  <2>1. CASE call[c] = "rejected"
    <3>1. Executed' = Executed /\ TimedOut' = TimedOut \ {c} /\ c \in TimedOut
      BY <1>4, <2>1 DEF Recur, Executed, TimedOut
    <3>2. Cardinality(TimedOut') = Cardinality(TimedOut) - 1
      BY <3>1, FS_RemoveElement
    <3> QED
      BY <1>4, <2>1, <3>1, <3>2 DEF CountsInv, Recur
  <2>2. CASE call[c] = "answered"
    <3>1. TimedOut' = TimedOut /\ Executed' = Executed \ {c} /\ c \in Executed
      BY <1>4, <2>2 DEF Recur, Executed, TimedOut
    <3>2. Cardinality(Executed') = Cardinality(Executed) - 1
      BY <3>1, FS_RemoveElement
    <3> QED
      BY <1>4, <2>2, <3>1, <3>2 DEF CountsInv, Recur
  <2> QED
    BY <1>4, <2>1, <2>2 DEF Recur
<1>5. ASSUME NEW w \in Workers, ReceiveJob(w) PROVE CountsInv'
  <2>0. PICK c \in Calls : c = Head(sending) /\ call[c] = "sending"
    BY <1>5, HeadIsSending DEF ReceiveJob
  <2>1. Executed' = Executed /\ TimedOut' = TimedOut
    BY <1>5, <2>0 DEF ReceiveJob, Executed, TimedOut
  <2> QED
    BY <1>1, <1>5, <2>1 DEF ReceiveJob
<1>6. ASSUME NEW w \in Workers, RunJob(w) PROVE CountsInv'
  <2>0. PICK c \in Calls : c = job[w] /\ func[c] = "notrun"
    BY <1>6 DEF RunJob
  <2>1. TimedOut' = TimedOut /\ Executed' = Executed \cup {c} /\ c \notin Executed
    BY <1>6, <2>0 DEF RunJob, Executed, TimedOut
  <2>2. Cardinality(Executed') = Cardinality(Executed) + 1
    BY <2>1, FS_AddElement
  <2> QED
    BY <1>6, <2>1, <2>2 DEF CountsInv, RunJob
<1>7. ASSUME NEW w \in Workers, FinishJob(w) PROVE CountsInv'
  <2>0. PICK c \in Calls : c = job[w] /\ func[c] = "running"
    BY <1>7 DEF FinishJob
  <2>1. Executed' = Executed /\ TimedOut' = TimedOut
    BY <1>7, <2>0 DEF FinishJob, Executed, TimedOut
  <2> QED
    BY <1>1, <1>7, <2>1 DEF FinishJob
<1>8. CASE (\E w \in Workers : StartWorker(w) \/ StopWorker(w)) \/ Stop \/ UNCHANGED vars
  <2>1. UNCHANGED <<call, func, processed, timeouts>>
    BY <1>8 DEF StartWorker, StopWorker, Stop, vars
  <2>2. Executed' = Executed /\ TimedOut' = TimedOut
    BY <2>1 DEF Executed, TimedOut
  <2> QED
    BY <1>1, <2>1, <2>2
<1> QED
  BY <1>2, <1>3, <1>4, <1>5, <1>6, <1>7, <1>8 DEF Next, Caller, Worker

\* Who holds a job, and that nothing else than a flag is MaxWaitTime.
HolderInv ==
  /\ maxWait \in BOOLEAN /\ stopped \in BOOLEAN
  /\ \A w \in Workers : job[w] # NoJob <=> worker[w] = "job"

LEMMA StepsKeepHolders == BulkheadInv /\ HolderInv /\ [Next]_vars => HolderInv'
<1> SUFFICES ASSUME BulkheadInv, HolderInv, [Next]_vars PROVE HolderInv'
  OBVIOUS
<1> USE DEF BulkheadInv, PlaceInv, HolderInv, poolVars, WorkerGoesTo
<1>1. ASSUME NEW c \in Calls, Caller(c) PROVE HolderInv'
  BY <1>1 DEF Caller, Run, Offer, MaxWaitTime, Reject, GetResult, Recur
<1>2. ASSUME NEW w \in Workers, ReceiveJob(w) PROVE HolderInv'
  BY <1>2, HeadIsSending, BulkheadAssumption DEF ReceiveJob
<1>3. ASSUME NEW w \in Workers, StartWorker(w) \/ RunJob(w) \/ FinishJob(w) \/ StopWorker(w)
      PROVE  HolderInv'
  BY <1>3 DEF StartWorker, RunJob, FinishJob, StopWorker
<1>4. CASE Stop \/ UNCHANGED vars
  BY <1>4 DEF Stop, vars
<1> QED
  BY <1>1, <1>2, <1>3, <1>4 DEF Next, Worker

\* Type correctness of the bulkhead for any calls and workers: a worker that waits
\* holds no job, the calls blocked on jobC are those that are sending, each once,
\* and no counter is taken below zero.
THEOREM BulkheadTypeCorrect == Spec => []TypeOK
<1>1. Init => CountsInv /\ HolderInv
  <2> SUFFICES ASSUME Init PROVE CountsInv /\ HolderInv
    OBVIOUS
  <2>1. Executed = {} /\ TimedOut = {}
    BY DEF Init, Executed, TimedOut
  <2> QED
    BY <2>1, FS_EmptySet DEF Init, CountsInv, HolderInv
<1>2. BulkheadInv /\ CountsInv /\ HolderInv => TypeOK
  <2> SUFFICES ASSUME BulkheadInv, CountsInv, HolderInv PROVE TypeOK
    OBVIOUS
  <2>1. queued \in Nat /\ processed \in Nat /\ timeouts \in Nat
    BY CountedAreFinite, PendingIsFinite
    DEF CountsInv, BulkheadInv, CounterInv, MetricsAddUp
  <2>2. IsInjective(sending) /\ ToSet(sending) = {c \in Calls : call[c] = "sending"}
    <3> DEFINE T == {c \in Calls : call[c] = "sending"}
    <3>1. /\ sending \in Seq(Calls) /\ T \subseteq Calls
          /\ \A c \in Calls : Occurrences(sending, c) = IF c \in T THEN 1 ELSE 0
      BY DEF BulkheadInv, PlaceInv, HandoverInv
    <3> HIDE DEF T
    <3>2. IsInjective(sending) /\ ToSet(sending) = T
      BY <3>1, CountedOnce
    <3> QED
      BY <3>2 DEF T
  <2> QED
    BY <2>1, <2>2 DEF BulkheadInv, PlaceInv, HolderInv, TypeOK
<1> QED
  BY <1>1, <1>2, BulkheadInvHolds, StepsKeepCounts, StepsKeepHolders, PTL DEF Spec

-----------------------------------------------------------------------------
\* What callers have been told, when one of them is told something new.
LEMMA OneReplyChanges ==
  ASSUME NEW c \in Calls, NEW was, NEW is,
         ReplyOf(c) = was, ReplyOf(c)' = is,
         \A d \in Calls \ {c} : ReplyOf(d)' = ReplyOf(d)
  PROVE  /\ [d \in Calls |-> ReplyOf(d)]' = [[d \in Calls |-> ReplyOf(d)] EXCEPT ![c] = is]
         /\ [d \in Calls |-> ReplyOf(d)][c] = was
<1>1. ASSUME NEW d \in Calls
      PROVE  ReplyOf(d)' = [[e \in Calls |-> ReplyOf(e)] EXCEPT ![c] = is][d]
  <2>1. CASE d = c
    BY <2>1, Zenon
  <2>2. CASE d # c
    BY <2>2, Zenon
  <2> QED
    BY <2>1, <2>2
<1> QED
  BY <1>1, Zenon

\* A function is executed at most once, never when its call timed out waiting, and
\* its call returns its result: the bulkhead implements ExecutorContract, whether
\* it is stopped or not (Run against startWorkerPool).
THEOREM BulkheadKeepsContract == Spec => KeepsContract
<1> DEFINE reply == [c \in Calls |-> ReplyOf(c)]
<1>1. Init => Contract!Init
  BY DEF Init, Contract!Init, ReplyOf
<1>2. BulkheadInv /\ [Next]_vars => [Contract!Next]_<<func, reply>>
  <2> SUFFICES ASSUME BulkheadInv, Next PROVE Contract!Next \/ UNCHANGED <<func, reply>>
    BY DEF vars, ReplyOf
  <2> USE DEF BulkheadInv, PlaceInv, HandoverInv, poolVars
  <2>1. ASSUME NEW c \in Calls, Run(c) \/ Offer(c) \/ MaxWaitTime(c)
        PROVE  UNCHANGED <<func, reply>>
    BY <2>1 DEF Run, Offer, MaxWaitTime, ReplyOf
  <2>2. ASSUME NEW c \in Calls, Reject(c) PROVE Contract!Reject(c)
    <3>1. /\ \A d \in Calls \ {c} : ReplyOf(d)' = ReplyOf(d)
          /\ ReplyOf(c)' = "rejected" /\ ReplyOf(c) = "none"
      BY <2>2 DEF Reject, ReplyOf
    <3>2. reply' = [reply EXCEPT ![c] = "rejected"] /\ reply[c] = ReplyOf(c)
      BY <3>1, OneReplyChanges
    <3> QED
      BY <2>2, <3>1, <3>2 DEF Reject, Contract!Reject
  <2>3. ASSUME NEW c \in Calls, GetResult(c) PROVE Contract!Answer(c)
    <3>1. /\ \A d \in Calls \ {c} : ReplyOf(d)' = ReplyOf(d)
          /\ ReplyOf(c)' = "result" /\ ReplyOf(c) = "none"
      BY <2>3 DEF GetResult, ReplyOf
    <3>2. reply' = [reply EXCEPT ![c] = "result"] /\ reply[c] = ReplyOf(c)
      BY <3>1, OneReplyChanges
    <3> QED
      BY <2>3, <3>1, <3>2 DEF GetResult, Contract!Answer
  <2>4. ASSUME NEW c \in Calls, Recur(c) PROVE Contract!Again(c)
    <3>1. /\ \A d \in Calls \ {c} : ReplyOf(d)' = ReplyOf(d)
          /\ ReplyOf(c)' = "none" /\ ReplyOf(c) # "none" /\ func[c] # "running"
      BY <2>4 DEF Recur, ReplyOf
    <3>2. reply' = [reply EXCEPT ![c] = "none"] /\ reply[c] = ReplyOf(c)
      BY <3>1, OneReplyChanges
    <3> QED
      BY <2>4, <3>1, <3>2 DEF Recur, Contract!Again
  <2>5. ASSUME NEW w \in Workers, ReceiveJob(w) PROVE UNCHANGED <<func, reply>>
    <3>1. PICK c \in Calls : c = Head(sending) /\ call[c] = "sending"
      BY <2>5, HeadIsSending DEF ReceiveJob
    <3> QED
      BY <2>5, <3>1 DEF ReceiveJob, ReplyOf
  <2>6. ASSUME NEW w \in Workers, RunJob(w) PROVE \E c \in Calls : Contract!Run(c)
    <3>1. PICK c \in Calls : c = job[w] /\ call[c] = "waiting" /\ func[c] = "notrun"
      BY <2>6 DEF RunJob
    <3>2. ReplyOf(c) = "none" /\ reply' = reply /\ func' = [func EXCEPT ![c] = "running"]
      BY <2>6, <3>1 DEF RunJob, ReplyOf
    <3> QED
      BY <3>1, <3>2 DEF Contract!Run
  <2>7. ASSUME NEW w \in Workers, FinishJob(w) PROVE \E c \in Calls : Contract!Finish(c)
    <3>1. PICK c \in Calls : c = job[w] /\ func[c] = "running"
      BY <2>7 DEF FinishJob
    <3>2. reply' = reply /\ func' = [func EXCEPT ![c] = "finished"]
      BY <2>7, <3>1 DEF FinishJob, ReplyOf
    <3> QED
      BY <3>1, <3>2 DEF Contract!Finish
  <2>8. CASE (\E w \in Workers : StartWorker(w) \/ StopWorker(w)) \/ Stop
    BY <2>8 DEF StartWorker, StopWorker, Stop, ReplyOf
  <2> QED
    BY <2>1, <2>2, <2>3, <2>4, <2>5, <2>6, <2>7, <2>8 DEF Next, Caller, Worker, Contract!Next
<1> QED
  BY <1>1, <1>2, BulkheadInvHolds, PTL DEF Spec, KeepsContract, Contract!Spec
=============================================================================
