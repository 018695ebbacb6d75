------------------------- MODULE FifoExecutorProofs -------------------------
(***************************************************************************)
(* Theorems about the worker pool and the FIFO executor on top of it, for  *)
(* any workers, any calls and any quantities the pool is resized to.       *)
(***************************************************************************)
EXTENDS FifoExecutor, SequenceLemmas

\* The pool grows by workers that were not alive, with a stop channel each, and
\* shrinks by the oldest ones, whose channels are closed and dropped.
LEMMA ResizingKeepsPool ==
  ASSUME PoolTypeOK, StoppersAreThePool,
         NEW quantity \in 0 .. MaxQuantity, SetWorkerQuantity(quantity)
  PROVE  PoolTypeOK' /\ StoppersAreThePool' /\ running' = running
<1> DEFINE have == Len(workerStoppers)
           kept == alive \ toldToStop
<1>1. /\ have \in Nat /\ quantity \in Nat /\ kept \in SUBSET Workers
      /\ workerStoppers \in Seq(Workers) /\ alive \subseteq Workers /\ toldToStop \subseteq alive
      /\ IsInjective(workerStoppers) /\ ToSet(workerStoppers) = kept
  BY PoolAssumption, LenProperties DEF PoolTypeOK, StoppersAreThePool
<1>2. CASE have < quantity
  <2> DEFINE n == quantity - have
  <2>1. n \in Nat /\ IncreaseWorkers(n)
    BY <1>1, <1>2 DEF SetWorkerQuantity
  <2> HIDE DEF n
  <2>2. PICK new \in [1 .. n -> Workers \ alive] :
          /\ IsInjective(new)
          /\ workerStoppers' = workerStoppers \o new
          /\ alive' = alive \cup ToSet(new)
          /\ UNCHANGED <<toldToStop, running>>
    BY <2>1 DEF IncreaseWorkers
  <2>3. /\ new \in Seq(Workers) /\ IsInjective(new)
        /\ ToSet(new) \subseteq Workers \ alive
    BY <2>1, <2>2, IsASeq DEF ToSet
  <2>4. ToSet(workerStoppers) \cap ToSet(new) = {}
    BY <1>1, <2>3
  <2> DEFINE grown == workerStoppers \o new
  <2>5. /\ grown \in Seq(Workers) /\ IsInjective(grown)
        /\ ToSet(grown) = ToSet(workerStoppers) \cup ToSet(new)
    <3>1. workerStoppers \in Seq(Workers) /\ IsInjective(workerStoppers)
      BY <1>1
    <3>2. \A s, t \in Seq(Workers) :
             IsInjective(s) /\ IsInjective(t) /\ ToSet(s) \cap ToSet(t) = {}
               => /\ s \o t \in Seq(Workers) /\ IsInjective(s \o t)
                  /\ ToSet(s \o t) = ToSet(s) \cup ToSet(t)
      BY ListGrows
    <3> QED
      BY <3>1, <3>2, <2>3, <2>4, Zenon
  <2> HIDE DEF grown
  <2>6. /\ workerStoppers' \in Seq(Workers) /\ IsInjective(workerStoppers')
        /\ ToSet(workerStoppers') = kept \cup ToSet(new)
    BY <1>1, <2>2, <2>5 DEF grown
  <2>7. alive' \ toldToStop' = kept \cup ToSet(new)
    BY <1>1, <2>2, <2>3
  <2>8. PoolTypeOK'
    BY <1>1, <2>2, <2>3, <2>6 DEF PoolTypeOK
  <2> QED
    BY <2>2, <2>6, <2>7, <2>8 DEF StoppersAreThePool, IsInjective, ToSet
<1>3. CASE ~ (have < quantity)
  <2> DEFINE n == have - quantity
             closed == ToSet(SubSeq(workerStoppers, 1, n))
             left == SubSeq(workerStoppers, n + 1, Len(workerStoppers))
  <2>1. n \in 0 .. Len(workerStoppers) /\ DecreaseWorkers(n)
    BY <1>1, <1>3 DEF SetWorkerQuantity
  <2> HIDE DEF n
  <2>2. /\ workerStoppers' = left /\ toldToStop' = toldToStop \cup closed
        /\ UNCHANGED <<alive, running>>
    BY <2>1 DEF DecreaseWorkers
  <2> HIDE DEF kept
  <2>3. closed \subseteq kept /\ left \in Seq(Workers) /\ IsInjective(left)
        /\ ToSet(left) = kept \ closed
    BY <1>1, <2>1, ListIsCut
  <2> HIDE DEF closed, left
  <2>4. alive' \ toldToStop' = kept \ closed
    BY <2>2 DEF kept
  <2>5. PoolTypeOK'
    BY <1>1, <2>2, <2>3 DEF PoolTypeOK, kept
  <2> QED
    BY <2>2, <2>3, <2>4, <2>5 DEF StoppersAreThePool, IsInjective, ToSet
<1> QED
  BY <1>2, <1>3

\* The steps of one worker.
LEMMA WorkerKeepsPool ==
  ASSUME PoolTypeOK, StoppersAreThePool, NEW w \in Workers,
         \/ StopWorker(w) /\ running[w] = NoJob
         \/ FinishJob(w)
         \/ \E job \in Calls : ReceiveJob(w, job)
  PROVE  PoolTypeOK' /\ StoppersAreThePool'
<1>1. CASE StopWorker(w)
  <2>1. /\ w \in toldToStop /\ toldToStop' = toldToStop \ {w} /\ alive' = alive \ {w}
        /\ running[w] = NoJob /\ UNCHANGED <<workerStoppers, running>>
    BY <1>1 DEF StopWorker, Waiting
  <2>2. alive' \ toldToStop' = alive \ toldToStop
    BY <2>1
  <2> QED
    BY <2>1, <2>2 DEF PoolTypeOK, StoppersAreThePool
<1>2. CASE FinishJob(w)
  BY <1>2 DEF FinishJob, PoolTypeOK, StoppersAreThePool
<1>3. ASSUME NEW job \in Calls, ReceiveJob(w, job) PROVE PoolTypeOK' /\ StoppersAreThePool'
  BY <1>3 DEF ReceiveJob, Waiting, PoolTypeOK, StoppersAreThePool
<1> QED
  BY <1>1, <1>2, <1>3

-----------------------------------------------------------------------------
\* The inductive invariant of the executor.  A call that is sending is blocked on
\* jobQueue once, no other one is; a job in a worker is that of a call which
\* waits for it, and nobody else runs it; a result belongs to a call that takes it.
HandoverInv ==
  /\ \A c \in Calls : Occurrences(sending, c) = IF call[c] = "sending" THEN 1 ELSE 0
  /\ \A w \in Workers : running[w] # NoJob =>
       /\ call[running[w]] = "waiting" /\ running[w] \notin result
       /\ \A v \in Workers : running[v] = running[w] => v = w
  /\ \A c \in result : call[c] \in {"waiting", "answered"}
  /\ \A c \in Calls : call[c] = "answered" => c \in result

FifoInv == TypeOK /\ StoppersAreThePool /\ HandoverInv

LEMMA FifoInit == Init => FifoInv
<1> SUFFICES ASSUME Init PROVE FifoInv
  OBVIOUS
<1>1. TypeOK
  BY EmptySeq DEF Init, PoolInit, TypeOK, PoolTypeOK
<1>2. StoppersAreThePool
  BY DEF Init, PoolInit, StoppersAreThePool, IsInjective, ToSet
<1>3. HandoverInv
  BY OccurrencesInShort DEF Init, PoolInit, HandoverInv
<1> QED
  BY <1>1, <1>2, <1>3 DEF FifoInv

\* A call offers its job, on a channel of its own for the result.
LEMMA ExecuteKeepsInv ==
  ASSUME FifoInv, NEW c \in Calls, Execute(c)
  PROVE  FifoInv'
<1> USE PoolAssumption DEF FifoInv, TypeOK
<1>1. /\ call[c] \in {"idle", "rejected", "answered"}
      /\ call' = [call EXCEPT ![c] = "sending"]
      /\ sending' = Append(sending, c)
      /\ result' = result \ {c}
      /\ UNCHANGED poolVars
  BY DEF Execute
<1>2. PoolTypeOK' /\ StoppersAreThePool'
  BY <1>1 DEF poolVars, PoolTypeOK, StoppersAreThePool
<1>3. TypeOK'
  BY <1>1, <1>2, AppendProperties
<1>4. ASSUME NEW d \in Calls
      PROVE  Occurrences(sending', d) = IF call'[d] = "sending" THEN 1 ELSE 0
  <2>1. Occurrences(sending, d) = IF call[d] = "sending" THEN 1 ELSE 0
    BY DEF HandoverInv
  <2>2. Occurrences(sending', d) = Occurrences(sending, d) + IF c = d THEN 1 ELSE 0
    BY <1>1, OccurrencesInAppend
  <2> QED
    BY <1>1, <2>1, <2>2
<1>5. HandoverInv'
  BY <1>1, <1>4 DEF HandoverInv, poolVars, PoolTypeOK
<1> QED
  BY <1>2, <1>3, <1>5

\* A call that gives up takes its job back.
LEMMA MaxWaitTimeKeepsInv ==
  ASSUME FifoInv, NEW c \in Calls, MaxWaitTime(c)
  PROVE  FifoInv'
<1> USE PoolAssumption DEF FifoInv, TypeOK
<1>1. PICK i \in DOMAIN sending : sending[i] = c /\ sending' = RemoveAt(sending, i)
  BY DEF MaxWaitTime
<1>2. /\ call[c] = "sending"
      /\ call' = [call EXCEPT ![c] = "rejected"]
      /\ UNCHANGED <<poolVars, result>>
  BY DEF MaxWaitTime
<1>3. PoolTypeOK' /\ StoppersAreThePool'
  BY <1>2 DEF poolVars, PoolTypeOK, StoppersAreThePool
<1>4. i \in 1 .. Len(sending) /\ sending \in Seq(Calls)
  BY LenProperties
<1>5. TypeOK'
  BY <1>1, <1>2, <1>3, <1>4, RemoveAtProperties
<1>6. ASSUME NEW d \in Calls
      PROVE  Occurrences(sending', d) = IF call'[d] = "sending" THEN 1 ELSE 0
  <2>1. Occurrences(sending, d) = IF call[d] = "sending" THEN 1 ELSE 0
    BY DEF HandoverInv
  <2>2. Occurrences(sending, d) = Occurrences(sending', d) + IF c = d THEN 1 ELSE 0
    BY <1>1, <1>4, OccurrencesInRemoveAt
  <2>3. Occurrences(sending', d) \in Nat
    BY <1>5, PlacesFinite
  <2> QED
    BY <1>2, <2>1, <2>2, <2>3
<1>7. HandoverInv'
  BY <1>2, <1>6 DEF HandoverInv, poolVars, PoolTypeOK
<1> QED
  BY <1>3, <1>5, <1>7

\* The first of the blocked calls is one that is sending, and nobody runs its job.
LEMMA HeadIsSending ==
  ASSUME FifoInv, sending # <<>>
  PROVE  /\ Head(sending) \in Calls /\ call[Head(sending)] = "sending"
         /\ Head(sending) \notin result
         /\ \A w \in Workers : running[w] # Head(sending)
<1>1. sending \in Seq(Calls)
  BY DEF FifoInv, TypeOK
<1>2. /\ Head(sending) \in Calls /\ Tail(sending) \in Seq(Calls)
      /\ Occurrences(sending, Head(sending)) = Occurrences(Tail(sending), Head(sending)) + 1
  BY <1>1, OccurrencesInTail
<1>3. Occurrences(Tail(sending), Head(sending)) \in Nat
  BY <1>2, PlacesFinite
<1>4. call[Head(sending)] = "sending"
  BY <1>2, <1>3 DEF FifoInv, HandoverInv
<1> QED
  BY <1>2, <1>4, PoolAssumption DEF FifoInv, HandoverInv

LEMMA HandoverKeepsInv ==
  ASSUME FifoInv, NEW w \in Workers, Handover(w)
  PROVE  FifoInv'
<1> USE PoolAssumption DEF FifoInv, TypeOK
<1> DEFINE c == Head(sending)
<1>1. /\ sending # <<>> /\ ReceiveJob(w, c) /\ sending' = Tail(sending)
      /\ call' = [call EXCEPT ![c] = "waiting"] /\ result' = result
  BY DEF Handover
<1>2. /\ c \in Calls /\ call[c] = "sending" /\ c \notin result
      /\ \A v \in Workers : running[v] # c
  BY <1>1, HeadIsSending
<1>3. PoolTypeOK' /\ StoppersAreThePool'
  BY <1>1, <1>2, WorkerKeepsPool
<1>4. running' = [running EXCEPT ![w] = c] /\ running[w] = NoJob
  BY <1>1 DEF ReceiveJob, Waiting
<1>5. TypeOK'
  BY <1>1, <1>2, <1>3, HeadTailProperties
<1>6. ASSUME NEW d \in Calls
      PROVE  Occurrences(sending', d) = IF call'[d] = "sending" THEN 1 ELSE 0
  <2>1. Occurrences(sending, d) = IF call[d] = "sending" THEN 1 ELSE 0
    BY DEF HandoverInv
  <2>2. Occurrences(sending, d) = Occurrences(sending', d) + IF c = d THEN 1 ELSE 0
    BY <1>1, OccurrencesInTail
  <2>3. Occurrences(sending', d) \in Nat
    BY <1>5, PlacesFinite
  <2> HIDE DEF c
  <2> QED
    BY <1>1, <1>2, <2>1, <2>2, <2>3
<1> HIDE DEF c
<1>7. HandoverInv'
  <2>1. ASSUME NEW v \in Workers, running'[v] # NoJob
        PROVE  /\ call'[running'[v]] = "waiting" /\ running'[v] \notin result'
               /\ \A u \in Workers : running'[u] = running'[v] => u = v
    <3>1. CASE v = w
      BY <1>1, <1>2, <1>4, <3>1 DEF PoolTypeOK
    <3>2. CASE v # w
      BY <1>1, <1>2, <1>4, <2>1, <3>2 DEF HandoverInv, PoolTypeOK
    <3> QED
      BY <3>1, <3>2
  <2>2. \A d \in result' : call'[d] \in {"waiting", "answered"}
    BY <1>1, <1>2 DEF HandoverInv
  <2>3. \A d \in Calls : call'[d] = "answered" => d \in result'
    BY <1>1, <1>2 DEF HandoverInv
  <2> QED
    BY <1>6, <2>1, <2>2, <2>3 DEF HandoverInv
<1> QED
  BY <1>3, <1>5, <1>7

\* The worker that returns the function of a call is the only one that had it.
LEMMA FuncReturnsKeepsInv ==
  ASSUME FifoInv, NEW w \in Workers, FuncReturns(w)
  PROVE  FifoInv'
<1> USE PoolAssumption DEF FifoInv, TypeOK
<1>1. /\ running[w] # NoJob /\ running' = [running EXCEPT ![w] = NoJob]
      /\ result' = result \cup {running[w]} /\ UNCHANGED <<call, sending>>
  BY DEF FuncReturns, FinishJob
<1>2. running[w] \in Calls /\ call[running[w]] = "waiting"
  BY <1>1 DEF HandoverInv, PoolTypeOK
<1>3. PoolTypeOK' /\ StoppersAreThePool'
  BY WorkerKeepsPool DEF FuncReturns
<1>4. TypeOK'
  BY <1>1, <1>2, <1>3
<1>5. HandoverInv'
  BY <1>1, <1>2 DEF HandoverInv, PoolTypeOK
<1> QED
  BY <1>3, <1>4, <1>5

LEMMA FifoStep == FifoInv /\ [Next]_vars => FifoInv'
<1> SUFFICES ASSUME FifoInv, [Next]_vars PROVE FifoInv'
  OBVIOUS
<1>1. ASSUME NEW c \in Calls, GetResult(c) PROVE FifoInv'
  BY <1>1 DEF GetResult, FifoInv, TypeOK, HandoverInv, poolVars, PoolTypeOK, StoppersAreThePool
<1>2. ASSUME PoolTypeOK', StoppersAreThePool', running' = running,
             UNCHANGED <<call, sending, result>>
      PROVE  FifoInv'
  BY <1>2 DEF FifoInv, TypeOK, HandoverInv
<1>3. ASSUME NEW w \in Workers, WorkerReturns(w) PROVE FifoInv'
  <2>1. /\ StopWorker(w) /\ running[w] = NoJob /\ running' = running
        /\ UNCHANGED <<call, sending, result>>
    BY <1>3 DEF WorkerReturns, StopWorker, Waiting
  <2>2. PoolTypeOK' /\ StoppersAreThePool'
    BY <2>1, WorkerKeepsPool DEF FifoInv, TypeOK
  <2> QED
    BY <1>2, <2>1, <2>2
<1>4. ASSUME NEW quantity \in 0 .. MaxQuantity, Resize(quantity) PROVE FifoInv'
  <2>1. PoolTypeOK' /\ StoppersAreThePool' /\ running' = running
    BY <1>4, ResizingKeepsPool DEF Resize, FifoInv, TypeOK
  <2> QED
    BY <1>2, <1>4, <2>1 DEF Resize
<1>5. CASE UNCHANGED vars
  BY <1>5 DEF vars, poolVars, FifoInv, TypeOK, HandoverInv, PoolTypeOK, StoppersAreThePool
<1> QED
  BY <1>1, <1>3, <1>4, <1>5, ExecuteKeepsInv, MaxWaitTimeKeepsInv, HandoverKeepsInv,
     FuncReturnsKeepsInv DEF Next

LEMMA FifoInvHolds == Spec => []FifoInv
BY FifoInit, FifoStep, PTL DEF Spec

\* However the pool is resized, its list of stop channels is exactly the workers
\* that are to live on (SetWorkerQuantity against newWorker).
THEOREM PoolKeepsItsStoppers == Spec => []StoppersAreThePool
<1>1. FifoInv => StoppersAreThePool
  BY DEF FifoInv
<1> QED
  BY <1>1, FifoInvHolds, PTL

\* Whatever the resizing, len(w.workerStoppers) is by how many workers the pool will
\* be left: there are as many more as have been told to stop and have not seen it
\* (SetWorkerQuantity, which grows and shrinks the pool by that length).
SizeAddsUp == Cardinality(alive) = Len(workerStoppers) + Cardinality(toldToStop)

THEOREM PoolSizeAddsUp == Spec => []SizeAddsUp
<1>1. FifoInv => SizeAddsUp
  <2> SUFFICES ASSUME FifoInv PROVE SizeAddsUp
    OBVIOUS
  <2>1. /\ workerStoppers \in Seq(Workers) /\ IsInjective(workerStoppers)
        /\ ToSet(workerStoppers) = alive \ toldToStop
        /\ toldToStop \subseteq alive /\ alive \subseteq Workers
    BY DEF FifoInv, TypeOK, PoolTypeOK, StoppersAreThePool
  <2>2. IsFiniteSet(alive) /\ IsFiniteSet(toldToStop)
    BY <2>1, PoolAssumption, FS_Subset
  <2>3. Cardinality(alive \ toldToStop) = Len(workerStoppers)
    BY <2>1, LengthOfAList
  <2>4. alive \cap toldToStop = toldToStop
    BY <2>1
  <2>5. Cardinality(alive \ toldToStop) = Cardinality(alive) - Cardinality(toldToStop)
    BY <2>2, <2>4, FS_Difference
  <2>6. Cardinality(alive) \in Nat /\ Cardinality(toldToStop) \in Nat
    BY <2>2, FS_CardinalityType
  <2> QED
    BY <2>3, <2>5, <2>6 DEF SizeAddsUp
<1> QED
  BY <1>1, FifoInvHolds, PTL

\* Type correctness of the FIFO executor, for any calls, workers and quantities.
THEOREM FifoTypeCorrect == Spec => []TypeOK
<1>1. FifoInv => TypeOK
  BY DEF FifoInv
<1> QED
  BY <1>1, FifoInvHolds, PTL

-----------------------------------------------------------------------------
\* For any calls and any pool, resized at will, a function is executed at most
\* once and never after a rejection, and a call returns its result: the executor
\* implements ExecutorContract (Execute with the worker pool).
THEOREM FifoKeepsContract == Spec => KeepsContract
<1> DEFINE func == [c \in Calls |-> FuncOf(c)]
           reply == [c \in Calls |-> ReplyOf(c)]
<1>1. Init => Contract!Init
  BY PoolAssumption DEF Init, PoolInit, Contract!Init, FuncOf, ReplyOf
<1>2. FifoInv /\ [Next]_vars => [Contract!Next]_<<func, reply>>
  <2> SUFFICES ASSUME FifoInv, Next PROVE Contract!Next \/ UNCHANGED <<func, reply>>
    BY DEF vars, poolVars, FuncOf, ReplyOf
  <2> USE PoolAssumption DEF FifoInv, TypeOK, PoolTypeOK
  <2>1. ASSUME NEW c \in Calls, Execute(c)
        PROVE  Contract!Again(c) \/ UNCHANGED <<func, reply>>
    <3>1. \A w \in Workers : running[w] # c /\ running'[w] # c
      BY <2>1 DEF Execute, poolVars, HandoverInv
    <3>2. /\ \A d \in Calls \ {c} : FuncOf(d)' = FuncOf(d) /\ ReplyOf(d)' = ReplyOf(d)
          /\ FuncOf(c)' = "notrun" /\ ReplyOf(c)' = "none" /\ FuncOf(c) # "running"
      BY <2>1, <3>1 DEF Execute, poolVars, FuncOf, ReplyOf
    <3>3. CASE call[c] = "idle"
      <4>1. FuncOf(c) = "notrun" /\ ReplyOf(c) = "none"
        BY <3>1, <3>3 DEF HandoverInv, FuncOf, ReplyOf
      <4> QED
        BY <3>2, <4>1
    <3>4. CASE call[c] # "idle"
      <4>1. ReplyOf(c) # "none"
        BY <2>1, <3>4 DEF Execute, ReplyOf
      <4> QED
        BY <3>2, <4>1 DEF Contract!Again
    <3> QED
      BY <3>3, <3>4
  <2>2. ASSUME NEW c \in Calls, MaxWaitTime(c) PROVE Contract!Reject(c)
    <3>1. FuncOf(c) = "notrun" /\ ReplyOf(c) = "none"
      BY <2>2 DEF MaxWaitTime, HandoverInv, FuncOf, ReplyOf
    <3>2. /\ \A d \in Calls : FuncOf(d)' = FuncOf(d)
          /\ \A d \in Calls \ {c} : ReplyOf(d)' = ReplyOf(d)
          /\ ReplyOf(c)' = "rejected"
      BY <2>2 DEF MaxWaitTime, poolVars, FuncOf, ReplyOf
    <3> QED
      BY <3>1, <3>2 DEF Contract!Reject
  <2>3. ASSUME NEW c \in Calls, GetResult(c) PROVE Contract!Answer(c)
    <3>1. FuncOf(c) = "finished" /\ ReplyOf(c) = "none"
      BY <2>3 DEF GetResult, FuncOf, ReplyOf
    <3>2. /\ \A d \in Calls : FuncOf(d)' = FuncOf(d)
          /\ \A d \in Calls \ {c} : ReplyOf(d)' = ReplyOf(d)
          /\ ReplyOf(c)' = "result"
      BY <2>3 DEF GetResult, poolVars, FuncOf, ReplyOf
    <3> QED
      BY <3>1, <3>2 DEF Contract!Answer
  <2>4. ASSUME NEW w \in Workers, Handover(w) PROVE \E c \in Calls : Contract!Run(c)
    <3>0. PICK c \in Calls : c = Head(sending)
      BY <2>4, HeadIsSending DEF Handover
    <3>1. /\ sending # <<>> /\ running[w] = NoJob /\ running' = [running EXCEPT ![w] = c]
          /\ call' = [call EXCEPT ![c] = "waiting"] /\ result' = result
      BY <2>4, <3>0 DEF Handover, ReceiveJob, Waiting
    <3>2. /\ call[c] = "sending" /\ c \notin result
          /\ \A v \in Workers : running[v] # c
      BY <3>0, <3>1, HeadIsSending
    <3>3. /\ FuncOf(c) = "notrun" /\ ReplyOf(c) = "none"
          /\ FuncOf(c)' = "running" /\ ReplyOf(c)' = "none"
      BY <3>1, <3>2 DEF FuncOf, ReplyOf
    <3>4. ASSUME NEW d \in Calls \ {c} PROVE FuncOf(d)' = FuncOf(d) /\ ReplyOf(d)' = ReplyOf(d)
      <4>1. (\E v \in Workers : running'[v] = d) <=> (\E v \in Workers : running[v] = d)
        BY <3>1, <3>2
      <4> QED
        BY <3>1, <3>2, <4>1 DEF FuncOf, ReplyOf
    <3> QED
      BY <3>2, <3>3, <3>4 DEF Contract!Run
  <2>5. ASSUME NEW w \in Workers, FuncReturns(w) PROVE \E c \in Calls : Contract!Finish(c)
    <3>0. PICK c \in Calls : c = running[w]
      BY <2>5 DEF FuncReturns, FinishJob
    <3>1. /\ c # NoJob /\ running' = [running EXCEPT ![w] = NoJob]
          /\ result' = result \cup {c} /\ UNCHANGED <<call, sending>>
      BY <2>5, <3>0 DEF FuncReturns, FinishJob
    <3>2. /\ c \notin result /\ running[w] = c
          /\ \A v \in Workers : running[v] = c => v = w
      BY <3>0, <3>1 DEF HandoverInv
    <3>3. FuncOf(c) = "running" /\ FuncOf(c)' = "finished" /\ ReplyOf(c)' = ReplyOf(c)
      BY <3>1, <3>2 DEF FuncOf, ReplyOf
    <3>4. ASSUME NEW d \in Calls \ {c} PROVE FuncOf(d)' = FuncOf(d) /\ ReplyOf(d)' = ReplyOf(d)
      <4>1. (\E v \in Workers : running'[v] = d) <=> (\E v \in Workers : running[v] = d)
        BY <3>1, <3>2
      <4> QED
        BY <3>1, <3>2, <4>1 DEF FuncOf, ReplyOf
    <3> QED
      BY <3>2, <3>3, <3>4 DEF Contract!Finish
  <2>6. ASSUME NEW w \in Workers, WorkerReturns(w) PROVE UNCHANGED <<func, reply>>
    BY <2>6 DEF WorkerReturns, StopWorker, FuncOf, ReplyOf
  <2>7. ASSUME NEW quantity \in 0 .. MaxQuantity, Resize(quantity)
        PROVE  UNCHANGED <<func, reply>>
    <3>1. running' = running
      BY <2>7, ResizingKeepsPool DEF Resize
    <3> QED
      BY <2>7, <3>1 DEF Resize, FuncOf, ReplyOf
  <2> QED
    BY <2>1, <2>2, <2>3, <2>4, <2>5, <2>6, <2>7 DEF Next, Contract!Next
<1> QED
  BY <1>1, <1>2, FifoInvHolds, PTL DEF Spec, KeepsContract, Contract!Spec
=============================================================================
