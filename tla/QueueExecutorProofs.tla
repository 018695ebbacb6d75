------------------------ MODULE QueueExecutorProofs ------------------------
(***************************************************************************)
(* Theorems about the job queue, for any jobs and any policies, and about  *)
(* the LIFO and CoDel executors on top of it, for any calls, any workers   *)
(* and any quantities the pool is resized to.                              *)
(***************************************************************************)
EXTENDS QueueExecutor, SequenceLemmas

LEMMA ShortSequence ==
  ASSUME NEW held \in AtMostOne
  PROVE  held \in Seq(Jobs) /\ Len(held) \in {0, 1}
<1>1. CASE held = <<>>
  BY <1>1, EmptySeq
<1>2. CASE \E j \in Jobs : held = <<j>>
  BY <1>2
<1> QED
  BY <1>1, <1>2 DEF AtMostOne

\* A policy takes one job out of a queue that is not empty, and leaves the rest.
LEMMA PolicyTakesOne ==
  ASSUME NEW p \in {"fifo", "lifo"}, NEW queue \in Seq(Jobs), queue # <<>>
  PROVE  /\ PolicyResult(p, queue).job \in AtMostOne \ {<<>>}
         /\ PolicyResult(p, queue).after \in Seq(Jobs)
         /\ Len(PolicyResult(p, queue).after) = Len(queue) - 1
<1>1. Len(queue) \in Nat \ {0}
  OBVIOUS
<1>2. Head(queue) \in Jobs /\ Tail(queue) \in Seq(Jobs) /\ Len(Tail(queue)) = Len(queue) - 1
  OBVIOUS
<1>3. queue[Len(queue)] \in Jobs
  BY <1>1
<1>4. /\ SubSeq(queue, 1, Len(queue) - 1) \in Seq(Jobs)
      /\ Len(SubSeq(queue, 1, Len(queue) - 1)) = Len(queue) - 1
  <2> DEFINE last == Len(queue) - 1
  <2>1. last \in Int /\ last >= 0 /\ \A i \in 1 .. last : queue[i] \in Jobs
    BY <1>1
  <2>2. 1 \in Int
    OBVIOUS
  <2> HIDE DEF last
  <2>3. /\ SubSeq(queue, 1, last) \in Seq(Jobs)
        /\ Len(SubSeq(queue, 1, last)) = IF 1 <= last THEN last - 1 + 1 ELSE 0
    BY <2>1, <2>2, SubSeqProperties
  <2>4. SubSeq(queue, 1, last) \in Seq(Jobs) /\ Len(SubSeq(queue, 1, last)) = last
    BY <2>1, <2>3
  <2> QED
    BY <2>4 DEF last
<1> QED
  BY <1>2, <1>3, <1>4 DEF PolicyResult, AtMostOne

\* Taking a job by a policy is removing it from the place the policy names.
LEMMA PolicyRemoves ==
  ASSUME NEW p \in {"fifo", "lifo"}, NEW queue \in Seq(Jobs), queue # <<>>
  PROVE  LET i == IF p = "fifo" THEN 1 ELSE Len(queue)
         IN  /\ i \in 1 .. Len(queue)
             /\ PolicyResult(p, queue).job = <<queue[i]>>
             /\ PolicyResult(p, queue).after = RemoveAt(queue, i)
<1> DEFINE i == IF p = "fifo" THEN 1 ELSE Len(queue)
           after == PolicyResult(p, queue).after
<1>1. Len(queue) \in Nat \ {0} /\ i \in 1 .. Len(queue)
  OBVIOUS
<1>2. PolicyResult(p, queue).job = <<queue[i]>>
  <2>1. Head(queue) = queue[1]
    OBVIOUS
  <2> QED
    BY <2>1 DEF PolicyResult
<1>3. /\ after \in Seq(Jobs)
      /\ Len(after) = Len(queue) - 1
      /\ \A k \in 1 .. Len(queue) - 1 : after[k] = IF k < i THEN queue[k] ELSE queue[k + 1]
  <2>1. after \in Seq(Jobs) /\ Len(after) = Len(queue) - 1
    BY PolicyTakesOne
  <2>2. CASE p = "fifo"
    <3>1. after = Tail(queue) /\ i = 1
      BY <2>2 DEF PolicyResult
    <3>2. \A k \in 1 .. Len(Tail(queue)) : Tail(queue)[k] = queue[k + 1]
      BY HeadTailProperties
    <3> HIDE DEF i, after
    <3> QED
      BY <2>1, <3>1, <3>2
  <2>3. CASE p = "lifo"
    <3> DEFINE m == Len(queue) - 1
    <3>1. after = SubSeq(queue, 1, m)
      BY <2>3 DEF PolicyResult
    <3>2. m \in Int /\ 1 \in Int /\ \A k \in 1 .. m : queue[k] \in Jobs
      BY <1>1
    <3>3. i = m + 1
      BY <1>1, <2>3
    <3>4. m = Len(queue) - 1
      OBVIOUS
    <3> HIDE DEF m
    <3>5. \A k \in 1 .. m - 1 + 1 : SubSeq(queue, 1, m)[k] = queue[1 + k - 1]
      BY <3>2, SubSeqProperties
    <3>6. \A k \in 1 .. m : after[k] = queue[k]
      BY <3>1, <3>2, <3>5
    <3>7. \A k \in 1 .. m : k < i
      BY <3>2, <3>3
    <3> HIDE DEF i, after
    <3> QED
      BY <2>1, <3>4, <3>6, <3>7
  <2> QED
    BY <2>2, <2>3
<1> HIDE DEF after, i
<1>4. /\ RemoveAt(queue, i) \in Seq(Jobs)
      /\ Len(RemoveAt(queue, i)) = Len(queue) - 1
      /\ \A k \in 1 .. Len(queue) - 1 :
           RemoveAt(queue, i)[k] = IF k < i THEN queue[k] ELSE queue[k + 1]
  BY <1>1, RemoveAtProperties
<1>5. after = RemoveAt(queue, i)
  BY <1>3, <1>4, SeqEqual
<1> QED
  BY <1>1, <1>2, <1>5 DEF after, i

-----------------------------------------------------------------------------
\* The inductive invariant.  The size statistic and the emptiness of the queue
\* at "take" support each other: only the dequeuer removes jobs, so what it saw
\* is still there; the enqueuer signals after every append, and only the
\* dequeuer takes the signal.
QueueInv ==
  /\ QueueTypeOK
  /\ enqPc = "append" <=> enqJob # <<>>
  /\ deqPc \in {"decr", "send"} <=> deqJob # <<>>
  /\ NoLostWakeUp
  /\ NeverTakesFromEmpty
  /\ SizeCounts

\* Whoever uses the queue, and whatever it sends: a step of the queue.
QueueMove == \/ Enqueuer \/ Dequeuer
             \/ \E j \in Jobs : Send(j) \/ Receive(j)
             \/ \E p \in Policies : SetDequeuePolicy(p)
             \/ SinceLastEmpty \/ IntervalPasses \/ Stop

LEMMA QueueMovesKeepInv == QueueInv /\ [QueueMove]_queueVars => QueueInv'
<1> SUFFICES ASSUME QueueInv, [QueueMove]_queueVars PROVE QueueInv'
  OBVIOUS
<1> USE PolicyAssumption DEF QueueInv, QueueTypeOK, NoLostWakeUp, NeverTakesFromEmpty,
        SizeCounts, enqVars, deqVars
<1>1. CASE EnqueuerReceive
  <2>1. Head(senders) \in Jobs /\ Tail(senders) \in Seq(Jobs)
    BY <1>1 DEF EnqueuerReceive
  <2>2. Len(<<Head(senders)>>) = 1 /\ Len(<<>>) = 0
    OBVIOUS
  <2> QED
    BY <1>1, <2>1, <2>2 DEF EnqueuerReceive, AtMostOne
<1>2. CASE EnqueuerReturn
  BY <1>2 DEF EnqueuerReturn
<1>3. CASE EnqueuerAppend
  <2>1. PICK j \in Jobs : enqJob = <<j>>
    BY <1>3 DEF EnqueuerAppend, AtMostOne
  <2>2. /\ jobs \o enqJob \in Seq(Jobs)
        /\ Len(jobs \o enqJob) = Len(jobs) + 1
        /\ jobs \o enqJob # <<>>
    BY <2>1
  <2> QED
    BY <1>3, <2>1, <2>2 DEF EnqueuerAppend, AtMostOne
<1>4. ASSUME NEW next \in {"top", "check", "sleep", "recheck", "take", "returned"},
             DequeuerGoesTo(next), deqPc \notin {"decr", "send"},
             next = "sleep" => jobs = <<>>, next = "take" => jobs # <<>>
      PROVE  QueueInv'
  BY <1>4 DEF DequeuerGoesTo
<1>5. CASE DequeuerTop \/ DequeuerCheck \/ DequeuerRecheck
  BY <1>4, <1>5 DEF DequeuerTop, DequeuerCheck, DequeuerRecheck
<1>6. CASE DequeuerWakes
  BY <1>6 DEF DequeuerWakes
<1>7. CASE DequeuerTake
  <2>1. policy \in {"fifo", "lifo"} /\ jobs \in Seq(Jobs) /\ jobs # <<>>
    BY <1>7 DEF DequeuerTake
  <2>2. /\ deqJob' \in AtMostOne \ {<<>>}
        /\ jobs' \in Seq(Jobs) /\ Len(jobs') = Len(jobs) - 1
    BY <1>7, <2>1, PolicyTakesOne DEF DequeuerTake
  <2> QED
    BY <1>7, <2>2 DEF DequeuerTake
<1>8. CASE DequeuerDecr
  BY <1>8 DEF DequeuerDecr
<1>9. ASSUME NEW j \in Jobs, Send(j) \/ Receive(j) PROVE QueueInv'
  <2>1. CASE Send(j)
    <3>1. senders' \in Seq(Jobs)
      BY <2>1 DEF Send
    <3> QED
      BY <2>1, <3>1 DEF Send
  <2>2. CASE Receive(j)
    BY <2>2 DEF Receive, AtMostOne
  <2> QED
    BY <1>9, <2>1, <2>2
<1>10. ASSUME NEW p \in Policies, SetDequeuePolicy(p) PROVE QueueInv'
  BY <1>10 DEF SetDequeuePolicy
<1>11. CASE SinceLastEmpty \/ IntervalPasses \/ Stop
  BY <1>11 DEF SinceLastEmpty, IntervalPasses, Stop
<1>12. CASE UNCHANGED queueVars
  BY <1>12 DEF queueVars
<1> QED
  BY <1>1, <1>2, <1>3, <1>5, <1>6, <1>7, <1>8, <1>9, <1>10, <1>11, <1>12
     DEF QueueMove, Enqueuer, Dequeuer

LEMMA QueueInitInv == QueueInit => QueueInv
<1> SUFFICES ASSUME QueueInit PROVE QueueInv
  OBVIOUS
<1>1. QueueTypeOK
  <2>1. <<>> \in Seq(Jobs) /\ <<>> \in AtMostOne /\ 0 \in Int
    BY DEF AtMostOne
  <2> QED
    BY <2>1, Zenon DEF QueueInit, QueueTypeOK
<1>2. SizeCounts
  <2>1. jobs = <<>> /\ enqJob = <<>> /\ size = 0 /\ deqPc # "decr"
    BY DEF QueueInit
  <2>2. Len(<<>>) = 0
    OBVIOUS
  <2>3. Len(jobs) = 0 /\ Len(enqJob) = 0
    BY <2>1, <2>2
  <2> QED
    BY <2>1, <2>3 DEF SizeCounts
<1> QED
  BY <1>1, <1>2 DEF QueueInit, QueueInv, NoLostWakeUp, NeverTakesFromEmpty

\* The queue loses no wake-up, never takes a nil job and keeps its statistics.
THEOREM QueueIsSafe == QueueSpec => []QueueInv
<1>1. QueueNext => QueueMove
  BY DEF QueueNext, QueueMove
<1> QED
  BY <1>1, QueueInitInv, QueueMovesKeepInv, PTL DEF QueueSpec

\* With jobs in the queue a sleeping dequeuer's wake-up call is in the channel.
THEOREM NoWakeUpIsLost == QueueSpec => []NoLostWakeUp
<1>1. QueueInv => NoLostWakeUp
  BY DEF QueueInv
<1> QED
  BY <1>1, QueueIsSafe, PTL

\* No nil job leaves the queue.
THEOREM NoNilJob == QueueSpec => []NeverTakesFromEmpty
<1>1. QueueInv => NeverTakesFromEmpty
  BY DEF QueueInv
<1> QED
  BY <1>1, QueueIsSafe, PTL

\* The statistics that congestion is decided on do not drift.
THEOREM SizeIsExact == QueueSpec => []SizeCounts
<1>1. QueueInv => SizeCounts
  BY DEF QueueInv
<1> QED
  BY <1>1, QueueIsSafe, PTL

-----------------------------------------------------------------------------
\* Every job is offered and delivered exactly once, from the place that the
\* policy in use names: the queue implements JobQueue.
THEOREM QueueDeliversOnce == QueueSpec => DeliversOnce
<1> DEFINE shown == <<enqJob, jobs, deqJob, policy>>
<1>1. QueueInit => Buffer!Init
  BY DEF QueueInit, Buffer!Init
<1>2. QueueInv /\ [QueueNext]_queueVars => [Buffer!Next]_shown
  <2> SUFFICES ASSUME QueueInv, [QueueNext]_queueVars
               PROVE  \/ Buffer!SetPolicy \/ Buffer!Put \/ Buffer!Settle
                      \/ Buffer!Offer \/ Buffer!Deliver \/ UNCHANGED shown
    BY DEF Buffer!Next
  <2> USE DEF QueueInv, QueueTypeOK, enqVars, deqVars
  <2>1. CASE EnqueuerReceive
    <3>1. Head(senders) \in Jobs /\ enqJob = <<>>
      BY <2>1 DEF EnqueuerReceive
    <3> QED
      BY <2>1, <3>1 DEF EnqueuerReceive, Buffer!Put
  <2>2. CASE EnqueuerAppend
    BY <2>2 DEF EnqueuerAppend, Buffer!Settle
  <2>3. CASE DequeuerTake
    <3> DEFINE i == IF policy = "fifo" THEN 1 ELSE Len(jobs)
    <3>1. jobs # <<>> /\ deqJob = <<>> /\ policy \in {"fifo", "lifo"}
      BY <2>3, PolicyAssumption DEF DequeuerTake, NeverTakesFromEmpty
    <3>2. /\ PolicyResult(policy, jobs).job = <<jobs[i]>>
          /\ PolicyResult(policy, jobs).after = RemoveAt(jobs, i)
      BY <3>1, PolicyRemoves
    <3>3. Buffer!RemoveAt(jobs, i) = RemoveAt(jobs, i) /\ Buffer!Position = i
      BY DEF Buffer!RemoveAt, RemoveAt, Buffer!Position
    <3>4. /\ deqJob' = <<jobs[i]>> /\ jobs' = Buffer!RemoveAt(jobs, i)
          /\ UNCHANGED <<enqJob, policy>>
      BY <2>3, <3>2, <3>3 DEF DequeuerTake
    <3> QED
      BY <3>1, <3>3, <3>4 DEF Buffer!Offer
  <2>4. ASSUME NEW j \in Jobs, Receive(j) PROVE Buffer!Deliver
    BY <2>4 DEF Receive, Buffer!Deliver
  <2>5. CASE \/ EnqueuerReturn \/ DequeuerTop \/ DequeuerCheck \/ DequeuerRecheck
             \/ DequeuerWakes \/ DequeuerDecr
             \/ \E j \in Jobs : Send(j)
             \/ SinceLastEmpty \/ IntervalPasses \/ Stop
             \/ UNCHANGED queueVars
    <3>1. jobs' = jobs /\ enqJob' = enqJob /\ deqJob' = deqJob /\ policy' = policy
      BY <2>5 DEF EnqueuerReturn, DequeuerTop, DequeuerCheck, DequeuerRecheck,
           DequeuerGoesTo, DequeuerWakes, DequeuerDecr, Send,
           SinceLastEmpty, IntervalPasses, Stop, queueVars
    <3> QED
      BY <3>1
  <2>6. ASSUME NEW p \in Policies, SetDequeuePolicy(p) PROVE Buffer!SetPolicy
    BY <2>6 DEF SetDequeuePolicy, Buffer!SetPolicy
  <2> QED
    BY <2>1, <2>2, <2>3, <2>4, <2>5, <2>6 DEF QueueNext, Enqueuer, Dequeuer
<1> QED
  BY <1>1, <1>2, QueueIsSafe, PTL DEF QueueSpec, DeliversOnce, Buffer!Spec, Buffer!vars
-----------------------------------------------------------------------------
\* The executors: where everything of theirs may be ...
PlaceInv ==
  /\ QueueInv
  /\ call \in [Calls -> {"idle", "fifo", "lifo", "queueing", "waiting", "rejected", "answered"}]
  /\ func \in [Calls -> {"notrun", "running", "finished"}]
  /\ running \in [Workers -> Calls \cup {NoJob}]
  /\ unsent \subseteq Calls /\ dequeued \subseteq Calls /\ canceled \subseteq Calls
  /\ carried \in AtMostOne

\* ... what a call, its function and the worker that runs its job have to do with
\* each other: only what was dequeued is executed; a call gives up on its job when
\* it is rejected; the result of a job that was dequeued, and that nobody gave up
\* on, is there or on its way ...
PromiseInv ==
  /\ \A c \in Calls : func[c] # "notrun" => c \in dequeued
  /\ \A c \in Calls : call[c] \in {"idle", "fifo", "lifo"} => c \notin dequeued
  /\ \A c \in canceled : call[c] = "rejected"
  /\ \A c \in Calls : call[c] = "waiting" => c \in dequeued
  /\ \A c \in dequeued \ canceled :
       func[c] = "finished" \/ \E w \in Workers : running[w] = c

\* ... and where the copies of a job are: none before there is a job, and once it
\* was dequeued at most the one that a worker runs.
Runners(c) == {w \in Workers : running[w] = c}
Underway(c) == Occurrences(Line, c) + IF c \in unsent THEN 1 ELSE 0
JobInv ==
  \A c \in Calls :
    /\ Underway(c) + Cardinality(Runners(c))
         <= IF call[c] \in {"idle", "fifo", "lifo"} THEN 0 ELSE 1
    /\ c \in dequeued => Underway(c) = 0
    /\ call[c] \notin {"idle", "fifo", "lifo"} /\ c \notin dequeued
         => Underway(c) + Cardinality(Runners(c)) = 1

ExecutorInv == PlaceInv /\ PromiseInv /\ JobInv

-----------------------------------------------------------------------------
\* How the places in a line add up, in the line as it is and as it is after a step.
LEMMA LineCounts ==
  ASSUME NEW S, NEW a \in Seq(S), NEW b \in Seq(S), NEW d \in Seq(S), NEW e \in Seq(S),
         NEW f \in Seq(S), NEW x
  PROVE  /\ Occurrences(a \o b \o d \o e, x)
              = Occurrences(a, x) + Occurrences(b, x) + Occurrences(d, x) + Occurrences(e, x)
         /\ Occurrences(a \o b \o d \o e \o f, x)
              = Occurrences(a \o b \o d \o e, x) + Occurrences(f, x)
         /\ a \o b \o d \o e \in Seq(S)
<1> DEFINE ab == a \o b
           abd == ab \o d
           abde == abd \o e
<1>1. ab \in Seq(S) /\ Occurrences(ab, x) = Occurrences(a, x) + Occurrences(b, x)
  BY ConcatProperties, OccurrencesInConcat
<1> HIDE DEF ab
<1>2. abd \in Seq(S) /\ Occurrences(abd, x) = Occurrences(ab, x) + Occurrences(d, x)
  BY <1>1, ConcatProperties, OccurrencesInConcat
<1> HIDE DEF abd
<1>3. abde \in Seq(S) /\ Occurrences(abde, x) = Occurrences(abd, x) + Occurrences(e, x)
  BY <1>2, ConcatProperties, OccurrencesInConcat
<1> HIDE DEF abde
<1>4. Occurrences(abde \o f, x) = Occurrences(abde, x) + Occurrences(f, x)
  BY <1>3, OccurrencesInConcat
<1>5. Occurrences(abde, x)
        = Occurrences(a, x) + Occurrences(b, x) + Occurrences(d, x) + Occurrences(e, x)
  BY <1>1, <1>2, <1>3
<1> QED
  BY <1>3, <1>4, <1>5 DEF abde, abd, ab

InQueue(c) == Occurrences(deqJob, c) + Occurrences(jobs, c)
              + Occurrences(enqJob, c) + Occurrences(senders, c)

LEMMA QueueCounts ==
  ASSUME QueueTypeOK, NEW c
  PROVE  /\ Occurrences(deqJob, c) \in Nat /\ Occurrences(jobs, c) \in Nat
         /\ Occurrences(enqJob, c) \in Nat /\ Occurrences(senders, c) \in Nat
         /\ InQueue(c) \in Nat
         /\ InQueue(c) > 0 <=> Inside(c)
<1>1. /\ deqJob \in Seq(Jobs) /\ jobs \in Seq(Jobs)
      /\ enqJob \in Seq(Jobs) /\ senders \in Seq(Jobs)
  BY ShortSequence DEF QueueTypeOK
<1>2. /\ Occurrences(deqJob, c) \in Nat /\ Occurrences(jobs, c) \in Nat
      /\ Occurrences(enqJob, c) \in Nat /\ Occurrences(senders, c) \in Nat
  BY <1>1, PlacesFinite
<1> DEFINE all == deqJob \o jobs \o enqJob \o senders
<1>3. Occurrences(all, c) = InQueue(c) /\ all \in Seq(Jobs)
  BY <1>1, LineCounts DEF InQueue
<1>4. Inside(c) <=> \E i \in DOMAIN all : all[i] = c
  BY DEF Inside
<1> HIDE DEF all
<1>5. Occurrences(all, c) > 0 <=> Inside(c)
  BY <1>3, <1>4, OccursSomewhere
<1>6. InQueue(c) \in Nat
  BY <1>2 DEF InQueue
<1> QED
  BY <1>2, <1>3, <1>5, <1>6

\* The job that a policy takes is the one that the queue is short of.
LEMMA PolicyKeepsCounts ==
  ASSUME NEW p \in {"fifo", "lifo"}, NEW queue \in Seq(Jobs), queue # <<>>, NEW c
  PROVE  Occurrences(PolicyResult(p, queue).job, c) + Occurrences(PolicyResult(p, queue).after, c)
           = Occurrences(queue, c)
<1> DEFINE i == IF p = "fifo" THEN 1 ELSE Len(queue)
           after == PolicyResult(p, queue).after
<1>1. after \in Seq(Jobs)
  BY PolicyTakesOne
<1>2. /\ i \in 1 .. Len(queue)
      /\ PolicyResult(p, queue).job = <<queue[i]>>
      /\ after = RemoveAt(queue, i)
  BY PolicyRemoves
<1> HIDE DEF i, after
<1>3. Occurrences(queue, c) = Occurrences(after, c) + IF queue[i] = c THEN 1 ELSE 0
  BY <1>2, OccurrencesInRemoveAt
<1>4. Occurrences(<<queue[i]>>, c) = IF queue[i] = c THEN 1 ELSE 0
  BY OccurrencesInShort
<1>5. Occurrences(after, c) \in Nat
  BY <1>1, PlacesFinite
<1>6. Occurrences(<<queue[i]>>, c) + Occurrences(after, c) = Occurrences(queue, c)
  BY <1>3, <1>4, <1>5
<1> QED
  BY <1>2, <1>6 DEF after

\* The goroutines of the queue neither lose nor double what is in it.
LEMMA GoroutinesKeepCounts ==
  ASSUME QueueInv, Enqueuer \/ Dequeuer, NEW c
  PROVE  InQueue(c)' = InQueue(c)
<1> USE DEF enqVars, deqVars
<1>1. Occurrences(<<>>, c) = 0
  BY OccurrencesInShort
<1>2. /\ Occurrences(deqJob, c) \in Nat /\ Occurrences(jobs, c) \in Nat
      /\ Occurrences(enqJob, c) \in Nat /\ Occurrences(senders, c) \in Nat
  BY QueueCounts DEF QueueInv
<1>3. CASE EnqueuerReceive
  <2>1. /\ senders \in Seq(Jobs) /\ senders # <<>> /\ enqJob = <<>>
        /\ enqJob' = <<Head(senders)>> /\ senders' = Tail(senders)
        /\ UNCHANGED <<deqJob, jobs>>
    BY <1>3 DEF EnqueuerReceive, QueueInv, QueueTypeOK
  <2>2. Occurrences(senders, c) = Occurrences(senders', c) + IF Head(senders) = c THEN 1 ELSE 0
    BY <2>1, OccurrencesInTail
  <2>3. Occurrences(enqJob', c) = IF Head(senders) = c THEN 1 ELSE 0
    BY <2>1, OccurrencesInShort
  <2>4. Occurrences(senders', c) \in Nat
    BY <2>1, OccurrencesInTail, PlacesFinite
  <2> QED
    BY <1>1, <1>2, <2>1, <2>2, <2>3, <2>4 DEF InQueue
<1>4. CASE EnqueuerAppend
  <2>1. /\ enqJob \in Seq(Jobs) /\ jobs \in Seq(Jobs) /\ jobs' = jobs \o enqJob
        /\ enqJob' = <<>> /\ UNCHANGED <<deqJob, senders>>
    BY <1>4, ShortSequence DEF EnqueuerAppend, QueueInv, QueueTypeOK
  <2>2. Occurrences(jobs', c) = Occurrences(jobs, c) + Occurrences(enqJob, c)
    BY <2>1, OccurrencesInConcat
  <2> QED
    BY <1>1, <1>2, <2>1, <2>2 DEF InQueue
<1>5. CASE DequeuerTake
  <2>1. /\ jobs \in Seq(Jobs) /\ jobs # <<>> /\ deqJob = <<>> /\ policy \in {"fifo", "lifo"}
        /\ deqJob' = PolicyResult(policy, jobs).job /\ jobs' = PolicyResult(policy, jobs).after
        /\ UNCHANGED <<enqJob, senders>>
    BY <1>5, PolicyAssumption DEF DequeuerTake, QueueInv, QueueTypeOK, NeverTakesFromEmpty
  <2>2. Occurrences(deqJob', c) + Occurrences(jobs', c) = Occurrences(jobs, c)
    BY <2>1, PolicyKeepsCounts
  <2>3. InQueue(c)' = (Occurrences(deqJob', c) + Occurrences(jobs', c))
                        + Occurrences(enqJob, c) + Occurrences(senders, c)
    BY <2>1 DEF InQueue
  <2> QED
    BY <1>1, <1>2, <2>1, <2>2, <2>3 DEF InQueue
<1>6. CASE \/ EnqueuerReturn \/ DequeuerTop \/ DequeuerCheck \/ DequeuerRecheck
           \/ DequeuerWakes \/ DequeuerDecr
  <2>1. UNCHANGED <<deqJob, jobs, enqJob, senders>>
    BY <1>6 DEF EnqueuerReturn, DequeuerTop, DequeuerCheck, DequeuerRecheck, DequeuerGoesTo,
                DequeuerWakes, DequeuerDecr
  <2> QED
    BY <2>1 DEF InQueue
<1> QED
  BY <1>3, <1>4, <1>5, <1>6 DEF Enqueuer, Dequeuer

LEMMA UsersCount ==
  ASSUME QueueInv, NEW j \in Jobs, NEW c
  PROVE  /\ Send(j) => InQueue(c)' = InQueue(c) + IF j = c THEN 1 ELSE 0
         /\ Receive(j) => /\ InQueue(c) = InQueue(c)' + IF j = c THEN 1 ELSE 0
                          /\ InQueue(c)' \in Nat
<1> USE DEF enqVars, deqVars
<1>1. /\ Occurrences(deqJob, c) \in Nat /\ Occurrences(jobs, c) \in Nat
      /\ Occurrences(enqJob, c) \in Nat /\ Occurrences(senders, c) \in Nat
  BY QueueCounts DEF QueueInv
<1>2. ASSUME Send(j) PROVE InQueue(c)' = InQueue(c) + IF j = c THEN 1 ELSE 0
  <2>1. senders \in Seq(Jobs) /\ senders' = Append(senders, j) /\ UNCHANGED <<deqJob, jobs, enqJob>>
    BY <1>2 DEF Send, QueueInv, QueueTypeOK
  <2>2. Occurrences(senders', c) = Occurrences(senders, c) + IF j = c THEN 1 ELSE 0
    BY <2>1, OccurrencesInAppend
  <2> QED
    BY <1>1, <2>1, <2>2 DEF InQueue
<1>3. ASSUME Receive(j)
      PROVE  /\ InQueue(c) = InQueue(c)' + IF j = c THEN 1 ELSE 0
             /\ InQueue(c)' \in Nat
  <2>1. deqJob = <<j>> /\ deqJob' = <<>> /\ UNCHANGED <<jobs, enqJob, senders>>
    BY <1>3 DEF Receive
  <2>2. Occurrences(deqJob', c) = 0
    BY <2>1, OccurrencesInShort
  <2>3. Occurrences(deqJob, c) = IF j = c THEN 1 ELSE 0
    BY <2>1, OccurrencesInShort
  <2> QED
    BY <1>1, <2>1, <2>2, <2>3 DEF InQueue
<1> QED
  BY <1>2, <1>3

\* The workers that run a job are finitely many.
LEMMA RunnersCount ==
  ASSUME NEW c
  PROVE  IsFiniteSet(Runners(c)) /\ Cardinality(Runners(c)) \in Nat
BY PoolAssumption, FS_Subset, FS_CardinalityType DEF Runners

LEMMA UnderwayCounts ==
  ASSUME PlaceInv, NEW c
  PROVE  /\ Underway(c) = InQueue(c) + Occurrences(carried, c) + IF c \in unsent THEN 1 ELSE 0
         /\ InQueue(c) \in Nat /\ Occurrences(carried, c) \in Nat
<1>1. /\ deqJob \in Seq(Jobs) /\ jobs \in Seq(Jobs) /\ enqJob \in Seq(Jobs)
      /\ senders \in Seq(Jobs) /\ carried \in Seq(Jobs)
  BY ShortSequence DEF PlaceInv, QueueInv, QueueTypeOK
<1>2. Occurrences(Line, c) = InQueue(c) + Occurrences(carried, c)
  BY <1>1, LineCounts DEF Line, InQueue
<1>3. InQueue(c) \in Nat /\ Occurrences(carried, c) \in Nat
  BY <1>1, QueueCounts, PlacesFinite DEF PlaceInv, QueueInv
<1> QED
  BY <1>2, <1>3 DEF Underway

\* The same before and after a step.
LineAddsUp ==
  \A c \in Calls :
    /\ Underway(c) = InQueue(c) + Occurrences(carried, c) + IF c \in unsent THEN 1 ELSE 0
    /\ InQueue(c) \in Nat /\ Occurrences(carried, c) \in Nat
    /\ Cardinality(Runners(c)) \in Nat

LEMMA PlacesAddUp == PlaceInv => LineAddsUp
BY UnderwayCounts, RunnersCount DEF LineAddsUp

LEMMA PlacesAddUpAfter == PlaceInv' => LineAddsUp'
BY PlacesAddUp, PTL

-----------------------------------------------------------------------------
\* What the executors do to their queue is what its users may do.
LEMMA StepsUseQueue == PlaceInv /\ [Next]_vars => [QueueMove]_queueVars
<1> SUFFICES ASSUME PlaceInv, [Next]_vars PROVE [QueueMove]_queueVars
  OBVIOUS
<1> USE ExecutorAssumption
<1>1. ASSUME NEW c \in Calls, Caller(c) PROVE [QueueMove]_queueVars
  <2>1. CASE ReadCongestion(c)
    BY <2>1 DEF ReadCongestion, QueueMove
  <2>2. CASE AdaptPolicy(c)
    BY <2>2 DEF AdaptPolicy, QueueMove
  <2>3. CASE SendJob(c)
    BY <2>3 DEF SendJob, QueueMove
  <2>4. CASE Execute(c) \/ GiveUp(c) \/ SeeDequeued(c) \/ GetResult(c)
    BY <2>4 DEF Execute, GiveUp, SeeDequeued, GetResult
  <2> QED
    BY <1>1, <2>1, <2>2, <2>3, <2>4 DEF Caller
<1>2. ASSUME NEW w \in Workers, Job(w) PROVE UNCHANGED queueVars
  BY <1>2 DEF Job, JobDequeued, JobCancelled, JobStarts, JobFinishes
<1>3. CASE QueueGoroutines
  BY <1>3 DEF QueueGoroutines, QueueMove
<1>4. CASE Carrier
  <2>1. ASSUME NEW c \in Calls, CarryFromQueue(c) PROVE QueueMove
    BY <2>1 DEF CarryFromQueue, QueueMove
  <2>2. ASSUME NEW w \in Workers, NEW c \in Calls, CarryToPool(w, c) PROVE UNCHANGED queueVars
    BY <2>2 DEF CarryToPool
  <2>3. CASE CarrierReturns
    BY <2>3 DEF CarrierReturns
  <2> QED
    BY <1>4, <2>1, <2>2, <2>3 DEF Carrier
<1>5. CASE Resize
  BY <1>5 DEF Resize
<1>6. CASE StopOrWait
  BY <1>6 DEF StopOrWait, QueueMove
<1>7. CASE UNCHANGED vars
  BY <1>7 DEF vars
<1> QED
  BY <1>1, <1>2, <1>3, <1>4, <1>5, <1>6, <1>7 DEF Next

LEMMA StepsKeepPlaces == PlaceInv /\ [Next]_vars => PlaceInv'
<1> SUFFICES ASSUME PlaceInv, [Next]_vars PROVE PlaceInv'
  OBVIOUS
<1>1. QueueInv'
  BY StepsUseQueue, QueueMovesKeepInv DEF PlaceInv
<1> DEFINE OwnInv ==
  /\ call \in [Calls -> {"idle", "fifo", "lifo", "queueing", "waiting", "rejected", "answered"}]
  /\ func \in [Calls -> {"notrun", "running", "finished"}]
  /\ running \in [Workers -> Calls \cup {NoJob}]
  /\ unsent \subseteq Calls /\ dequeued \subseteq Calls /\ canceled \subseteq Calls
  /\ carried \in AtMostOne
<1> USE DEF PlaceInv, poolVars, callVars, ownVars
<1>2. ASSUME NEW c \in Calls, Caller(c) PROVE OwnInv'
  <2>1. CASE ReadCongestion(c) \/ AdaptPolicy(c) \/ Execute(c)
    BY <2>1 DEF ReadCongestion, AdaptPolicy, Execute
  <2>2. CASE SendJob(c)
    BY <2>2 DEF SendJob
  <2>3. CASE GiveUp(c) \/ SeeDequeued(c) \/ GetResult(c)
    BY <2>3 DEF GiveUp, SeeDequeued, GetResult
  <2> QED
    BY <1>2, <2>1, <2>2, <2>3 DEF Caller
<1>3. ASSUME NEW w \in Workers, Job(w) PROVE OwnInv'
  <2>1. CASE JobDequeued(w) \/ JobStarts(w)
    BY <2>1 DEF JobDequeued, JobStarts
  <2>2. CASE JobCancelled(w) \/ JobFinishes(w)
    BY <2>2 DEF JobCancelled, JobFinishes, FinishJob
  <2> QED
    BY <1>3, <2>1, <2>2 DEF Job
<1>4. ASSUME Carrier PROVE OwnInv'
  <2>1. ASSUME NEW c \in Calls, CarryFromQueue(c) PROVE OwnInv'
    BY <2>1, ExecutorAssumption DEF CarryFromQueue, AtMostOne
  <2>2. ASSUME NEW w \in Workers, NEW c \in Calls, CarryToPool(w, c) PROVE OwnInv'
    BY <2>2 DEF CarryToPool, ReceiveJob, AtMostOne
  <2>3. ASSUME CarrierReturns PROVE OwnInv'
    BY <2>3 DEF CarrierReturns, AtMostOne
  <2> QED
    BY <1>4, <2>1, <2>2, <2>3 DEF Carrier
<1>5. ASSUME QueueGoroutines \/ StopOrWait \/ UNCHANGED vars PROVE OwnInv'
  BY <1>5 DEF QueueGoroutines, StopOrWait, vars, AtMostOne
<1>6. ASSUME Resize PROVE OwnInv'
  <2>1. UNCHANGED <<running, callVars, ownVars>>
    BY <1>6 DEF Resize, SetWorkerQuantity, IncreaseWorkers, DecreaseWorkers, StopWorker
  <2> QED
    BY <2>1 DEF AtMostOne
<1>7. OwnInv'
  BY <1>2, <1>3, <1>4, <1>5, <1>6 DEF Next
<1> QED
  BY <1>1, <1>7

-----------------------------------------------------------------------------
\* A step keeps what is promised to the calls.
LEMMA StepsKeepPromise == ExecutorInv /\ [Next]_vars => PromiseInv'
<1> SUFFICES ASSUME ExecutorInv, [Next]_vars PROVE PromiseInv'
  OBVIOUS
<1> USE DEF ExecutorInv, PlaceInv, PromiseInv, poolVars, callVars, ownVars
<1>1. ASSUME NEW c \in Calls, ReadCongestion(c) \/ AdaptPolicy(c) \/ Execute(c) PROVE PromiseInv'
  BY <1>1 DEF ReadCongestion, AdaptPolicy, Execute
<1>2. ASSUME NEW c \in Calls, SendJob(c) PROVE PromiseInv'
  BY <1>2 DEF SendJob
<1>3. ASSUME NEW c \in Calls, GiveUp(c) PROVE PromiseInv'
  BY <1>3 DEF GiveUp
<1>4. ASSUME NEW c \in Calls, SeeDequeued(c) PROVE PromiseInv'
  BY <1>4 DEF SeeDequeued
<1>5. ASSUME NEW c \in Calls, GetResult(c) PROVE PromiseInv'
  BY <1>5 DEF GetResult
<1>6. ASSUME NEW w \in Workers, JobDequeued(w) PROVE PromiseInv'
  <2>1. PICK c \in Calls : c = running[w]
    BY <1>6 DEF JobDequeued
  <2>2. dequeued' = dequeued \cup {c} /\ UNCHANGED <<running, call, func, canceled>>
    BY <1>6, <2>1 DEF JobDequeued
  <2>3. call[c] \notin {"idle", "fifo", "lifo"}
    <3>1. Runners(c) # {}
      BY <2>1 DEF Runners
    <3>2. Cardinality(Runners(c)) > 0
      BY <3>1, RunnersCount, FS_EmptySet
    <3>3. Underway(c) >= 0
      BY PlacesAddUp DEF LineAddsUp
    <3> QED
      BY <3>2, <3>3, RunnersCount, PlacesAddUp DEF JobInv, LineAddsUp
  <2> QED
    BY <2>1, <2>2, <2>3
<1>7. ASSUME NEW w \in Workers, JobCancelled(w) PROVE PromiseInv'
  BY <1>7 DEF JobCancelled, FinishJob
<1>8. ASSUME NEW w \in Workers, JobStarts(w) PROVE PromiseInv'
  BY <1>8 DEF JobStarts
<1>9. ASSUME NEW w \in Workers, JobFinishes(w) PROVE PromiseInv'
  BY <1>9 DEF JobFinishes, FinishJob
<1>10. ASSUME NEW w \in Workers, NEW c \in Calls, CarryToPool(w, c) PROVE PromiseInv'
  BY <1>10, PoolAssumption DEF CarryToPool, ReceiveJob, Waiting
<1>11. ASSUME UNCHANGED <<running, callVars>> PROVE PromiseInv'
  BY <1>11
<1>12. CASE (\E c \in Calls : CarryFromQueue(c)) \/ CarrierReturns \/ QueueGoroutines
            \/ StopOrWait \/ UNCHANGED vars
  BY <1>11, <1>12 DEF CarryFromQueue, CarrierReturns, QueueGoroutines, StopOrWait, vars
<1>13. CASE Resize
  BY <1>11, <1>13 DEF Resize, SetWorkerQuantity, IncreaseWorkers, DecreaseWorkers, StopWorker
<1> QED
  BY <1>1, <1>2, <1>3, <1>4, <1>5, <1>6, <1>7, <1>8, <1>9, <1>10, <1>12, <1>13
     DEF Next, Caller, Job, Carrier

-----------------------------------------------------------------------------
\* What a step may do to the job of a call: nothing, ...
Early(c) == call[c] \in {"idle", "fifo", "lifo"}
Stays(c) ==
  /\ Underway(c)' = Underway(c) /\ Runners(c)' = Runners(c)
  /\ (Early(c)' <=> Early(c)) /\ (c \in dequeued' <=> c \in dequeued)

\* ... make it, ...
Made(c) ==
  /\ Early(c) /\ ~ Early(c)'
  /\ Underway(c)' = Underway(c) + 1 /\ Runners(c)' = Runners(c)
  /\ (c \in dequeued' <=> c \in dequeued)

\* ... hand it over to a worker, ...
HandedOver(c) ==
  /\ Underway(c) = Underway(c)' + 1
  /\ Cardinality(Runners(c)') = Cardinality(Runners(c)) + 1
  /\ (Early(c)' <=> Early(c)) /\ (c \in dequeued' <=> c \in dequeued)

\* ... let that worker close dequeuedJob, ...
Opened(c) ==
  /\ Underway(c)' = Underway(c) /\ Runners(c)' = Runners(c) /\ Runners(c) # {}
  /\ (Early(c)' <=> Early(c))

\* ... or be over with it.
Over(c) ==
  /\ Underway(c)' = Underway(c)
  /\ Cardinality(Runners(c)) = Cardinality(Runners(c)') + 1
  /\ c \in dequeued
  /\ (Early(c)' <=> Early(c)) /\ (c \in dequeued' <=> c \in dequeued)

LEMMA StepsMoveJobs ==
  ASSUME ExecutorInv, [Next]_vars, NEW c \in Calls
  PROVE  Stays(c) \/ Made(c) \/ HandedOver(c) \/ Opened(c) \/ Over(c)
<1> USE DEF poolVars, callVars, ownVars
<1>1. PlaceInv /\ PlaceInv' /\ LineAddsUp /\ LineAddsUp'
  BY StepsKeepPlaces, PlacesAddUp, PlacesAddUpAfter DEF ExecutorInv
<1>2. /\ Underway(c) = InQueue(c) + Occurrences(carried, c) + IF c \in unsent THEN 1 ELSE 0
      /\ Underway(c)' = InQueue(c)' + Occurrences(carried', c) + IF c \in unsent' THEN 1 ELSE 0
      /\ InQueue(c) \in Nat /\ InQueue(c)' \in Nat
      /\ Occurrences(carried, c) \in Nat /\ Occurrences(carried', c) \in Nat
  BY <1>1 DEF LineAddsUp
<1>3. ASSUME InQueue(c)' = InQueue(c), UNCHANGED <<carried, unsent>> PROVE Underway(c)' = Underway(c)
  BY <1>2, <1>3
<1>4. ASSUME UNCHANGED queueVars PROVE InQueue(c)' = InQueue(c)
  BY <1>4 DEF queueVars, InQueue
<1>5. ASSUME UNCHANGED running PROVE Runners(c)' = Runners(c)
  BY <1>5 DEF Runners
<1>6. ASSUME NEW d \in Calls, ReadCongestion(d) PROVE Stays(c)
  <2>1. InQueue(c)' = InQueue(c)
    BY <1>6 DEF ReadCongestion, SinceLastEmpty, enqVars, deqVars, InQueue
  <2> QED
    BY <1>1, <1>3, <1>5, <1>6, <2>1 DEF ReadCongestion, Stays, Early, PlaceInv
<1>7. ASSUME NEW d \in Calls, AdaptPolicy(d) \/ Execute(d) PROVE Stays(c) \/ Made(c)
  <2>1. InQueue(c)' = InQueue(c)
    BY <1>4, <1>7 DEF AdaptPolicy, Execute, SetDequeuePolicy, enqVars, deqVars, InQueue
  <2>2. /\ UNCHANGED <<running, carried, dequeued>> /\ unsent' = unsent \cup {d}
        /\ Early(d) /\ call' = [call EXCEPT ![d] = "queueing"]
    BY <1>7 DEF AdaptPolicy, Execute, Early
  <2>3. CASE d = c
    <3>1. Underway(c) = 0 /\ c \notin unsent
      <4>1. Underway(c) + Cardinality(Runners(c)) <= 0 /\ Cardinality(Runners(c)) \in Nat
        BY <2>2, <2>3, RunnersCount DEF ExecutorInv, JobInv, Early
      <4>2. Underway(c) >= IF c \in unsent THEN 1 ELSE 0
        BY <1>2
      <4> QED
        BY <1>2, <4>1, <4>2
    <3>2. Underway(c)' = Underway(c) + 1
      BY <1>2, <2>1, <2>2, <2>3, <3>1
    <3> QED
      BY <1>1, <1>5, <2>2, <2>3, <3>2 DEF Made, Early, PlaceInv
  <2>4. CASE d # c
    <3>1. Underway(c)' = Underway(c)
      BY <1>2, <2>1, <2>2, <2>4
    <3> QED
      BY <1>1, <1>5, <2>2, <2>4, <3>1 DEF Stays, Early, PlaceInv
  <2> QED
    BY <2>3, <2>4
<1>8. ASSUME NEW d \in Calls, SendJob(d) PROVE Stays(c)
  <2>1. InQueue(c)' = InQueue(c) + IF d = c THEN 1 ELSE 0
    BY <1>1, <1>8, ExecutorAssumption, UsersCount DEF SendJob, PlaceInv
  <2>2. /\ UNCHANGED <<running, carried, dequeued, call>>
        /\ d \in unsent /\ unsent' = unsent \ {d}
    BY <1>8 DEF SendJob
  <2>3. Underway(c)' = Underway(c)
    BY <1>2, <2>1, <2>2
  <2> QED
    BY <1>5, <2>2, <2>3 DEF Stays, Early
<1>9. ASSUME NEW d \in Calls, GiveUp(d) \/ SeeDequeued(d) \/ GetResult(d) PROVE Stays(c)
  <2>1. /\ UNCHANGED <<queueVars, running, carried, dequeued, unsent>>
        /\ ~ Early(d)
        /\ \E there \in {"rejected", "waiting", "answered"} : call' = [call EXCEPT ![d] = there]
    BY <1>9 DEF GiveUp, SeeDequeued, GetResult, Early
  <2> QED
    BY <1>1, <1>3, <1>4, <1>5, <2>1 DEF Stays, Early, PlaceInv
<1>10. ASSUME NEW w \in Workers, JobDequeued(w) PROVE Stays(c) \/ Opened(c)
  <2>1. /\ UNCHANGED <<queueVars, running, carried, call, unsent>>
        /\ dequeued' = dequeued \cup {running[w]}
    BY <1>10 DEF JobDequeued
  <2>2. CASE running[w] = c
    <3>1. w \in Runners(c)
      BY <2>2 DEF Runners
    <3> QED
      BY <1>3, <1>4, <1>5, <2>1, <3>1 DEF Opened, Early
  <2>3. CASE running[w] # c
    BY <1>3, <1>4, <1>5, <2>1, <2>3 DEF Stays, Early
  <2> QED
    BY <2>2, <2>3
<1>11. ASSUME NEW w \in Workers, JobCancelled(w) \/ JobFinishes(w) PROVE Stays(c) \/ Over(c)
  <2>1. /\ UNCHANGED <<queueVars, carried, call, unsent, dequeued>>
        /\ running' = [running EXCEPT ![w] = NoJob]
        /\ running[w] \in dequeued
    BY <1>11 DEF JobCancelled, JobFinishes, FinishJob, ExecutorInv, PromiseInv
  <2>2. Underway(c)' = Underway(c)
    BY <1>3, <1>4, <2>1
  <2>3. CASE running[w] = c
    <3>1. Runners(c)' = Runners(c) \ {w} /\ w \in Runners(c)
      BY <1>1, <2>1, <2>3, PoolAssumption DEF Runners, PlaceInv
    <3>2. Cardinality(Runners(c)') = Cardinality(Runners(c)) - 1
      BY <3>1, RunnersCount, FS_RemoveElement
    <3>3. Cardinality(Runners(c)) \in Nat
      BY RunnersCount
    <3>4. Cardinality(Runners(c)) = Cardinality(Runners(c)') + 1
      BY <3>2, <3>3
    <3> QED
      BY <2>1, <2>2, <2>3, <3>4 DEF Over, Early
  <2>4. CASE running[w] # c
    <3>1. Runners(c)' = Runners(c)
      BY <1>1, <2>1, <2>4, PoolAssumption DEF Runners, PlaceInv
    <3> QED
      BY <2>1, <2>2, <3>1 DEF Stays, Early
  <2> QED
    BY <2>3, <2>4
<1>12. ASSUME NEW w \in Workers, JobStarts(w) PROVE Stays(c)
  BY <1>3, <1>4, <1>5, <1>12 DEF JobStarts, Stays, Early
<1>13. CASE QueueGoroutines
  <2>1. InQueue(c)' = InQueue(c)
    BY <1>1, <1>13, GoroutinesKeepCounts DEF QueueGoroutines, PlaceInv
  <2> QED
    BY <1>3, <1>5, <1>13, <2>1 DEF QueueGoroutines, Stays, Early
<1>14. ASSUME NEW d \in Calls, CarryFromQueue(d) PROVE Stays(c)
  <2>1. InQueue(c) = InQueue(c)' + IF d = c THEN 1 ELSE 0
    BY <1>1, <1>14, ExecutorAssumption, UsersCount DEF CarryFromQueue, PlaceInv
  <2>2. /\ UNCHANGED <<running, unsent, dequeued, call>>
        /\ carried = <<>> /\ carried' = <<d>>
    BY <1>14 DEF CarryFromQueue
  <2>3. Occurrences(<<>>, c) = 0
    BY OccurrencesInShort
  <2>4. Occurrences(<<d>>, c) = IF d = c THEN 1 ELSE 0
    BY OccurrencesInShort
  <2>5. Underway(c)' = Underway(c)
    BY <1>2, <2>1, <2>2, <2>3, <2>4
  <2> QED
    BY <1>5, <2>2, <2>5 DEF Stays, Early
<1>15. ASSUME NEW w \in Workers, NEW d \in Calls, CarryToPool(w, d) PROVE Stays(c) \/ HandedOver(c)
  <2>1. /\ UNCHANGED <<queueVars, unsent, dequeued, call>>
        /\ carried = <<d>> /\ carried' = <<>>
        /\ running[w] = NoJob /\ running' = [running EXCEPT ![w] = d]
    BY <1>15 DEF CarryToPool, ReceiveJob, Waiting
  <2>2. Occurrences(<<>>, c) = 0
    BY OccurrencesInShort
  <2>3. Occurrences(<<d>>, c) = IF d = c THEN 1 ELSE 0
    BY OccurrencesInShort
  <2>4. Underway(c) = Underway(c)' + IF d = c THEN 1 ELSE 0
    BY <1>2, <1>4, <2>1, <2>2, <2>3
  <2>5. CASE d = c
    <3>1. Runners(c)' = Runners(c) \cup {w} /\ w \notin Runners(c)
      BY <1>1, <2>1, <2>5, PoolAssumption DEF Runners, PlaceInv
    <3>2. Cardinality(Runners(c)') = Cardinality(Runners(c)) + 1
      BY <3>1, RunnersCount, FS_AddElement
    <3> QED
      BY <2>1, <2>4, <2>5, <3>2 DEF HandedOver, Early
  <2>6. CASE d # c
    <3>1. Runners(c)' = Runners(c)
      BY <1>1, <2>1, <2>6, PoolAssumption DEF Runners, PlaceInv
    <3>2. Underway(c)' = Underway(c)
      BY <1>2, <2>4, <2>6
    <3> QED
      BY <2>1, <3>1, <3>2 DEF Stays, Early
  <2> QED
    BY <2>5, <2>6
<1>16. CASE Resize
  <2>1. UNCHANGED <<running, queueVars, callVars, ownVars>>
    BY <1>16 DEF Resize, SetWorkerQuantity, IncreaseWorkers, DecreaseWorkers, StopWorker
  <2> QED
    BY <1>3, <1>4, <1>5, <2>1 DEF Stays, Early
<1>17. CASE CarrierReturns \/ StopOrWait \/ UNCHANGED vars
  <2>1. InQueue(c)' = InQueue(c) /\ UNCHANGED <<running, call, unsent, dequeued, carried>>
    BY <1>17 DEF CarrierReturns, StopOrWait, Stop, IntervalPasses, vars, queueVars, enqVars,
                 deqVars, InQueue
  <2> QED
    BY <1>3, <1>5, <2>1 DEF Stays, Early
<1> QED
  BY <1>6, <1>7, <1>8, <1>9, <1>10, <1>11, <1>12, <1>13, <1>14, <1>15, <1>16, <1>17
     DEF Next, Caller, Job, Carrier

LEMMA StepsKeepJobs == ExecutorInv /\ [Next]_vars => JobInv'
<1> SUFFICES ASSUME ExecutorInv, [Next]_vars, NEW c \in Calls
             PROVE  /\ Underway(c)' + Cardinality(Runners(c)')
                         <= IF Early(c)' THEN 0 ELSE 1
                    /\ c \in dequeued' => Underway(c)' = 0
                    /\ ~ Early(c)' /\ c \notin dequeued'
                         => Underway(c)' + Cardinality(Runners(c)') = 1
  BY DEF JobInv, Early
<1>1. /\ Underway(c) + Cardinality(Runners(c)) <= IF Early(c) THEN 0 ELSE 1
      /\ c \in dequeued => Underway(c) = 0
      /\ ~ Early(c) /\ c \notin dequeued => Underway(c) + Cardinality(Runners(c)) = 1
      /\ Early(c) => c \notin dequeued
  BY DEF ExecutorInv, JobInv, PromiseInv, Early
<1>2. LineAddsUp /\ LineAddsUp'
  BY StepsKeepPlaces, PlacesAddUp, PlacesAddUpAfter DEF ExecutorInv
<1>3. /\ Underway(c) \in Nat /\ Underway(c)' \in Nat
      /\ Cardinality(Runners(c)) \in Nat /\ Cardinality(Runners(c)') \in Nat
  BY <1>2 DEF LineAddsUp
<1>4. CASE Stays(c)
  BY <1>1, <1>4 DEF Stays
<1>5. CASE Made(c)
  BY <1>1, <1>3, <1>5 DEF Made
<1>6. CASE HandedOver(c)
  BY <1>1, <1>3, <1>6 DEF HandedOver
<1>7. CASE Opened(c)
  <2>1. Cardinality(Runners(c)) > 0
    BY <1>3, <1>7, RunnersCount, FS_EmptySet DEF Opened
  <2> QED
    BY <1>1, <1>3, <1>7, <2>1 DEF Opened
<1>8. CASE Over(c)
  BY <1>1, <1>3, <1>8 DEF Over
<1> QED
  BY <1>4, <1>5, <1>6, <1>7, <1>8, StepsMoveJobs

LEMMA ExecutorInvHolds == Spec => []ExecutorInv
<1>1. Init => ExecutorInv
  <2> SUFFICES ASSUME Init PROVE ExecutorInv
    OBVIOUS
  <2>1. QueueInv
    BY QueueInitInv DEF Init
  <2>2. PlaceInv
    BY <2>1 DEF Init, PoolInit, PlaceInv, AtMostOne
  <2>3. PromiseInv
    BY DEF Init, PromiseInv
  <2>4. ASSUME NEW c \in Calls PROVE Underway(c) = 0 /\ Cardinality(Runners(c)) = 0
    <3>1. /\ deqJob = <<>> /\ jobs = <<>> /\ enqJob = <<>> /\ senders = <<>> /\ carried = <<>>
          /\ c \notin unsent
      BY DEF Init, QueueInit
    <3>2. Occurrences(<<>>, c) = 0
      BY OccurrencesInShort
    <3>3. Underway(c) = 0
      BY <2>2, <3>1, <3>2, UnderwayCounts DEF InQueue
    <3>4. Runners(c) = {}
      BY PoolAssumption DEF Init, PoolInit, Runners
    <3> QED
      BY <3>3, <3>4, FS_EmptySet
  <2>5. JobInv
    BY <2>4 DEF Init, JobInv
  <2> QED
    BY <2>2, <2>3, <2>5 DEF ExecutorInv
<1>2. ExecutorInv /\ [Next]_vars => ExecutorInv'
  BY StepsKeepPlaces, StepsKeepPromise, StepsKeepJobs DEF ExecutorInv
<1> QED
  BY <1>1, <1>2, PTL DEF Spec

-----------------------------------------------------------------------------
\* For any calls, workers, policies and resizing: no hand-over between a call, the
\* queue, the carrier and the pool loses or doubles a job (Execute against
\* fromQueueToWorkerPool and the workers).
THEOREM NoJobIsLost == Spec => []NoJobLost
<1>1. ExecutorInv => NoJobLost
  <2> SUFFICES ASSUME ExecutorInv, NEW c \in Calls
               PROVE  IF call[c] \in {"idle", "fifo", "lifo"} THEN Copies(c) = 0
                      ELSE Copies(c) <= 1 /\ (c \notin dequeued => Copies(c) = 1)
    BY DEF NoJobLost
  <2>1. Cardinality({c} \cap unsent) = IF c \in unsent THEN 1 ELSE 0
    <3>1. CASE c \in unsent
      <4>1. {c} \cap unsent = {c}
        BY <3>1
      <4> QED
        BY <3>1, <4>1, FS_Singleton
    <3>2. CASE c \notin unsent
      <4>1. {c} \cap unsent = {}
        BY <3>2
      <4> QED
        BY <3>2, <4>1, FS_EmptySet
    <3> QED
      BY <3>1, <3>2
  <2>2. /\ Underway(c) \in Nat /\ Cardinality(Runners(c)) \in Nat
        /\ Occurrences(Line, c) \in Nat
    <3>1. /\ InQueue(c) \in Nat /\ Occurrences(carried, c) \in Nat
          /\ Underway(c) = InQueue(c) + Occurrences(carried, c) + IF c \in unsent THEN 1 ELSE 0
          /\ Underway(c) = Occurrences(Line, c) + IF c \in unsent THEN 1 ELSE 0
      BY UnderwayCounts DEF ExecutorInv, Underway
    <3>2. Line \in Seq(Jobs)
      <4>1. /\ deqJob \in Seq(Jobs) /\ jobs \in Seq(Jobs) /\ enqJob \in Seq(Jobs)
            /\ senders \in Seq(Jobs) /\ carried \in Seq(Jobs)
        BY ShortSequence DEF ExecutorInv, PlaceInv, QueueInv, QueueTypeOK
      <4>2. deqJob \o jobs \o enqJob \o senders \in Seq(Jobs)
        BY <4>1, LineCounts
      <4> QED
        BY <4>1, <4>2, ConcatProperties DEF Line
    <3> QED
      BY <3>1, <3>2, PlacesFinite, RunnersCount
  <2>3. Copies(c) = Underway(c) + Cardinality(Runners(c))
    <3>1. Copies(c) = Occurrences(Line, c) + Cardinality(Runners(c)) + Cardinality({c} \cap unsent)
      BY DEF Copies, Occurrences, Places, Runners
    <3> QED
      BY <2>1, <2>2, <3>1 DEF Underway
  <2>4. /\ Underway(c) + Cardinality(Runners(c))
             <= IF call[c] \in {"idle", "fifo", "lifo"} THEN 0 ELSE 1
        /\ call[c] \notin {"idle", "fifo", "lifo"} /\ c \notin dequeued
             => Underway(c) + Cardinality(Runners(c)) = 1
    BY DEF ExecutorInv, JobInv
  <2> QED
    BY <2>2, <2>3, <2>4
<1> QED
  BY <1>1, ExecutorInvHolds, PTL

\* A call that waits without a timeout has its result or a worker that owes it one,
\* however its own timeout raced its job (Execute against the job it made).
THEOREM NoCallIsStranded == Spec => []NoCallStranded
<1>1. ExecutorInv => NoCallStranded
  <2> SUFFICES ASSUME ExecutorInv, NEW c \in Calls, call[c] = "waiting"
               PROVE  \/ func[c] = "finished"
                      \/ c \notin canceled /\ \E w \in Workers : running[w] = c
    BY DEF NoCallStranded
  <2>1. c \in dequeued /\ c \notin canceled
    BY DEF ExecutorInv, PromiseInv
  <2> QED
    BY <2>1 DEF ExecutorInv, PromiseInv
<1> QED
  BY <1>1, ExecutorInvHolds, PTL

\* Each function is executed at most once, and its call returns its result or is
\* rejected: the executors implement ExecutorContract (Execute with its job).
THEOREM ExecutorsKeepContract == Spec => KeepsContract
<1> DEFINE reply == [c \in Calls |-> ReplyOf(c)]
<1>1. Init => Contract!Init
  BY DEF Init, Contract!Init, ReplyOf
<1>2. ExecutorInv /\ [Next]_vars => [Contract!Next]_<<func, reply>>
  <2> SUFFICES ASSUME ExecutorInv, [Next]_vars PROVE Contract!Next \/ UNCHANGED <<func, reply>>
    OBVIOUS
  <2> USE DEF ExecutorInv, PlaceInv, poolVars, callVars, ownVars
  <2>1. ASSUME UNCHANGED func, \A c \in Calls : ReplyOf(c)' = ReplyOf(c)
        PROVE  UNCHANGED <<func, reply>>
    BY <2>1
  <2>2. ASSUME UNCHANGED <<func, call>> PROVE UNCHANGED <<func, reply>>
    BY <2>2 DEF ReplyOf
  <2>3. ASSUME NEW c \in Calls, GiveUp(c) PROVE Contract!Reject(c)
    <3>1. ReplyOf(c) = "none" /\ ReplyOf(c)' = "rejected" /\ func' = func
      BY <2>3 DEF GiveUp, ReplyOf
    <3>2. \A d \in Calls \ {c} : ReplyOf(d)' = ReplyOf(d)
      BY <2>3 DEF GiveUp, ReplyOf
    <3> QED
      BY <3>1, <3>2 DEF Contract!Reject
  <2>4. ASSUME NEW c \in Calls, GetResult(c) PROVE Contract!Answer(c)
    <3>1. ReplyOf(c) = "none" /\ ReplyOf(c)' = "result" /\ func' = func /\ func[c] = "finished"
      BY <2>4 DEF GetResult, ReplyOf
    <3>2. \A d \in Calls \ {c} : ReplyOf(d)' = ReplyOf(d)
      BY <2>4 DEF GetResult, ReplyOf
    <3> QED
      BY <3>1, <3>2 DEF Contract!Answer
  <2>5. ASSUME NEW c \in Calls, ReadCongestion(c) \/ AdaptPolicy(c) \/ Execute(c) \/ SeeDequeued(c)
        PROVE  UNCHANGED <<func, reply>>
    <3>1. /\ func' = func
          /\ \E there \in {"fifo", "lifo", "queueing", "waiting"} :
               call' = [call EXCEPT ![c] = there]
          /\ call[c] \notin {"rejected", "answered"}
      BY <2>5 DEF ReadCongestion, AdaptPolicy, Execute, SeeDequeued
    <3> QED
      BY <2>1, <3>1 DEF ReplyOf
  <2>6. ASSUME NEW c \in Calls, SendJob(c) PROVE UNCHANGED <<func, call>>
    BY <2>6 DEF SendJob
  <2>7. ASSUME NEW w \in Workers, JobStarts(w) PROVE \E c \in Calls : Contract!Run(c)
    <3>1. PICK c \in Calls : c = running[w]
      BY <2>7 DEF JobStarts
    <3>2. func[c] = "notrun" /\ func' = [func EXCEPT ![c] = "running"] /\ call' = call
      BY <2>7, <3>1 DEF JobStarts
    <3>3. \A d \in Calls : ReplyOf(d)' = ReplyOf(d)
      BY <3>2 DEF ReplyOf
    <3> QED
      BY <3>2, <3>3 DEF Contract!Run
  <2>8. ASSUME NEW w \in Workers, JobFinishes(w) PROVE \E c \in Calls : Contract!Finish(c)
    <3>1. PICK c \in Calls : c = running[w]
      BY <2>8 DEF JobFinishes
    <3>2. func[c] = "running" /\ func' = [func EXCEPT ![c] = "finished"] /\ call' = call
      BY <2>8, <3>1 DEF JobFinishes
    <3>3. \A d \in Calls : ReplyOf(d)' = ReplyOf(d)
      BY <3>2 DEF ReplyOf
    <3> QED
      BY <3>2, <3>3 DEF Contract!Finish
  <2>9. ASSUME NEW w \in Workers, JobDequeued(w) \/ JobCancelled(w) PROVE UNCHANGED <<func, call>>
    BY <2>9 DEF JobDequeued, JobCancelled
  <2>10. CASE Carrier
    <3>1. UNCHANGED <<func, call>>
      BY <2>10 DEF Carrier, CarryFromQueue, CarryToPool, CarrierReturns
    <3> QED
      BY <2>2, <3>1
  <2>11. CASE QueueGoroutines \/ Resize \/ StopOrWait \/ UNCHANGED vars
    <3>1. UNCHANGED <<func, call>>
      BY <2>11 DEF QueueGoroutines, Resize, StopOrWait, vars
    <3> QED
      BY <2>2, <3>1
  <2> HIDE DEF reply
  <2> QED
    BY <2>2, <2>3, <2>4, <2>5, <2>6, <2>7, <2>8, <2>9, <2>10, <2>11
       DEF Next, Caller, Job, Contract!Next
<1> QED
  BY <1>1, <1>2, ExecutorInvHolds, PTL DEF Spec, KeepsContract, Contract!Spec

-----------------------------------------------------------------------------
\* The pool grows by workers that were not alive, with a stop channel each, and
\* shrinks by the oldest ones, whose channels are closed and dropped.
LEMMA ResizingKeepsPool ==
  ASSUME PoolTypeOK, StoppersAreThePool,
         NEW quantity \in 0 .. MaxQuantity, SetWorkerQuantity(quantity)
  PROVE  PoolTypeOK' /\ StoppersAreThePool' /\ running' = running
<1> DEFINE have == Len(workerStoppers)
           kept == alive \ toldToStop
<1>1. /\ have \in Nat /\ quantity \in Nat /\ kept \in SUBSET Workers
      /\ workerStoppers \in Seq(Workers) /\ alive \subseteq Workers /\ toldToStop \subseteq alive
      /\ IsInjective(workerStoppers) /\ ToSet(workerStoppers) = kept
  BY PoolAssumption, LenProperties DEF PoolTypeOK, StoppersAreThePool
<1>2. CASE have < quantity
  <2> DEFINE n == quantity - have
  <2>1. n \in Nat /\ IncreaseWorkers(n)
    BY <1>1, <1>2 DEF SetWorkerQuantity
  <2> HIDE DEF n
  <2>2. PICK new \in [1 .. n -> Workers \ alive] :
          /\ IsInjective(new)
          /\ workerStoppers' = workerStoppers \o new
          /\ alive' = alive \cup ToSet(new)
          /\ UNCHANGED <<toldToStop, running>>
    BY <2>1 DEF IncreaseWorkers
  <2>3. /\ new \in Seq(Workers) /\ IsInjective(new)
        /\ ToSet(new) \subseteq Workers \ alive
    BY <2>1, <2>2, IsASeq DEF ToSet
  <2>4. ToSet(workerStoppers) \cap ToSet(new) = {}
    BY <1>1, <2>3
  <2> DEFINE grown == workerStoppers \o new
  <2>5. /\ grown \in Seq(Workers) /\ IsInjective(grown)
        /\ ToSet(grown) = ToSet(workerStoppers) \cup ToSet(new)
    <3>1. workerStoppers \in Seq(Workers) /\ IsInjective(workerStoppers)
      BY <1>1
    <3>2. \A s, t \in Seq(Workers) :
             IsInjective(s) /\ IsInjective(t) /\ ToSet(s) \cap ToSet(t) = {}
               => /\ s \o t \in Seq(Workers) /\ IsInjective(s \o t)
                  /\ ToSet(s \o t) = ToSet(s) \cup ToSet(t)
      BY ListGrows
    <3> QED
      BY <3>1, <3>2, <2>3, <2>4, Zenon
  <2> HIDE DEF grown
  <2>6. /\ workerStoppers' \in Seq(Workers) /\ IsInjective(workerStoppers')
        /\ ToSet(workerStoppers') = kept \cup ToSet(new)
    BY <1>1, <2>2, <2>5 DEF grown
  <2>7. alive' \ toldToStop' = kept \cup ToSet(new)
    BY <1>1, <2>2, <2>3
  <2>8. PoolTypeOK'
    BY <1>1, <2>2, <2>3, <2>6 DEF PoolTypeOK
  <2> QED
    BY <2>2, <2>6, <2>7, <2>8 DEF StoppersAreThePool, IsInjective, ToSet
<1>3. CASE ~ (have < quantity)
  <2> DEFINE n == have - quantity
             closed == ToSet(SubSeq(workerStoppers, 1, n))
             left == SubSeq(workerStoppers, n + 1, Len(workerStoppers))
  <2>1. n \in 0 .. Len(workerStoppers) /\ DecreaseWorkers(n)
    BY <1>1, <1>3 DEF SetWorkerQuantity
  <2> HIDE DEF n
  <2>2. /\ workerStoppers' = left /\ toldToStop' = toldToStop \cup closed
        /\ UNCHANGED <<alive, running>>
    BY <2>1 DEF DecreaseWorkers
  <2> HIDE DEF kept
  <2>3. closed \subseteq kept /\ left \in Seq(Workers) /\ IsInjective(left)
        /\ ToSet(left) = kept \ closed
    BY <1>1, <2>1, ListIsCut
  <2> HIDE DEF closed, left
  <2>4. alive' \ toldToStop' = kept \ closed
    BY <2>2 DEF kept
  <2>5. PoolTypeOK'
    BY <1>1, <2>2, <2>3 DEF PoolTypeOK, kept
  <2> QED
    BY <2>2, <2>3, <2>4, <2>5 DEF StoppersAreThePool, IsInjective, ToSet
<1> QED
  BY <1>2, <1>3

\* The steps of one worker.
LEMMA WorkerKeepsPool ==
  ASSUME PoolTypeOK, StoppersAreThePool, NEW w \in Workers,
         \/ StopWorker(w) /\ running[w] = NoJob
         \/ FinishJob(w)
         \/ \E job \in Calls : ReceiveJob(w, job)
  PROVE  PoolTypeOK' /\ StoppersAreThePool'
<1>1. CASE StopWorker(w)
  <2>1. /\ w \in toldToStop /\ toldToStop' = toldToStop \ {w} /\ alive' = alive \ {w}
        /\ running[w] = NoJob /\ UNCHANGED <<workerStoppers, running>>
    BY <1>1 DEF StopWorker, Waiting
  <2>2. alive' \ toldToStop' = alive \ toldToStop
    BY <2>1
  <2> QED
    BY <2>1, <2>2 DEF PoolTypeOK, StoppersAreThePool
<1>2. CASE FinishJob(w)
  BY <1>2 DEF FinishJob, PoolTypeOK, StoppersAreThePool
<1>3. ASSUME NEW job \in Calls, ReceiveJob(w, job) PROVE PoolTypeOK' /\ StoppersAreThePool'
  BY <1>3 DEF ReceiveJob, Waiting, PoolTypeOK, StoppersAreThePool
<1> QED
  BY <1>1, <1>2, <1>3

\* The pool keeps to itself: what the calls and the carrier do with its workers
\* leaves its list of stop channels alone.
PoolInv ==
  /\ PoolTypeOK /\ StoppersAreThePool
  /\ executor \in Executors /\ carrierGone \in BOOLEAN

LEMMA PoolInvHolds == Spec => []PoolInv
<1>1. Init => PoolInv
  <2> SUFFICES ASSUME Init PROVE PoolInv
    OBVIOUS
  <2>1. PoolTypeOK
    BY EmptySeq DEF Init, PoolInit, PoolTypeOK
  <2>2. StoppersAreThePool
    BY DEF Init, PoolInit, StoppersAreThePool, IsInjective, ToSet
  <2> QED
    BY <2>1, <2>2 DEF Init, PoolInv
<1>2. PoolInv /\ [Next]_vars => PoolInv'
  <2> SUFFICES ASSUME PoolInv, [Next]_vars PROVE PoolInv'
    OBVIOUS
  <2> USE DEF PoolInv
  <2>1. ASSUME UNCHANGED <<poolVars, executor>>, carrierGone' \in BOOLEAN PROVE PoolInv'
    BY <2>1 DEF poolVars, PoolTypeOK, StoppersAreThePool
  <2>2. ASSUME NEW c \in Calls, Caller(c) PROVE PoolInv'
    <3>1. UNCHANGED <<poolVars, ownVars>>
      BY <2>2 DEF Caller, ReadCongestion, AdaptPolicy, Execute, SendJob, GiveUp, SeeDequeued,
         GetResult
    <3> QED
      BY <2>1, <3>1 DEF ownVars
  <2>3. ASSUME NEW w \in Workers, Job(w) PROVE PoolInv'
    <3>1. CASE JobDequeued(w) \/ JobStarts(w)
      BY <2>1, <3>1 DEF JobDequeued, JobStarts, ownVars
    <3>2. CASE JobCancelled(w) \/ JobFinishes(w)
      <4>1. FinishJob(w) /\ UNCHANGED ownVars
        BY <3>2 DEF JobCancelled, JobFinishes
      <4> QED
        BY <4>1, WorkerKeepsPool DEF ownVars
    <3> QED
      BY <2>3, <3>1, <3>2 DEF Job
  <2>4. ASSUME Carrier PROVE PoolInv'
    <3>1. ASSUME NEW w \in Workers, NEW c \in Calls, CarryToPool(w, c) PROVE PoolInv'
      BY <3>1, WorkerKeepsPool DEF CarryToPool
    <3>2. CASE CarrierReturns \/ \E c \in Calls : CarryFromQueue(c)
      BY <2>1, <3>2 DEF CarrierReturns, CarryFromQueue
    <3> QED
      BY <2>4, <3>1, <3>2 DEF Carrier
  <2>5. ASSUME Resize PROVE PoolInv'
    <3>1. ASSUME NEW quantity \in 0 .. MaxQuantity, SetWorkerQuantity(quantity)
          PROVE  PoolTypeOK' /\ StoppersAreThePool'
      BY <3>1, ResizingKeepsPool
    <3>2. ASSUME NEW w \in Workers, StopWorker(w) PROVE PoolTypeOK' /\ StoppersAreThePool'
      BY <3>2, WorkerKeepsPool DEF StopWorker, Waiting
    <3> QED
      BY <2>5, <3>1, <3>2 DEF Resize, ownVars
  <2>6. CASE QueueGoroutines \/ StopOrWait \/ UNCHANGED vars
    BY <2>1, <2>6 DEF QueueGoroutines, StopOrWait, vars, ownVars
  <2> QED
    BY <2>2, <2>3, <2>4, <2>5, <2>6 DEF Next
<1> QED
  BY <1>1, <1>2, PTL DEF Spec

\* Also with a queue in front of it the pool keeps its list of stop channels: it is
\* exactly the workers that are to live on (SetWorkerQuantity against newWorker and
\* the jobs that fromQueueToWorkerPool carries there).
THEOREM ExecutorsKeepStoppers == Spec => []StoppersAreThePool
<1>1. PoolInv => StoppersAreThePool
  BY DEF PoolInv
<1> QED
  BY <1>1, PoolInvHolds, PTL

\* Type correctness of the LIFO and CoDel executors with their queue and pool.
THEOREM ExecutorTypeCorrect == Spec => []TypeOK
<1>1. PoolInv /\ ExecutorInv => TypeOK
  BY DEF PoolInv, ExecutorInv, PlaceInv, QueueInv, TypeOK
<1> QED
  BY <1>1, PoolInvHolds, ExecutorInvHolds, PTL

-----------------------------------------------------------------------------
\* The calls, the carrier and the policy of CoDel use the queue as it expects to be
\* used, never sending a job that is still inside: every behaviour of an executor is
\* one of its queue (queue.go under lifo.go and codel.go).
THEOREM ExecutorRunsQueue == Spec => QueueSpec
<1>1. Init => QueueInit
  BY DEF Init
<1>2. ExecutorInv /\ [Next]_vars => [QueueNext]_queueVars
  <2> SUFFICES ASSUME ExecutorInv, [Next]_vars PROVE [QueueNext]_queueVars
    OBVIOUS
  <2>1. ASSUME NEW c \in Calls, SendJob(c) PROVE QueueNext
    <3>1. Underway(c) <= 1 /\ c \in unsent
      BY <2>1, RunnersCount, UnderwayCounts DEF SendJob, ExecutorInv, JobInv
    <3>2. InQueue(c) = 0
      BY <3>1, UnderwayCounts DEF ExecutorInv
    <3>3. ~ Inside(c)
      BY <3>2, QueueCounts DEF ExecutorInv, PlaceInv, QueueInv
    <3> QED
      BY <2>1, <3>3, ExecutorAssumption DEF SendJob, QueueNext
  <2>2. CASE ~ \E c \in Calls : SendJob(c)
    <3>1. ASSUME NEW c \in Calls, Caller(c) PROVE [QueueNext]_queueVars
      BY <2>2, <3>1, ExecutorAssumption DEF Caller, ReadCongestion, AdaptPolicy, Execute, GiveUp,
         SeeDequeued, GetResult, QueueNext
    <3>2. ASSUME NEW w \in Workers, Job(w) PROVE UNCHANGED queueVars
      BY <3>2 DEF Job, JobDequeued, JobCancelled, JobStarts, JobFinishes
    <3>3. CASE QueueGoroutines \/ StopOrWait
      BY <3>3 DEF QueueGoroutines, StopOrWait, QueueNext
    <3>4. ASSUME Carrier PROVE [QueueNext]_queueVars
      BY <3>4, ExecutorAssumption DEF Carrier, CarryFromQueue, CarryToPool, CarrierReturns, QueueNext
    <3>5. CASE Resize \/ UNCHANGED vars
      BY <3>5 DEF Resize, vars
    <3> QED
      BY <3>1, <3>2, <3>3, <3>4, <3>5 DEF Next
  <2> QED
    BY <2>1, <2>2
<1> QED
  BY <1>1, <1>2, ExecutorInvHolds, PTL DEF Spec, QueueSpec

\* So inside the executors the queue never takes a nil job, loses no wake-up, and
\* delivers each job once; its statistics do not drift from it.
THEOREM ExecutorsTrustQueue ==
  Spec => /\ []NoLostWakeUp /\ []NeverTakesFromEmpty /\ []SizeCounts
          /\ DeliversOnce
BY ExecutorRunsQueue, NoWakeUpIsLost, NoNilJob, SizeIsExact, QueueDeliversOnce, PTL
=============================================================================
