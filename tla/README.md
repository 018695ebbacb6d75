# A TLA+ model of goresilience

goresilience is a Go library of *runners*: objects with a method
`Run(ctx, f)` that execute a function with some policy around it (a circuit
breaker, a bulkhead, a concurrency limit, a timeout, ...) and that can be
chained. Nothing is persisted and nothing goes over a network; what is hard is
that every runner is called from any number of goroutines, takes its locks for
short sections only, and hands functions to other goroutines over channels,
against timers. The modules here model the runners at the grain of those
critical sections and channel operations. Safety properties come first, and the
most important ones are proved for all values of the constants.

## The system

| component | state | operations | who calls whom |
|---|---|---|---|
| circuit breaker (`circuitbreaker/circuitbreaker.go`) | `state`, `stateStarted`, under `c.mu` | `Run` = `preDecideState`, `execute`, `recorder.inc`, `postDecideState`; `moveState` | callers; the recorder |
| metrics recorder (`circuitbreaker/metrics.go`) | ring of buckets, current bucket, next slot, under `b.mu` | `inc`, `reset`, `totalRequests`, `errorRate`, the tick of `windowSlider` | the breaker; a ticker's goroutine |
| dynamic queue (`concurrencylimit/execute/queue.go`) | the list of jobs, the policies, statistics, three mutexes; channels `in`, `out`, `wakeUpDequeuerC` | goroutines `enqueuer` and `dequeuer`, `SetDequeuePolicy`, `SinceLastEmpty` | LIFO and CoDel executors |
| worker pool (`execute/executor.go`) | list of stop channels under `w.mu`; unbuffered `jobQueue`; worker goroutines | `SetWorkerQuantity`, `newWorker` | the concurrency limit runner; every executor |
| FIFO executor (`execute/fifo.go`) | none of its own | `Execute` | the pool |
| LIFO and CoDel executors (`execute/lifo.go`, `codel.go`) | per call: `dequeuedJob`, `canceledJob`, `res` | `Execute`, `fromQueueToWorkerPool` | queue, pool |
| AIMD limiter (`limit/aimd.go`) | float `limit` under `a.mu` | `MeasureSample`, `GetLimit` | the concurrency limit runner |
| concurrency limit runner (`concurrencylimit.go`, `policy.go`) | counters of calls in flight and executing | `Run` | executor, limiter, policy |
| bulkhead (`bulkhead/bulkhead.go`) | unbuffered `jobC`, `StopC`, fixed workers | `Run`, the workers' loop | metrics recorder |
| timeout (`timeout/timeout.go`) | per call: a goroutine and a buffered channel | `Run` | context |
| retry (`retry/retry.go`) | none | `Run` | - |
| chaos (`chaos/inject.go`) | totals under `f.mu`, the injector under its own mutex | `Run`, `SetLatency`, `SetErrorPercent` | - |
| chain (`goresilience.go`) | none | `RunnerChain`, `command.Run` | every runner |
| metrics (`metrics/`) | Prometheus collectors | recorders, middleware | every runner |

What makes each of them correct, and what can go wrong that a unit test would
hardly reach, is listed line by line under "hazards" in `PROJECT.json`.

## The modules

```
SlidingWindow (abstract)    BreakerProtocol (abstract)    JobQueue (abstract)    ExecutorContract (abstract)
      ^                           ^                           ^                  ^    ^    ^
 BucketWindow <--extends-- CircuitBreaker              DynamicQueue             |    |    |
                                                              ^                  |    |    |
                                        WorkerPool <-- QueueExecutor ------------+    |    |
                                         ^                                            |    |
                              FifoExecutor -------------------------------------------+    |
                                                                                           |
      Aimd <--extends-- ConcurrencyLimit --------------------------------------------------+
                                                                                           |
      Timeout <--extends-- Retry <--extends-- Hystrix ------------> Bulkhead --------------+

      Chaos
```

* `BucketWindow`: the ring of buckets. `window`, `currentBucket` (a slot, where
  the code has a pointer into the slice) and `nextIndexToReplace` are the fields
  of `bucketWindow`; `panicked` is the death of the process by an index out of
  range. Each method holds `b.mu` throughout and is one action. Sums are written
  as cardinalities so that the prover has theorems about them; `MCCircuitBreaker`
  checks that they equal the fold of the community modules.
* `CircuitBreaker` EXTENDS it. Every caller has a program counter `pc` over the
  critical sections of `Run`; `target` is the argument of the `moveState` it has
  decided on. Time is `waited`: whether more than `WaitDurationInOpenState` has
  passed since `stateStarted`. `everFailed` and `rejections` are history that
  properties need, and so are the results, the errors among them and whether the last
  was one (`results`, `failures`, `lastFailed`), all of the state the circuit is in,
  with how much of it the window still has (`kept`). As long as that is all, the first
  two are exact; after that only whether there were enough, and any errors, matters.
* `DynamicQueue`: one action per critical section of `enqueuer` and `dequeuer`.
  Senders blocked on the unbuffered `in` are a sequence, since Go serves them in
  order; the buffer of `wakeUpDequeuerC` is a Boolean. `aged` is whether
  `lastTimeEmpty` is further back than `CodelInterval`. The enqueuer's signal is
  sent inside `jobsMu` together with the append, and the module's header says why
  both are one step.
* `WorkerPool`: a worker has a name which is also that of its stop channel;
  a worker that is both told to stop and offered a job may do either.
* `FifoExecutor` and `QueueExecutor` put calls on top; `executor`, chosen once and for
  all, says whether `QueueExecutor` is the LIFO or the CoDel one. The two differ in
  code by the policy and by the type of `canceledJob`, whose uses are equivalent:
  it is signalled at most once and looked at at most once.
* `Aimd`: the limit as a fixed-point number with `Precision` units to one. Floats
  are such numbers with a finer unit.
* `ConcurrencyLimit` EXTENDS `Aimd` and instantiates `ExecutorContract`, which the runs
  `Fifo` and `Executors` show every executor to implement: what it checks holds over
  each of them, functions that run after their call was rejected included.
  `quantity` is what the pool was asked for last; the pool itself is `WorkerPool`'s
  subject. Calls recur, so limit and pool go up and down.
* `Bulkhead`: the bulkhead with the counters of its metrics recorder; `maxWait`,
  chosen once and for all, is whether it has a `MaxWaitTime`.
* `Timeout`: the timeout runner in front of `command.Run`. An execution is the
  caller's select (`answer`) and a goroutine with a channel of its own; `done` is
  the state of its context. The command looks at the context (`CommandRun`) and calls
  its function (`CommandCalls`) in two steps; the deadline may pass, and the execution
  return, in between.
* `Retry` EXTENDS it: the loops of the calls; the executions are the pairs of a call
  and an attempt in `0 .. Times`.
* `Hystrix` EXTENDS `Retry` and instantiates `Bulkhead`: the chain that `RunnerChain`
  builds in `examples/hystrix/main.go`, from the bulkhead inwards. What is the
  function of a job in `Bulkhead` is a call of `Retry`'s `Run` here, from its
  beginning (`RunChain`) to its end (`ChainReturns`); the bulkhead has a
  `MaxWaitTime` and is not stopped.
* `Chaos`: the chaos runner, in four steps of a call: it reads the latency, measures
  the rate of errors so far under the lock, compares it with the percentage without
  one, and counts itself under the lock again. `lowest` and `highest` are the history
  of the percentage, `returned` that of the calls. The conversion of the float rate to
  an `int` is the set of values it may yield: NaN becomes 0 or the least integer,
  depending on the architecture, and a whole percentage may come out one less.
* `SlidingWindow`, `BreakerProtocol`, `JobQueue`, `ExecutorContract`: what each of
  these components promises. They are refinement targets, used with
  `INSTANCE ... WITH` in the module that implements them. `BreakerProtocol` says on what
  evidence the circuit may trip, close and reopen: the comment of `New`, with three
  departures that its header states and that are listed below. It remembers for itself
  what was recorded and that some of it, or all, may be forgotten; the refinement maps
  that to the history of `CircuitBreaker`. `JobQueue` has the job on its way to its place,
  the queue and the job at the exit; fifo offers the first of the queue, lifo the last.
* `MC*`: symmetry sets, and one assumption, for TLC.
* `*Proofs`: theorems. A module of proofs takes in what its component is made of:
  `CircuitBreakerProofs` the recorder, `QueueExecutorProofs` the queue, `HystrixProofs`
  retry and timeout. `SequenceLemmas` is about Go's lists and the goroutines blocked on
  a channel: where an element is, and how often, after one is added or removed.

Definitions named `Buggy...` are plausible mistakes. They are used nowhere in the
specifications; each one stands before the definition it would replace and shows
that some property notices it.

## The runs

| run | question | bounds |
|---|---|---|
| `Breaker` | no false trip, no lost results, nothing counted that is not of this state, at most one late rejection among the probes | 2 callers, 2 buckets, thresholds 2 and 1, slider on |
| `BreakerSerial` | ring in order and without panic, implements the window; the breaker changes its state only on the evidence of `BreakerProtocol`, and recovers once functions succeed and buckets have stopped ending | 1 caller, 3 buckets, up to 3 results each: more than one lap of every offset; thresholds 3 and 2, slider on |
| `BreakerVerdict` | the half-open verdict as documented, under concurrency: **violated** | 2 callers, slider off |
| `BucketWindowSingle` | no panic with one bucket: **violated** | 1 bucket |
| `Queue` | no lost signal, no nil job, exact statistics, exactly-once by the policy in use; every job leaves once the policy remains fifo | 3 jobs that recur, policies changing, stop at any time |
| `Fifo` | contract, every call returns; stop channels = living workers; the pool converges | 3 calls that recur, quantity 0 to 2, 3 goroutines |
| `Executors` | contract, no job lost, no call stranded, for LIFO and for CoDel | 2 calls, quantity 0 to 2, 2 goroutines |
| `Aimd` | bounded steps, comes down to its floor and up to the demand, never beyond it | limits 2 to 8 in hundredths, slow start up to 4, a factor of 2, up to 15 calls in flight |
| `ConcurrencyLimit` | exact counters, a pool between the minimum and what the other calls ask for, and that follows a limit that settles | 3 callers that recur, the fewest for which the limit of 1 can grow; it goes to 2 and back, in thirds |
| `Bulkhead` | contract, counters; calls return, or the workers are stopped and there is no MaxWaitTime; stop reaches all | 2 workers, 3 calls that recur, with and without MaxWaitTime |
| `Hystrix` | success and error are those of the call's own attempts, only attempts that timed out leave work behind, no leaked goroutine, attempts hold workers, workers come back | 1 worker that 2 calls compete for, with 2 attempts each, a first and a last one |
| `Chaos` | the part of calls that fail keeps to the percentages set | 2 callers, percentages 0 and 50, 7 calls in all |

Type invariants are no property of the runs: `TypeOK` of `CircuitBreaker`,
`QueueExecutor` (with those of the queue and the pool), `FifoExecutor`,
`ConcurrencyLimit`, `Bulkhead` and `Chaos`, and `RetryTypeOK` (with that of the timeout)
are proved. Nor is the limiter's `NeverBelowMinimum`, which is proved as well; a run would show it
broken in `PoolKeepsMinimum`.

Why the bounds are enough: the races are between two callers, or a caller and a
background goroutine, at different places of the same code, and every pair of places
is reached with two callers; a third call or job is there where order, or "the limit
is exceeded by more than one", matters. Each bound has a name: `MaxPerBucket` stops
calls from beginning (never the ones under way, and a place is kept for one that can
leave the open state), the cardinality of `Workers` bounds how many goroutines live
at a time, `MaxQuantity` the size a pool is asked for, `MaxInflight` and `Precision`
the limiter, `MaxTotal` the calls of the chaos runner. Jobs and calls recur, but for
`QueueExecutor` and `Hystrix`, where a call that is over leaves a job or a function
behind that must keep its name: those models are bounded by the number of names
alone. Two attempts have no middle one; what `Hystrix` checks of retry's loop is
proved for any number. Where a cfg switches deadlock checking off, the system may
really stop: callers are kept from calling by `MaxPerBucket`, a queue is stopped,
the workers of a bulkhead have returned, every call of `Hystrix` has been made.

The violated properties are quotations of the repository's comments; the findings
in `PROJECT.json` give the place of each quotation and of the code. Some other places where code and documentation part were met while modelling. The models do
what the code does; no run is kept for these:

* A circuit trips at an error percent equal to the threshold (`circuitbreaker.go:188` has
  `>=`, line 99 "greater"). `BreakerProtocol` has "at least".
* A circuit closes although a probe has failed, once the slider has dropped that probe
  before there were enough of them (line 180, against lines 111-112). The window slides by
  design, so that "all of them" may have been meant of what is left. `BreakerProtocol`
  allows it only when results were dropped and the last one was good.
* A circuit opens again although every probe has succeeded, with a single caller, when
  ticks empty the window between `totalRequests` and `errorRate` and the rate is NaN
  (lines 177 and 180, against lines 112-113): `BucketWindow` and `CircuitBreaker` have
  it, `BreakerProtocol` allows it only when all results were dropped. When another
  caller's reset does the same it is `BreakerVerdict`.
* In the same way a circuit trips although the percentage of errors was below the
  threshold in what has been recorded, when the good results are dropped first: `New`
  says so of the window (line 94), and `BreakerProtocol` then asks for some error.
* `moveState` compares the new state with the current one only, not with the one
  the decision was made in: a caller that decided in half-open to close finds the
  circuit open again and closes it without any wait (`circuitbreaker.go:225`, against
  the comment at line 105).
* `Run` records `ErrCircuitOpen` like the result of a function, into whatever window
  is current by then: a rejection may count as a failed probe of the half-open
  circuit (`circuitbreaker.go:147`, against line 91).
* A function may begin after its execution has returned: `command.Run` looks at the
  context, the deadline passes, the timeout runner returns `ErrTimeout`, and the function
  is called only then (`goresilience.go:26-30`, against line 24: "Only execute if we
  reached to the execution and the context has not been cancelled"). `LateWorkTimedOut`
  shows what is left: the look came before the deadline, and the answer was `ErrTimeout`.
* A dequeuer that sleeps on `wakeUpDequeuerC` never sees the stop channel
  (`queue.go:119`, against `lifo.go:16`). `Executors` shows that no call is
  stranded by it; the goroutine is.
* A worker that was told to stop may take one more job while its replacement works,
  so that more functions run than any quantity asked for (`executor.go:84`, against
  line 25). `PoolConverges` shows that this is temporary.
* The limit is computed and applied in two critical sections: calls that come to the
  second in the other order than to the first leave the pool at the older limit
  until another call is measured (`concurrencylimit.go:112`, against line 19).
  `PoolKeepsMinimum` shows what is left.
* `LimitIncrementInflightFactor` multiplies the limit in `aimd.go:80`; the comment at
  line 23 has it multiply the calls in flight. `NeverBeyondDemand` is about what the
  code does, at a factor of 2.
* The default policy ignores every error but `ErrRejectedExecution`
  (`concurrencylimit.go:39`, against line 25).
* When the timer and `dequeuedJob` are both ready, or the job has just passed its look
  at `canceledJob`, a LIFO or CoDel executor returns `ErrRejectedExecution` and the function
  runs all the same (`execute/lifo.go:77`, against `errors.go:25`: "rejected before being
  executed"). Hence `RejectedNeverRun` of `ExecutorContract`, which only the FIFO
  executor and the bulkhead keep.
* The chaos runner's first call compares `int(NaN)` with the percentage. Where that
  conversion gives the least integer, as on amd64, an error is injected although the
  percentage is 0 (`chaos/inject.go:112`, against "Setting no errors shouldn't return an
  error." in `inject_test.go`, whose loop swallows the first call). `NeverTooManyInjected`
  bounds how many calls this can hit.

## Fairness

* `CircuitBreaker`: goroutines of callers are scheduled, the clock moves, and
  callers keep calling (recovery is not promised otherwise). The slider need not tick;
  that it stops for good is a premise of `EventualRecovery`, stronger than that results
  come faster than buckets end, which the models cannot say: ticks that go on may drop
  the probes each time before there are enough.
* `DynamicQueue`: both goroutines are scheduled, and the consumer of `out` keeps
  receiving: for a queue inside an executor that means that workers keep becoming
  free.
* `FifoExecutor`: timers fire, functions return, callers are scheduled; and a closed
  stop channel that a select finds ready again and again is chosen in the end,
  since Go chooses at random: strong fairness. Nobody has to call or to resize the
  pool, and no worker has to take a job: the properties hold without.
* `QueueExecutor` has none: what would make a call wait for ever is a state,
  and `NoCallStranded` excludes it.
* `Aimd`: the properties themselves say which samples keep coming.
* `Bulkhead`: goroutines are scheduled, timers fire, functions return; strong
  fairness for the stop, as in the pool. Nobody has to call or to stop it.
* `Hystrix`: deadlines pass, waits end, timers fire, goroutines are scheduled. No
  function has to return, and no worker has to take a particular call.
* `ConcurrencyLimit` and `Chaos` have none. `PoolFollowsLimit` says itself that calls
  keep being measured.

## What is proved

TLAPS proves the following for every value of the constants, under the named
assumptions of the modules (`WindowAssumption`, `BreakerAssumption`, ...), which
say what the `defaults()` functions leave possible, except for negative settings of the
limiter, which it does not replace. `ExecutorAssumption` says that the jobs of the queue
are those of the calls, and that its policies are the two the code has (CoDel switches
between them). `ExecutorInv`, `FifoInv`, `BulkheadInv`, `EvidenceInv`, `SerialInv`,
`RetryInv`, `PoolInv`, `CountsInv` and `DemandInv` were checked by TLC on the instances of the runs before they were proved.

* `CircuitBreakerProofs`, the recorder, for `WindowSize # 1`. `RingInv` is inductive:
  the next slot is the successor of the current one around the ring. It is needed
  because the absence of a panic alone is not inductive: it depends on where the next
  slot is. From it follow `SliderIsSafe` and the refinement `RingImplementsWindow`, whose
  step for a tick is that turning the ring by one slot ages every bucket by one.
  `WindowSize = 1` is excluded because there the theorem is false (`BucketWindowSingle`).
* `CircuitBreakerProofs`, the breaker, for any number of callers. `TypeCorrect`;
  `HealthyStaysClosed`, by an invariant saying
  that before the first failure no bucket holds an error, no caller carries one
  and no caller is on its way to another state, so that every error rate is 0 or
  NaN, neither of which trips; `LateMoversAreHarmless`, an action property, by the
  lemma that counting a result makes no sum smaller; `FewLateRejections`, by counting
  the rejections on their way to the recorder together with those already in it: outside
  of the open state nobody joins them, and the caller that left it is not one of them.
  `EvidenceIsOfThisState` is about several callers too: a change of state and the reset of
  the recorder are one critical section, so no result of an earlier state is ever counted
  among the first of the new one, late movers and the slider notwithstanding.
* `SerialFollowsProtocol`: with a single caller the breaker implements `BreakerProtocol`,
  for any thresholds and any number of buckets: it trips on enough results with the
  configured percentage of errors, closes on enough probes none of which failed, reopens
  on one that did, and where the slider has dropped results, on what `BreakerProtocol`
  then still asks for. `EvidenceInv` ties the window to what was recorded in this state,
  with equality until results are dropped. `SerialInv` adds that what the caller has found
  out on its way to `moveState` still stands, although the slider and the clock go on
  (`DecisionHolds`), and that whatever the window still counts, it counts the last error
  too (`LastErrorIsSeen`): a tick drops the oldest bucket first, so that by the time the
  last error is forgotten nothing is counted, the rate is NaN and not zero, and the
  circuit does not close. With two callers the protocol is not kept (`BreakerVerdict`).
* `QueueExecutorProofs`, the queue, for any jobs. `QueueInv` relates the places of the
  two goroutines to what they hold and to the wake-up channel: a dequeuer about to sleep
  or sleeping on jobs has a signal, one about to take has a job to take. The dequeuer's
  check and its take are different critical sections, so `NeverTakesFromEmpty` is not
  inductive without the former. From it follow `NoWakeUpIsLost`, `NoNilJob`, `SizeIsExact`
  and the refinement `QueueDeliversOnce`.
* `QueueExecutorProofs`, the LIFO and CoDel executors, for any calls, workers and resizing.
  `ExecutorInv` has three parts. `PlaceInv` is the types, with `QueueInv`. `PromiseInv`
  says what a call, its function and the worker with its job owe each other: the result of
  a job that was dequeued, and that nobody gave up on, is there or a worker runs its
  function. `JobInv` counts the copies of a job in all places it can be in: none before
  there is a job, one until it is dequeued, at most the one in a worker after. The last
  two lean on each other: that a job which is being opened has a call that made it is a
  matter of counting, and that a call has opened no job before it makes one, so that the
  new copy is the only one, is a promise. `StepsMoveJobs` says what a step may do to a
  job: leave it where it is, make it, hand it on, open it, or end it. The proof of
  `JobInv` splits on that instead of on the twenty-odd actions. From them follow
  `NoJobIsLost`, `NoCallIsStranded` and the refinement `ExecutorsKeepContract`.
  `ExecutorRunsQueue` says that every behaviour of the executors is one of the queue, so
  that the queue's theorems hold inside them too (`ExecutorsTrustQueue`).
* `QueueExecutorProofs`, their workers. `PoolInv` is `StoppersAreThePool` with the types of
  the pool: growing, cutting the list and the ways of a worker keep it, and what calls and
  carrier do leaves the list alone (`ExecutorsKeepStoppers`). With it `TypeOK` is complete
  (`ExecutorTypeCorrect`).
* `FifoExecutorProofs`, for any workers, calls and resizing. `PoolKeepsItsStoppers`, whose
  substance are the lemmas on growing by workers that are new and on cutting the list:
  what is cut off is told to stop and nothing else is. `PoolSizeAddsUp` says what
  that comes to: the living workers are as many as the list is long, and as many more as
  have been told to stop and have not seen it. `FifoKeepsContract` adds
  `HandoverInv`: who is blocked on `jobQueue` is there once, and no two workers have
  the job of one call; without it a function could be run twice.
* `BulkheadProofs`, for any workers and calls, with and without a `MaxWaitTime`.
  `CountersAddUp` is not inductive: that a counter moves when a call leaves `Pending`
  depends on each call being offered once, and held by one worker at most, which
  `HandoverInv` says. `BulkheadKeepsContract` follows from the same invariant.
  `BulkheadTypeCorrect` includes that no counter falls below zero, for which `CountsInv`
  says what is counted: the functions that were executed and the calls that were rejected.
* `HystrixProofs`, retry around timeout, for any calls and any number of attempts.
  `ExecutionInv` says what an execution
  keeps to: a success is that of its own goroutine, and an execution that has
  returned leaves behind a goroutine that is over, or has returned `ErrTimeout` and has a
  context that is done, so that a command which has not looked yet calls nothing. `LoopInv` says that all
  attempts before the current one have failed and none after it has been made.
  Together they are inductive and give `SuccessComesFromItsFunction`,
  `ErrorTakesAllAttempts`, the action property `LateWorkIsOfTimeouts`, and
  `ResultsAreNeverHeldUp`, which is `NoGoroutineLeak`: the buffer of the result channel has
  room whenever a goroutine is about to send.
* `HystrixProofs`, the chain, for any calls, workers and attempts (`ChainAssumption`).
  `ChainRunsRetry` says that the chain is, seen from retry, retry with the workers as
  its callers, so that all of the above holds of it (`ChainAnswersAreGenuine`). It needs
  that what a worker holds is a call (`HandoverInv`). `ChainRunsBulkhead` says that seen
  from the bulkhead it is the bulkhead, some function in its workers; what
  `BulkheadProofs` shows holds of that. `BulkheadBoundsAttempts` adds that a
  loop under way is held by a worker (`HeldInv`), and counts: from the executions that
  are waited for to the workers that hold their calls there is an injection.
* `ConcurrencyLimitProofs`, for any calls, limiter configuration and executor.
  `LimitKeepsMinimum` and the action property `SamplesStepGently` for the limiter alone, the
  latter by lemmas on quotients: to back off by at least a half, twice rounded down,
  leaves at least half of the whole workers, less one half; `PoolIsNeverStarved`, whose invariant adds
  that no limit carried to the pool is below the minimum; `CountersCount`. Upwards,
  `LimitKeepsToDemand` for the limiter alone, and `PoolKeepsToDemand` for the pool, by
  `DemandInv`: the limit, the limits carried to the pool and the calls in flight carried to
  the limiter are all within what the calls other than the one that carries them ask for.
  That a call is not among those it counts is the order of `inflights.Dec()` and
  `MeasureSample`, by the exactness of the counter. `LimiterTypeCorrect`.
* `ChaosProofs`, for any callers, percentages and number of calls. The two bounds are
  not inductive: callers under way have decided already, and a percentage that was
  measured is only compared later. `InjectedInv` and `PassedInv` count those callers too,
  and state the bounds for every percentage beyond the ones set so far, so that
  whatever the injector is set to meanwhile is covered. `RateBounds` is what the
  rounded comparison says of the counters. `ChaosTypeCorrect`.

Only model-checked: all liveness, since fairness is out of the prover's reach:
`WorkersComeBack`, `EventualRecovery`, `EveryJobLeaves`, `EveryCallReturns`,
`PoolConverges`, `FailuresReachMinimum`, `DemandIsMet`, `PoolFollowsLimit`,
`StopReachesWorkers`. That a cardinality of `Units` is the sum of a function is checked by
an assumption of `MCCircuitBreaker`: its proof is an induction over data. Every other
property of a passing run is a theorem.

## Not modelled

The circuit breaker in front of the hystrix chain: it and the chain meet in the error
of a call alone, which `CircuitBreaker` leaves open. The length of waits (backoff,
jitter, timeouts, latency): every timer ends at any moment, which is all that the
properties depend on. The queued duration that the concurrency limit hands to its
limiter, which no limiter reads, and the gauges, which no runner reads. The static
limiter has no state. Metrics are output, except for the bulkhead's counters, which
are modelled because they have to add up; the metrics middleware's racing write to
`next` stores, in a chain from `RunnerChain`, the value already there. Mocks, the other
examples and the Prometheus recorder are left out.

## What is left

The state machines of the code are modelled, and the safety properties that the runs
check are proved. Further theorems would be about these:

1. What of the liveness properties is safety: that no state is reached from which the
   pool, a queued job or a stopped bulkhead could not go on.
2. What several callers of the breaker keep of `BreakerProtocol`, beyond the evidence in
   the window: in which state each of its moves was decided.
3. The theorems of `BulkheadProofs` stated of the chain, which `ChainRunsBulkhead` shows
   to be a bulkhead.
