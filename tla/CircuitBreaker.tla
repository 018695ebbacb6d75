--------------------------- MODULE CircuitBreaker ---------------------------
(***************************************************************************)
(* The circuit breaker (circuitbreaker/circuitbreaker.go) with any number  *)
(* of concurrent callers.  Run holds no lock of its own: it takes c.mu or  *)
(* b.mu for one short critical section after the other, so each of those   *)
(* sections is a step of its caller and everything can happen in between.  *)
(* moveState takes b.mu while it holds c.mu; what another caller does to   *)
(* the recorder before that reset is what it would have done just before   *)
(* moveState, so moveState is one step.                                    *)
(***************************************************************************)
EXTENDS BucketWindow

CONSTANTS
  Callers,                        \* goroutines that call Run, one call at a time each
  ErrorPercentThresholdToOpen,
  MinimumRequestToOpen,
  SuccessfulRequiredOnHalfOpen,
  SliderRuns                      \* FALSE: no bucket duration ends during the run

ASSUME BreakerAssumption ==
  /\ ErrorPercentThresholdToOpen \in Nat \ {0}
  /\ MinimumRequestToOpen \in Nat \ {0}
  /\ SuccessfulRequiredOnHalfOpen \in Nat \ {0}
  /\ SliderRuns \in BOOLEAN

ASSUME CallersAssumption == IsFiniteSet(Callers) /\ Callers # {}

VARIABLES
  state,        \* c.state
  waited,       \* time.Since(c.stateStarted) > WaitDurationInOpenState
  pc,           \* the critical section each caller comes to next
  err,          \* what execute returned to it
  target,       \* the state it has decided to move to
  everFailed,   \* history: some function has returned an error
  results,      \* history: results recorded in this state, once some are
                \* forgotten counted up to Enough
  failures,     \* history: the errors among them, then counted up to 1
  lastFailed,   \* history: the last of them was an error
  kept,         \* history: "all", "some" or "none" of them are in the window
  rejections    \* history: rejections recorded in this state, unless it is open

callVars    == <<pc, err, target>>
stateVars   == <<state, waited>>
evidence == <<results, failures, lastFailed, kept>>
historyVars == <<everFailed, evidence, rejections>>
vars == <<window, nextIndexToReplace, currentBucket, panicked,
          state, waited, pc, err, target,
          everFailed, results, failures, lastFailed, kept, rejections>>

States == {"closed", "open", "halfopen"}
Sections == {"idle", "sinceStart", "execute", "running", "inc", "postDecide",
             "halfTotal", "halfRate", "closedTotal", "closedRate", "move"}

Enough == IF MinimumRequestToOpen > SuccessfulRequiredOnHalfOpen
          THEN MinimumRequestToOpen ELSE SuccessfulRequiredOnHalfOpen
UpTo(most, n) == IF n > most THEN most ELSE n

TypeOK ==
  /\ WindowTypeOK
  /\ state \in States
  /\ waited \in BOOLEAN
  /\ pc \in [Callers -> Sections]
  /\ err \in [Callers -> {"nil", "failure", "ErrCircuitOpen"}]
  /\ target \in [Callers -> States]
  /\ everFailed \in BOOLEAN
  /\ results \in Nat
  /\ failures \in Nat
  /\ lastFailed \in BOOLEAN
  /\ kept \in {"all", "some", "none"}
  /\ rejections \in Nat

Init ==
  /\ WindowInit
  /\ state = "closed"
  /\ waited = FALSE
  /\ pc = [c \in Callers |-> "idle"]
  /\ err = [c \in Callers |-> "nil"]
  /\ target = [c \in Callers |-> "closed"]
  /\ everFailed = FALSE
  /\ results = 0
  /\ failures = 0
  /\ lastFailed = FALSE
  /\ kept = "all"
  /\ rejections = 0

-----------------------------------------------------------------------------
At(c, section) == pc[c] = section
GoTo(c, section) == pc' = [pc EXCEPT ![c] = section]

\* A step that only reads the breaker and moves its caller on.
Reads == UNCHANGED <<stateVars, windowVars, err, target, historyVars>>

\* c has decided to call moveState(new).
DecideToMove(c, new) ==
  /\ GoTo(c, "move")
  /\ target' = [target EXCEPT ![c] = new]
  /\ UNCHANGED <<stateVars, windowVars, err, historyVars>>

\* Bound of the model: no call begins while the running bucket is full; a place
\* is kept for one that can move the circuit out of the open state.
WithinBound == \/ window[currentBucket].total < MaxPerBucket
               \/ window[currentBucket].total = MaxPerBucket /\ state = "open" /\ waited

\* preDecideState: getState.
PreDecide(c) ==
  /\ At(c, "idle") /\ WithinBound
  /\ GoTo(c, IF state = "open" THEN "sinceStart" ELSE "execute")
  /\ err' = [err EXCEPT ![c] = "nil"]
  /\ UNCHANGED <<stateVars, windowVars, target, historyVars>>

\* preDecideState: sinceStateStart.
SinceStateStart(c) ==
  /\ At(c, "sinceStart")
  /\ \/ waited /\ DecideToMove(c, "halfopen")
     \/ ~ waited /\ GoTo(c, "execute") /\ Reads

\* Rejecting in every state but the closed one.
BuggyExecute(c) ==
  /\ At(c, "execute")
  /\ \/ /\ state # "closed"
        /\ GoTo(c, "inc")
        /\ err' = [err EXCEPT ![c] = "ErrCircuitOpen"]
        /\ UNCHANGED <<stateVars, windowVars, target, historyVars>>
     \/ state = "closed" /\ GoTo(c, "running") /\ Reads

\* execute: getState, and the rejection.
Execute(c) ==
  /\ At(c, "execute")
  /\ \/ /\ state = "open"
        /\ GoTo(c, "inc")
        /\ err' = [err EXCEPT ![c] = "ErrCircuitOpen"]
        /\ UNCHANGED <<stateVars, windowVars, target, historyVars>>
     \/ state # "open" /\ GoTo(c, "running") /\ Reads

\* execute: the next runner of the chain runs f, with either outcome.
RunFunc(c, outcome) ==
  /\ At(c, "running")
  /\ GoTo(c, "inc")
  /\ err' = [err EXCEPT ![c] = outcome]
  /\ everFailed' = (everFailed \/ outcome = "failure")
  /\ UNCHANGED <<stateVars, windowVars, target, evidence, rejections>>

\* c.recorder.inc(err), whatever the error is.
RecordResult(c) ==
  /\ At(c, "inc")
  /\ Inc(err[c] # "nil")
  /\ GoTo(c, "postDecide")
  /\ results' = IF kept = "all" THEN results + 1 ELSE UpTo(Enough, results + 1)
  /\ failures' = IF err[c] = "nil" THEN failures
                 ELSE IF kept = "all" THEN failures + 1 ELSE 1
  /\ lastFailed' = (err[c] # "nil")
  /\ kept' = IF kept = "none" THEN "some" ELSE kept
  /\ rejections' = IF err[c] = "ErrCircuitOpen" /\ state # "open"
                   THEN rejections + 1 ELSE rejections
  /\ UNCHANGED <<stateVars, err, target, everFailed>>

\* postDecideState: getState.
PostDecide(c) ==
  /\ At(c, "postDecide")
  /\ GoTo(c, CASE state = "halfopen" -> "halfTotal"
               [] state = "closed" -> "closedTotal"
               [] OTHER -> "idle")
  /\ Reads

\* postDecideState, half open: totalRequests.
HalfOpenTotal(c) ==
  /\ At(c, "halfTotal")
  /\ GoTo(c, IF TotalRequests(window) >= SuccessfulRequiredOnHalfOpen
             THEN "halfRate" ELSE "idle")
  /\ Reads

\* A verdict on the call's own result, not on what the recorder has of all of them.
BuggyHalfOpenRate(c) ==
  /\ At(c, "halfRate")
  /\ DecideToMove(c, IF err[c] = "nil" THEN "closed" ELSE "open")

\* postDecideState, half open: errorRate.
HalfOpenRate(c) ==
  /\ At(c, "halfRate")
  /\ DecideToMove(c, IF ErrorRateIsZero(window) THEN "closed" ELSE "open")

\* postDecideState, closed: totalRequests ...
ClosedTotal(c) ==
  /\ At(c, "closedTotal")
  /\ GoTo(c, IF TotalRequests(window) >= MinimumRequestToOpen
             THEN "closedRate" ELSE "idle")
  /\ Reads

\* ... && errorRate.
ClosedRate(c) ==
  /\ At(c, "closedRate")
  /\ \/ /\ ErrorRateAtLeast(window, ErrorPercentThresholdToOpen)
        /\ DecideToMove(c, "open")
     \/ /\ ~ ErrorRateAtLeast(window, ErrorPercentThresholdToOpen)
        /\ GoTo(c, "idle") /\ Reads

\* Where Run goes on after moveState: to execute, or it returns.
AfterMove(c) == GoTo(c, IF target[c] = "halfopen" THEN "execute" ELSE "idle")

ChangeState(new) ==
  /\ state' = new
  /\ waited' = FALSE
  /\ results' = 0
  /\ failures' = 0
  /\ lastFailed' = FALSE
  /\ kept' = "all"
  /\ rejections' = 0

\* Without "Only change if the state changed".
BuggyMoveAlways(c) ==
  /\ At(c, "move") /\ AfterMove(c) /\ ChangeState(target[c]) /\ Reset
  /\ UNCHANGED <<err, target, everFailed>>

\* The recorder is left as it was.
BuggyMoveWithoutReset(c) ==
  /\ At(c, "move") /\ AfterMove(c)
  /\ IF state # target[c]
     THEN ChangeState(target[c]) /\ UNCHANGED windowVars
     ELSE UNCHANGED <<stateVars, windowVars, evidence, rejections>>
  /\ UNCHANGED <<err, target, everFailed>>

\* moveState(target[c]).
MoveState(c) ==
  /\ At(c, "move")
  /\ AfterMove(c)
  /\ IF state # target[c]
     THEN ChangeState(target[c]) /\ Reset
     ELSE UNCHANGED <<stateVars, windowVars, evidence, rejections>>
  /\ UNCHANGED <<err, target, everFailed>>

Call(c) ==
  \/ PreDecide(c) \/ SinceStateStart(c) \/ Execute(c)
  \/ \E outcome \in {"nil", "failure"} : RunFunc(c, outcome)
  \/ RecordResult(c) \/ PostDecide(c)
  \/ HalfOpenTotal(c) \/ HalfOpenRate(c) \/ ClosedTotal(c) \/ ClosedRate(c)
  \/ MoveState(c)

\* The goroutine of windowSlider.
WindowSlider ==
  /\ SliderRuns
  /\ Slide
  /\ IF window' = window THEN UNCHANGED <<results, failures, kept>>
     ELSE /\ results' = UpTo(Enough, results)
          /\ failures' = UpTo(1, failures)
          /\ kept' = IF TotalRequests(window') = 0 THEN "none" ELSE "some"
  /\ UNCHANGED <<stateVars, callVars, everFailed, lastFailed, rejections>>

\* The clock passes stateStarted + WaitDurationInOpenState.
WaitElapses ==
  /\ ~ waited
  /\ waited' = TRUE
  /\ UNCHANGED <<state, windowVars, callVars, historyVars>>

Next ==
  /\ ~ panicked
  /\ \/ \E c \in Callers : Call(c)
     \/ WindowSlider
     \/ WaitElapses

Spec == Init /\ [][Next]_vars

\* The goroutine of every call is scheduled, the clock goes on, and the
\* callers keep calling.
FairSpec == /\ Spec
            /\ \A c \in Callers : WF_vars(~ panicked /\ Call(c))
            /\ WF_vars(~ panicked /\ WaitElapses)

-----------------------------------------------------------------------------
\* A circuit whose functions have never failed is closed: no race between the
\* callers, the slider and the float division of errorRate ever trips it
\* (postDecideState with errorRate and inc).
HealthyNeverTrips == ~ everFailed => state = "closed"

\* A caller that comes late to moveState, the circuit being already where it
\* wants it, throws none of the results away that were recorded since
\* (moveState's "Only change if the state changed").
LateMoverKeepsRecords ==
  [][state' = state /\ ~ WindowSlider
       => TotalRequests(window') >= TotalRequests(window)]_vars

\* After every change of state the circuit counts from nothing: the window counts
\* exactly what callers have recorded in this state, results and errors, until the
\* slider drops some of it, and then, until there are enough results to decide on,
\* none but those, whatever callers, the slider and the late movers do in between
\* (moveState's reset, inc and slideWindow).
WindowIsEvidence ==
  /\ kept = "all" => TotalRequests(window) = results /\ Errors(window) = failures
  /\ results < Enough => TotalRequests(window) <= results

\* The probes of the half-open circuit are taken for failed, or a closed circuit is
\* tripped, by at most one rejection for each caller but the one that moved it:
\* those decided on while it was open and recorded since (Run, from execute to inc).
LateRejectionsAreFew == rejections < Cardinality(Callers)

\* When callers take turns, every change of state rests on the evidence that
\* BreakerProtocol names: the comment of New, with "at least" for its "greater" and
\* with two exceptions for results that the slider has dropped (Run as a whole, from
\* its looks at the recorder to moveState).
Protocol == INSTANCE BreakerProtocol WITH phase <- state
FollowsProtocol == Protocol!Spec

\* Once functions have stopped failing and no bucket duration ends any more, the
\* circuit closes and stays closed (Run as a whole, with the reset in moveState).
\* That no bucket ends any more is what makes it so: ticks that go on can drop the
\* probes of a half-open circuit for ever before there are enough of them.
EventualRecovery ==
  <>[][~ WindowSlider]_vars /\ <>[](\A c \in Callers : err[c] # "failure")
    => <>[](state = "closed")

\* "if all of them have been successfull, if all have been ok it will move to
\* closed state, if not it will move to open state" (New): a half-open verdict
\* that comes when another caller has already closed the circuit, and nothing
\* has failed since, is not to open it.
HalfOpenVerdict ==
  [][\A c \in Callers : At(c, "halfRate") /\ state = "closed" /\ Errors(window) = 0
       => ~ (pc'[c] = "move" /\ target'[c] = "open")]_vars
=============================================================================
