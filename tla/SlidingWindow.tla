--------------------------- MODULE SlidingWindow ---------------------------
(***************************************************************************)
(* What the circuit breaker is promised by its metrics recorder: the       *)
(* results of the running bucket duration and of the Size - 1 durations    *)
(* before it, a result being forgotten at the Size-th tick of the ticker   *)
(* after it was recorded, and never before.                                *)
(***************************************************************************)
EXTENDS Naturals

CONSTANT Size   \* how many bucket durations the window remembers

Age == 0 .. Size - 1
NoResults == [total |-> 0, errs |-> 0]

VARIABLE recent   \* recent[a]: what was recorded a ticks ago

Init == recent = [a \in Age |-> NoResults]

\* A result is counted in the running bucket duration.
Record(failed) ==
  recent' = [recent EXCEPT ![0] = [total |-> @.total + 1,
                                   errs  |-> @.errs + IF failed THEN 1 ELSE 0]]

\* A bucket duration ends: everything is one tick older, the oldest is forgotten.
Tick == recent' = [a \in Age |-> IF a = 0 THEN NoResults ELSE recent[a - 1]]

\* The breaker changed state: everything is forgotten.
Forget == recent' = [a \in Age |-> NoResults]

Next == (\E failed \in BOOLEAN : Record(failed)) \/ Tick \/ Forget

Spec == Init /\ [][Next]_recent
=============================================================================
