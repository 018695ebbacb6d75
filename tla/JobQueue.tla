------------------------------ MODULE JobQueue ------------------------------
(***************************************************************************)
(* What the executors rely on dynamicQueue for: every job that was put in  *)
(* is offered, and delivered, exactly once: of those that have come to     *)
(* their place the oldest under the fifo policy, the newest under lifo.    *)
(***************************************************************************)
EXTENDS Naturals, SequencesExt

CONSTANTS Jobs, Policies

VARIABLES
  arriving,   \* the job on its way to its place, if there is one
  queued,     \* the jobs in their places, in the order in which they came to them
  offered,    \* the job at the exit, if there is one
  policy      \* the policy of the next job to be offered

vars == <<arriving, queued, offered, policy>>

Init == arriving = <<>> /\ queued = <<>> /\ offered = <<>> /\ policy \in Policies

SetPolicy == policy' \in Policies /\ UNCHANGED <<arriving, queued, offered>>

Put == /\ arriving = <<>>
       /\ \E j \in Jobs : arriving' = <<j>>
       /\ UNCHANGED <<queued, offered, policy>>

Settle == /\ arriving # <<>>
          /\ queued' = queued \o arriving /\ arriving' = <<>>
          /\ UNCHANGED <<offered, policy>>

Position == IF policy = "fifo" THEN 1 ELSE Len(queued)

Offer == /\ queued # <<>> /\ offered = <<>>
         /\ offered' = <<queued[Position]>>
         /\ queued' = RemoveAt(queued, Position)
         /\ UNCHANGED <<arriving, policy>>

Deliver == offered # <<>> /\ offered' = <<>> /\ UNCHANGED <<arriving, queued, policy>>

Next == SetPolicy \/ Put \/ Settle \/ Offer \/ Deliver

Spec == Init /\ [][Next]_vars
=============================================================================
