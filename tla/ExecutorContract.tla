-------------------------- MODULE ExecutorContract --------------------------
(***************************************************************************)
(* What Executor.Execute promises: "will execute the received function and *)
(* will return the result of the executed function, or reject error from   *)
(* the executor".                                                          *)
(***************************************************************************)
CONSTANTS
  Calls,
  RejectedNeverRun    \* a rejected function is never executed, before or after

VARIABLES
  func,     \* whether the function of each call has been executed
  reply     \* what each call has returned

Init ==
  /\ func = [c \in Calls |-> "notrun"]
  /\ reply = [c \in Calls |-> "none"]

Run(c) ==
  /\ func[c] = "notrun"
  /\ RejectedNeverRun => reply[c] # "rejected"
  /\ func' = [func EXCEPT ![c] = "running"]
  /\ UNCHANGED reply

Finish(c) ==
  /\ func[c] = "running"
  /\ func' = [func EXCEPT ![c] = "finished"]
  /\ UNCHANGED reply

Answer(c) ==
  /\ reply[c] = "none" /\ func[c] = "finished"
  /\ reply' = [reply EXCEPT ![c] = "result"]
  /\ UNCHANGED func

Reject(c) ==
  /\ reply[c] = "none"
  /\ RejectedNeverRun => func[c] = "notrun"
  /\ reply' = [reply EXCEPT ![c] = "rejected"]
  /\ UNCHANGED func

\* A call that is over, with its function, stands for a new one.
Again(c) ==
  /\ reply[c] # "none" /\ func[c] # "running"
  /\ func' = [func EXCEPT ![c] = "notrun"]
  /\ reply' = [reply EXCEPT ![c] = "none"]

Next == \E c \in Calls : Run(c) \/ Finish(c) \/ Answer(c) \/ Reject(c) \/ Again(c)

Spec == Init /\ [][Next]_<<func, reply>>
=============================================================================
