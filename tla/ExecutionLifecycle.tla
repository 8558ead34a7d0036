--------------------------- MODULE ExecutionLifecycle ---------------------------
(***************************************************************************)
(* What a caller is promised about a tracked workflow execution, with no   *)
(* queue, no event topic and no database in sight: an execution is created *)
(* active, it settles at most once, and what it settled to never changes,  *)
(* unless the promise is taken back: an execution is disowned for good.    *)
(* WorkflowQueuePromise shows which steps take it back.                    *)
(***************************************************************************)

CONSTANT Executions

VARIABLE state

States == {"absent", "active", "completed", "failed", "disowned"}

Init == state = [e \in Executions |-> "absent"]

\* A tracker row appears for an execution.
Create(e) ==
  /\ state[e] = "absent"
  /\ state' = [state EXCEPT ![e] = "active"]

\* The one and only outcome of an execution.
Settle(e, outcome) ==
  /\ state[e] = "active"
  /\ state' = [state EXCEPT ![e] = outcome]

\* Nothing is promised about the execution any more.
Disown(e) ==
  /\ state[e] # "disowned"
  /\ state' = [state EXCEPT ![e] = "disowned"]

Next ==
  \E e \in Executions :
    \/ Create(e)
    \/ Disown(e)
    \/ \E outcome \in {"completed", "failed"} : Settle(e, outcome)

Spec == Init /\ [][Next]_state
=================================================================================
