----------------------------- MODULE MCWorkflowQueue -----------------------------
(* Small instances of WorkflowQueue for TLC: one execution (executions share      *)
(* nothing but the bound on restarts), and the sets of faults the runs allow.       *)
EXTENDS WorkflowQueue

CONSTANT e1

OneBlocking == [e \in {e1} |-> "blocking"]
OneAsync == [e \in {e1} |-> "async"]

\* Everything but lost writes and status writes on the side.
RedeliveryFaults ==
  {"drive", "caller", "abort", "remote", "startup", "produce", "crash", "rerun", "redelivery",
   "skiplog"}

NoFaults == {}
RedeliveryOnly == {"redelivery"}
==================================================================================
