-------------------------- MODULE MCWorkflowQueuePromise --------------------------
(* A small instance of WorkflowQueuePromise for TLC: one execution (executions share *)
(* nothing but the bound on restarts).                                             *)
EXTENDS WorkflowQueuePromise

CONSTANT e1

OneBlocking == [e \in {e1} |-> "blocking"]

\* Everything but a worker or a consumer in another process, which no waiting call survives.
OneProcessFaults == AllFaults \ {"remote"}
==================================================================================
