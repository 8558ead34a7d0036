--------------------------- MODULE MCExecutionTracker ---------------------------
(* A tracked execution with two events, and a fast tracked one of which the queue  *)
(* writes a status, whose logs are appended and whose record is finalized by       *)
(* others; a client lists the running statuses.                                    *)
EXTENDS ExecutionTracker, TLC

CONSTANTS x1, x2, e1, e2, f1, t1, a1, z2, q1, v1

ExecutionOfCall == [c \in {e1, e2, f1, t1, a1, z2, q1} |-> IF c \in {t1, a1, z2, q1} THEN x2 ELSE x1]
Sets == [c \in {x1, x2, f1, t1, z2, q1} |->
           CASE c \in {f1, z2} -> "completed" [] c = t1 -> "failed" [] c = x2 -> "queued"
             [] OTHER -> "running"]
ExpectsQueued == [t \in {t1} |-> {"queued"}]
SaysRunning == [t \in {t1} |-> "running"]
NoLogs == [z \in {z2} |-> <<>>]
RecordedEvents == Permutations({e1, e2})
=================================================================================
