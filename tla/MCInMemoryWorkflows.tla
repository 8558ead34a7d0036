--------------------------- MODULE MCInMemoryWorkflows ---------------------------
(* Two workflows, a save, imports, debug calls and an execution. *)
EXTENDS InMemoryWorkflows

CONSTANTS w1, w2, s1, m1, d1, d2, r1, p1, v1, n1

WorkflowOfCall == [c \in {s1, m1, d1, d2, r1} |-> IF c \in {s1, r1} THEN w2 ELSE w1]
Saved == [s \in {s1} |-> [nodes |-> {n1}, edges |-> {n1}]]
EdgesOnly == [d \in {d2} |-> [nodes |-> {}, edges |-> {{m1}}]]
ThrowsAtDebug == {d1} \X {"started", "success"}
=================================================================================
