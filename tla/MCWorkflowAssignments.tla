-------------------------- MODULE MCWorkflowAssignments --------------------------
(* A batch, two updates, a deletion and an attachment on three slots. *)
EXTENDS WorkflowAssignments, TLC

CONSTANTS w1, w2, k1, k2, u1, o1, c1, p1, p2, d1, a1, i1, i2, i3

Slot(k, u, o) == [scope |-> k, user |-> u, organization |-> o]
Mine == Slot(k1, u1, None)
Ours == Slot(k1, None, o1)
Give(i, s, w) == [id |-> i, slot |-> s, workflow |-> w]

\* The batch ends with an assignment that no constraint of the table allows.
Batches == c1 :> <<Give(i1, Mine, w1), Give(i2, Ours, w1), Give(i3, Slot(None, None, o1), w1)>>
Attached == a1 :> Give(i3, Mine, w2)
\* One update sets metadata only, the other one moves rows to another scope.
Patches == p1 :> [workflow |-> None, slot |-> Slot(None, None, None)]
           @@ p2 :> [workflow |-> w2, slot |-> Slot(k2, None, None)]
Selections == p1 :> {Mine, Ours} @@ p2 :> {Ours} @@ d1 :> {Mine, Ours}
CallersOf == [c \in {c1, p1, p2} |-> u1]
=================================================================================
