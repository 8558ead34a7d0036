--------------------------- MODULE MCWorkflowRequests ---------------------------
(* Two requests of one user's and an agent's order on a workflow of the user's, one of its *)
(* organization's and rows to come. *)
EXTENDS WorkflowRequests, TLC

CONSTANTS r1, r2, a1, w1, w2, w3, w4, w5, n1, n2, d1, d2, u, v, o, node1, node2, key1, c1, c2, p1

\* n2 contains n1. The user's w1 and the organization's w2 are there; the other ids are for a row
\* of the user's, of the organization's, and of both.
Contains == {<<n1, n1>>, <<n2, n2>>, <<n1, n2>>}
UserOfRow == w1 :> u @@ w2 :> None @@ w3 :> u @@ w4 :> None @@ w5 :> u
OrganizationOfRow == w1 :> None @@ w2 :> o @@ w3 :> None @@ w4 :> o @@ w5 :> o
FirstContents == [w \in {w1, w2, w3, w4, w5} |->
                    IF w = w1 THEN [name |-> n2, definition |-> d1, by |-> None]
                    ELSE IF w = w2 THEN [name |-> n1, definition |-> d2, by |-> None]
                    ELSE None]
Members == {<<u, o>>}

\* d1 has two nodes that need the same credential and names the organization, d2 neither; the user has one and everybody one.
Needs == d1 :> {node1, node2} @@ d2 :> {}
OrganizationInMetadata == d1 :> o @@ d2 :> None
ServiceOfNode == node1 :> key1 @@ node2 :> key1
ServiceForCredential == [c \in {c1, c2} |-> key1]
ScopeForCredential == c1 :> u @@ c2 :> "everybody"

Want(op, scope, id, name, definition, publish) ==
  [op |-> op, by |-> IF scope = v THEN v ELSE u, scope |-> scope, id |-> id, name |-> name, definition |-> definition,
   publish |-> publish]
Wanted == {
  Want("save", u, None, n1, d2, TRUE),    \* by a part of w1's name
  Want("save", o, w2, n2, d1, FALSE),
  Want("create", u, None, n1, d1, TRUE),
  Want("create", o, None, n2, d2, FALSE),
  Want("publish", u, None, n2, d1, FALSE),
  Want("publish", o, w2, n1, d1, FALSE),
  Want("publish", v, w1, n2, d1, FALSE),  \* somebody else's
  Want("delete", u, None, n1, d1, FALSE),
  Want("get", o, None, n1, d1, FALSE),
  Want("execute", u, None, n2, d1, FALSE),
  Want("execute", o, w2, n1, d1, FALSE)}

Do(op, id, name, definition, confirmed) ==
  [op |-> op, id |-> id, name |-> name, definition |-> definition, parent |-> p1,
   confirmed |-> confirmed, executes |-> op = "create", previous |-> <<>>]
Told(kind, confirmed, items) ==
  [kind |-> kind, by |-> u, organization |-> o, confirmed |-> confirmed, items |-> items]
Tell == {
  Told("batch", FALSE, <<Do("attach", None, n1, None, FALSE), Do("detach", w2, None, None, TRUE),
                         Do("delete", w1, None, None, FALSE)>>),
  Told("batch", FALSE, <<Do("update", w1, n1, None, FALSE), Do("delete", w2, None, None, TRUE)>>),
  Told("swarm", TRUE, <<[Do("create", None, n2, d2, FALSE) EXCEPT !.executes = FALSE],
                        Do("create", None, n1, d1, FALSE)>>),
  Told("operation", FALSE, <<[Do("publish", None, None, None, FALSE)
                                EXCEPT !.previous = <<None, w1, w2>>]>>),
  Told("batch", FALSE, <<Do("create", None, n2, d2, FALSE), Do("publish", w5, None, None, FALSE)>>),
  Told("operation", FALSE, <<Do("execute", w1, None, None, FALSE)>>),
  Told("operation", FALSE, <<Do("delete", w1, None, None, FALSE)>>)}

Alike == Permutations({r1, r2})
=================================================================================
