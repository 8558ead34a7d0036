----------------------------- MODULE AgentOperations -----------------------------
(***************************************************************************)
(* What AI agents do with the rows of WorkflowRows: one operation on a     *)
(* workflow, a swarm of workflows (workflow-operation.ts), or a batch of   *)
(* entity operations (entity-operation.ts). All of them deal with a list   *)
(* of items one by one, each with an awaited call of the ORM.              *)
(***************************************************************************)
EXTENDS WorkflowRows

CONSTANTS
  Agents,   \* the actors of this module
  Orders,   \* what an agent may be told to do
  Parents   \* channels, categories, ... that workflows are attached to

Item == [op : {"create", "update", "publish", "execute", "delete", "attach", "detach"},
         id : Workflows \cup {None}, name : Names \cup {None},
         definition : Definitions \cup {None}, parent : Parents,
         confirmed : BOOLEAN, \* confirmed of the item or of its context
         executes : BOOLEAN,  \* a workflow that is created is executed
         \* the workflows that the results of earlier actions speak of
         previous : Seq(Workflows \cup {None})]
Order == [kind : {"operation", "batch", "swarm"}, by : Users,
          organization : Organizations \cup {None}, confirmed : BOOLEAN, items : Seq(Item)]

ASSUME AgentAssumption ==
  /\ Agents \subseteq Actors
  /\ Orders \subseteq Order
  /\ None \notin Orders
  /\ \A q \in Orders :
       /\ q.items # <<>>
       /\ q.kind = "operation" => Len(q.items) = 1 /\ q.items[1].op # "detach"
       /\ q.kind = "swarm" => \A k \in 1..Len(q.items) : q.items[k].op = "create"
       /\ \A k \in 1..Len(q.items) : q.items[k].op = "create" =>
            q.items[k].name # None /\ q.items[k].definition # None

VARIABLES
  agentAt,  \* where an agent's request is
  order,    \* what it is about
  position, \* how many items it has dealt with
  chosen,   \* the workflow the item at hand is about
  created,  \* the workflows it has created
  links     \* workflows of parents

agentVars == <<agentAt, order, position, chosen, created, links>>

AgentInit ==
  /\ agentAt = [a \in Agents |-> "idle"]
  /\ order = [a \in Agents |-> None]
  /\ position = [a \in Agents |-> 0]
  /\ chosen = [a \in Agents |-> None]
  /\ created = [a \in Agents |-> {}]
  /\ links = {}

AgentTypeOK ==
  /\ agentAt \in [Agents -> {"idle", "refused", "working", "starting", "linking", "answered",
                             "rejected"}]
  /\ order \in [Agents -> Orders \cup {None}]
  /\ position \in [Agents -> Nat]
  /\ chosen \in [Agents -> Workflows \cup {None}]
  /\ created \in [Agents -> SUBSET Workflows]
  /\ links \subseteq Parents \X Workflows

-------------------------------------------------------------------------------
(* Items. *)

\* Mutant: only detaching is destructive.
OnlyDetaching(op) == op = "detach"

\* destructiveOperations: they need a confirmation of their own in a batch.
Destructive(op) == op \in {"delete", "detach"}

\* What the list of operations that require confirmation says.
MustConfirm(q) == q.kind = "swarm" \/ (q.kind = "operation" /\ q.items[1].op = "delete")

\* workflowIdFromPreviousResults: the first that speaks of a workflow.
FromPrevious(previous) ==
  LET known == {k \in DOMAIN previous : previous[k] # None}
  IN  IF known = {} THEN None ELSE previous[CHOOSE k \in known : \A j \in known : k <= j]

Given(q, i) == IF i.id = None /\ q.kind = "operation" THEN FromPrevious(i.previous) ELSE i.id

\* An agent that deals with an item of operation op and is not kept from it.
At(a) == order[a].items[position[a] + 1]
Working(a, op) ==
  /\ agentAt[a] = "working" /\ position[a] < Len(order[a].items)
  /\ At(a).op = op
  /\ order[a].kind = "batch" => ~Destructive(op) \/ At(a).confirmed

NextItem(a) ==
  /\ position' = [position EXCEPT ![a] = @ + 1]
  /\ agentAt' = [agentAt EXCEPT ![a] = "working"]
  /\ chosen' = [chosen EXCEPT ![a] = None]

-------------------------------------------------------------------------------
(* Operations. *)

ReceiveOrder(a) ==
  /\ agentAt[a] = "idle"
  /\ \E q \in Orders :
       /\ order' = [order EXCEPT ![a] = q]
       /\ agentAt' = [agentAt EXCEPT ![a] = IF MustConfirm(q) /\ ~q.confirmed THEN "refused"
                                                                             ELSE "working"]
  /\ UNCHANGED <<rowVars, position, chosen, created, links>>

\* An item is answered without being carried out: one of a batch without confirmation, for it
\* is destructive or its prompt has a word of an administrator's; a draft that is not valid.
RefuseItem(a) ==
  /\ agentAt[a] = "working" /\ position[a] < Len(order[a].items)
  /\ \/ order[a].kind = "batch" /\ ~At(a).confirmed
     \/ order[a].kind # "batch" /\ At(a).op = "create"
  /\ NextItem(a)
  /\ UNCHANGED <<rowVars, order, created, links>>

\* The row belongs to the user and, in an organization, to both; in a batch, to whom the payload
\* says.
CreateItem(a) ==
  /\ Working(a, "create")
  /\ \E w \in Workflows :
       /\ order[a].kind # "batch" =>
            UserOf[w] = order[a].by /\ OrganizationOf[w] = order[a].organization
       /\ AddRow(w, At(a).name, At(a).definition, a)
       /\ created' = [created EXCEPT ![a] = @ \cup {w}]
       /\ IF At(a).executes /\ order[a].kind # "batch"
          THEN /\ agentAt' = [agentAt EXCEPT ![a] = "starting"]
               /\ chosen' = [chosen EXCEPT ![a] = w]
               /\ UNCHANGED position
          ELSE NextItem(a)
  /\ UNCHANGED <<published, versions, runs, order, links>>

\* The workflow that was created is executed as it was created.
ExecuteCreated(a) ==
  /\ agentAt[a] = "starting"
  /\ runs' = runs \cup {[workflow |-> chosen[a], definition |-> At(a).definition, by |-> a]}
  /\ NextItem(a)
  /\ UNCHANGED <<stored, held, published, versions, order, created, links>>

\* Mutant: what a patch does not name is cleared.
Overwritten(new, old) == new

\* A patch writes what it names.
Patched(new, old) == IF new = None THEN old ELSE new

UpdateItem(a) ==
  LET w == Given(order[a], At(a))
  IN  /\ Working(a, "update") /\ w \in stored
      /\ WriteDraft(w, Patched(At(a).name, Draft(w).name),
                    Patched(At(a).definition, Draft(w).definition), a)
      /\ NextItem(a)
      /\ UNCHANGED <<stored, published, versions, runs, order, created, links>>

\* The ORM's publish: the draft, without the binding of credentials.
PublishItem(a) ==
  LET w == Given(order[a], At(a))
  IN  /\ Working(a, "publish") /\ w \in stored
      /\ WritePublished(w, Draft(w).definition, [n \in Nodes |-> None], a)
      /\ NextItem(a)
      /\ UNCHANGED <<stored, held, versions, runs, order, created, links>>

\* The ORM's execute.
ExecuteItem(a) ==
  LET w == Given(order[a], At(a))
  IN  /\ Working(a, "execute") /\ w \in stored
      /\ runs' = runs \cup {[workflow |-> w, definition |-> Draft(w).definition, by |-> a]}
      /\ NextItem(a)
      /\ UNCHANGED <<stored, held, published, versions, order, created, links>>

DeleteItem(a) ==
  /\ Working(a, "delete") /\ Given(order[a], At(a)) # None
  /\ RemoveRow(Given(order[a], At(a)))
  /\ NextItem(a)
  /\ UNCHANGED <<held, published, versions, runs, order, created, links>>

\* resolveEntityIdByName: the first row of the name, of whatever owner; there may be none. A
\* single operation goes by the id only.
ResolveChild(a) ==
  LET i == At(a)
      w == Given(order[a], i)
  IN  /\ Working(a, "attach") \/ Working(a, "detach")
      /\ order[a].kind = "operation" => w # None
      /\ IF w # None THEN chosen' = [chosen EXCEPT ![a] = w]
         ELSE IF i.name = None \/ Named(i.name) = {} THEN UNCHANGED chosen
         ELSE \E v \in Named(i.name) : chosen' = [chosen EXCEPT ![a] = v]
      /\ agentAt' = [agentAt EXCEPT ![a] = "linking"]
      /\ UNCHANGED <<rowVars, order, position, created, links>>

\* Without a child the manager gets what is left of the input, which names no workflow.
Link(a) ==
  /\ agentAt[a] = "linking"
  /\ links' = IF chosen[a] = None THEN links
              ELSE IF At(a).op = "attach" THEN links \cup {<<At(a).parent, chosen[a]>>}
              ELSE links \ {<<At(a).parent, chosen[a]>>}
  /\ NextItem(a)
  /\ UNCHANGED <<rowVars, order, created>>

\* A rejected call ends the list; what was done before stays.
RejectItem(a) ==
  /\ \/ agentAt[a] \in {"starting", "linking"}
     \/ agentAt[a] = "working" /\ position[a] < Len(order[a].items)
  /\ agentAt' = [agentAt EXCEPT ![a] = "rejected"]
  /\ UNCHANGED <<rowVars, order, position, chosen, created, links>>

\* The cleanup of a swarm goes through plain records, which have no method to delete them, and
\* removes nothing.
Answer(a) ==
  /\ agentAt[a] = "working" /\ position[a] = Len(order[a].items)
  /\ agentAt' = [agentAt EXCEPT ![a] = "answered"]
  /\ UNCHANGED <<rowVars, order, position, chosen, created, links>>

AgentNext ==
  \E a \in Agents :
    \/ ReceiveOrder(a) \/ RefuseItem(a) \/ CreateItem(a) \/ ExecuteCreated(a) \/ UpdateItem(a)
    \/ PublishItem(a) \/ ExecuteItem(a) \/ DeleteItem(a) \/ ResolveChild(a) \/ Link(a)
    \/ RejectItem(a) \/ Answer(a)
=================================================================================
