---------------------------- MODULE WorkflowRequests ----------------------------
(***************************************************************************)
(* Users' requests and agents' operations on the same rows, interleaved at *)
(* every awaited call.                                                     *)
(***************************************************************************)
EXTENDS WorkflowManagement, AgentOperations

ASSUME ActorsAssumption == Requests \cap Agents = {}

vars == <<rowVars, managementVars, agentVars>>

Init == RowsInit /\ ManagementInit /\ AgentInit

Next ==
  \/ ManagementNext /\ UNCHANGED agentVars
  \/ AgentNext /\ UNCHANGED managementVars

Spec == Init /\ [][Next]_vars

-------------------------------------------------------------------------------
(* Properties. *)

\* The type invariant.
TypeOK == RowsTypeOK /\ ManagementTypeOK /\ AgentTypeOK

\* What a row has held, or has published, at some moment since a request arrived.
HeldSince(r, w, d) ==
  \E i \in 1..Len(held[w]) : i >= began[r][w].held /\ held[w][i].definition = d
PublishedSince(r, w, d) ==
  \E i \in 1..Len(published[w]) : i >= began[r][w].published /\ published[w][i].definition = d

\* What a request publishes was the row's draft at some moment while the request was at work: it
\* may be overtaken by a save, but it publishes nothing older and nothing that was never saved.
PublishedWasHeld ==
  \A w \in Workflows : \A k \in 1..Len(published[w]) :
    published[w][k].by \in Requests => HeldSince(published[w][k].by, w, published[w][k].definition)

\* An execution by reference runs a definition that was the published one at some moment while
\* the request was at work, whoever saves and publishes meanwhile.
RunsWhatWasPublished ==
  \A e \in runs : e.by \in Requests => PublishedSince(e.by, e.workflow, e.definition)

\* A workflow has borne the name, or one that contains it.
BoreSince(r, w) ==
  \E i \in 1..Len(held[w]) :
    i >= began[r][w].held /\ <<ask[r].name, held[w][i].name>> \in Similar

\* A request that names no id acts on a workflow that bore a matching name while the request was
\* at work, although the row is looked up in one call and written in another.
ActsOnNamed ==
  \A r \in Requests : ask[r] # None /\ ask[r].id = None /\ target[r] # None =>
                         BoreSince(r, target[r])

\* A request is told that several workflows match only if two did while it was at work, or one
\* that belongs to both the user and an organization: listWorkflowExecutionOptions lists it twice.
AmbiguityIsReal ==
  \A r \in Requests : at[r] = "ambiguous" =>
    \E v, w \in Workflows :
      /\ BoreSince(r, v) /\ BoreSince(r, w)
      /\ v # w \/ (ask[r].op = "execute" /\ UserOf[w] # None /\ OrganizationOf[w] # None)

\* The nodes of a published workflow have credentials for their service, and nodes of one service
\* the same one, although each node looks for itself and credentials are deactivated meanwhile.
BoundAlike ==
  \A w \in Workflows : \A k \in 1..Len(published[w]) :
    LET p == published[w][k]
    IN  p.by \in Requests =>
          \A m, n \in NodesOf[p.definition] :
            /\ p.binding[m] # None
            /\ ServiceFor[p.binding[m]] = ServiceOf[m]
            /\ ServiceOf[m] = ServiceOf[n] => p.binding[m] = p.binding[n]

\* A request that answers that it is completed has done what it was asked: the row holds or held
\* what it saved, what it published has a version, what it deleted is gone; and the list of the
\* workflows an agent has created is exact, whatever was refused or rejected on the way.
AnswerIsTrue ==
  /\ \A r \in Requests : at[r] = "done" =>
       LET q == ask[r]
           w == target[r]
       IN  /\ q.op \in {"create", "save"} =>
                [name |-> q.name, definition |-> q.definition, by |-> r]
                  \in {held[w][i] : i \in 1..Len(held[w])}
           /\ q.op = "publish" \/ (q.op \in {"create", "save"} /\ q.publish) =>
                \E k \in 1..Len(published[w]) : published[w][k].by = r /\ <<w, published[w][k]>> \in versions
           /\ q.op = "delete" => w \notin stored
  /\ \A a \in Agents :
       created[a] = {w \in Workflows : held[w] # <<>> /\ held[w][1].by = a}

\* The item an agent has just dealt with, if it was confirmed.
ConfirmedItem(a, op, w) ==
  /\ position'[a] # position[a]
  /\ LET i == order[a].items[position[a] + 1]
     IN  /\ i.op = op
         /\ \/ w = i.id \/ w = chosen[a] \/ \E k \in DOMAIN i.previous : w = i.previous[k]
         /\ i.confirmed \/ (order[a].kind = "operation" /\ order[a].confirmed)

\* Rows go only by a deletion that names them, and by an agent's only with a confirmation, so
\* that nothing an agent was not allowed to remove is removed in the middle of a batch. The same
\* of links.
OnlyConfirmedDestroys ==
  [][/\ \A w \in stored \ stored' :
          \/ \E r \in Requests : at[r] = "deleting" /\ at'[r] = "done" /\ target[r] = w
                                 /\ ask[r].op = "delete"
          \/ \E a \in Agents : ConfirmedItem(a, "delete", w)
     /\ \A l \in links \ links' : \E a \in Agents : ConfirmedItem(a, "detach", l[2])]_vars
=================================================================================
