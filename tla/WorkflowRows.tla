------------------------------ MODULE WorkflowRows ------------------------------
(***************************************************************************)
(* The rows of ai_workflows (WorkflowEntity.ts) as the requests of users   *)
(* and of agents see them: a row holds a draft and the definition that was *)
(* published last. A change of one row is one call of the store.           *)
(***************************************************************************)
EXTENDS Naturals, Sequences, FiniteSets

CONSTANTS
  Actors,         \* requests that write rows
  Workflows,      \* ids of rows
  Names, Similar, \* <<n, m>> : the text n is part of the name m
  Definitions,    \* of workflows: what column workflow holds
  Users, Organizations,
  UserOf, OrganizationOf, \* the columns of the row that gets an id: an owner or None
  Member,         \* <<user, organization>>: may read and write the organization's rows
  First,          \* what rows hold that are older than the requests, None for the other ids
  Nodes, Credentials,
  None            \* null

Contents == [name : Names, definition : Definitions, by : Actors \cup {None}]
Publications == [definition : Definitions, binding : [Nodes -> Credentials \cup {None}],
                 by : Actors]
Runs == [workflow : Workflows, definition : Definitions, by : Actors]

ASSUME RowsAssumption ==
  /\ None \notin Actors \cup Workflows \cup Names \cup Definitions \cup Users \cup Organizations
                 \cup Credentials \cup Contents
  /\ Similar \subseteq Names \X Names
  /\ \A n \in Names : <<n, n>> \in Similar
  /\ UserOf \in [Workflows -> Users \cup {None}]
  /\ OrganizationOf \in [Workflows -> Organizations \cup {None}]
  /\ First \in [Workflows -> [name : Names, definition : Definitions, by : {None}] \cup {None}]

VARIABLES
  stored,    \* the ids of the rows
  held,      \* history: everything a row has held; the last is name and workflow
  published, \* history: what was published of it; the last is published_workflow
  versions,  \* history: the publications whose version was created
  runs       \* history: executions that were started

rowVars == <<stored, held, published, versions, runs>>

RowsInit ==
  /\ stored = {w \in Workflows : First[w] # None}
  /\ held = [w \in Workflows |-> IF First[w] = None THEN <<>> ELSE <<First[w]>>]
  /\ published = [w \in Workflows |-> <<>>]
  /\ versions = {}
  /\ runs = {}

RowsTypeOK ==
  /\ stored \subseteq Workflows
  /\ held \in [Workflows -> Seq(Contents)]
  /\ published \in [Workflows -> Seq(Publications)]
  /\ versions \subseteq Workflows \X Publications
  /\ runs \subseteq Runs

-------------------------------------------------------------------------------
(* Queries: all of them see active rows only. *)

Draft(w) == held[w][Len(held[w])]
LastPublished(w) == published[w][Len(published[w])]

\* listActiveRowsByUserId: it does not ask for rows without organization.
RowsOfUser(u) == {w \in stored : UserOf[w] = u}
RowsOfOrganization(o) == {w \in stored : OrganizationOf[w] = o}

Named(n) == {w \in stored : Draft(w).name = n}
SimilarTo(n) == {w \in stored : <<n, Draft(w).name>> \in Similar}

\* The checks of loadWorkflowRow and requireWorkflowExecutionRecord, for callers that are not root.
Accessible(u, w) == IF OrganizationOf[w] = None THEN UserOf[w] = u
                                                ELSE <<u, OrganizationOf[w]>> \in Member

-------------------------------------------------------------------------------
(* Writes. *)

WriteDraft(w, n, d, a) ==
  held' = [held EXCEPT ![w] = Append(@, [name |-> n, definition |-> d, by |-> a])]

\* An id is given to a row once.
AddRow(w, n, d, a) ==
  /\ held[w] = <<>>
  /\ stored' = stored \cup {w}
  /\ WriteDraft(w, n, d, a)

WritePublished(w, d, binding, a) ==
  published' = [published EXCEPT ![w] =
                  Append(@, [definition |-> d, binding |-> binding, by |-> a])]

RemoveRow(w) == stored' = stored \ {w}
=================================================================================
