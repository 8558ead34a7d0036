--------------------------- MODULE WorkflowManagement ---------------------------
(***************************************************************************)
(* The requests of the workflow node (credential-host-context.ts) and of   *)
(* the node that executes a workflow by reference (execution-reference.ts) *)
(* on the rows of WorkflowRows, and the binding of credentials that a      *)
(* publication awaits (bindWorkflowCredentials.ts). A request is a         *)
(* sequence of awaited calls; an action is what runs between two of them.  *)
(***************************************************************************)
EXTENDS WorkflowRows

CONSTANTS
  Requests,   \* the actors of this module
  Asks,       \* what may be requested
  NodesOf,    \* the nodes of a definition that need a credential and have none attached
  MetadataOf, \* the organization that a definition's metadata names, or None
  ServiceOf,  \* what a node needs a credential for
  ServiceFor, \* what a credential is for
  ScopeFor,   \* the user or organization that owns a credential, or Global
  Retiring,   \* the credentials that may be taken out of use
  Global

Ask == [op : {"create", "save", "get", "publish", "delete", "execute"},
        by : Users,
        scope : Users \cup Organizations, \* the caller, or an organization
        id : Workflows \cup {None}, name : Names,
        definition : Definitions,
        publish : BOOLEAN]

ASSUME ManagementAssumption ==
  /\ Requests \subseteq Actors
  /\ Asks \subseteq Ask
  /\ None \notin Asks
  /\ \A q \in Asks : q.scope \in Users => q.scope = q.by
  /\ Users \cap Organizations = {}
  /\ NodesOf \in [Definitions -> SUBSET Nodes]
  /\ MetadataOf \in [Definitions -> Organizations \cup {None}]
  /\ \A q \in Asks : q.op = "create" => q.id = None

Steps == {"idle", "naming", "searching", "listing", "loading", "saving", "inserting", "binding",
          "versioning", "deleting", "executing", "done", "failed", "ambiguous"}

VARIABLES
  at,      \* where a request is
  ask,     \* what it is about
  target,  \* the id it has resolved
  used,    \* the definition it has read or written, and will publish or execute
  listed,  \* the published rows of the user's that it has listed
  binding, \* the credentials of the nodes
  scopeAt, \* which scope a node's credential is looked for in
  active,  \* the credentials with status ACTIVE
  began    \* history: how much had been written when the request arrived

managementVars == <<at, ask, target, used, listed, binding, scopeAt, active, began>>

ManagementInit ==
  /\ at = [r \in Requests |-> "idle"]
  /\ ask = [r \in Requests |-> None]
  /\ target = [r \in Requests |-> None]
  /\ used = [r \in Requests |-> None]
  /\ listed = [r \in Requests |-> {}]
  /\ binding = [r \in Requests |-> [n \in Nodes |-> None]]
  /\ scopeAt = [r \in Requests |-> [n \in Nodes |-> 1]]
  /\ active = Credentials
  /\ began = [r \in Requests |-> [w \in Workflows |-> [held |-> 0, published |-> 0]]]

ManagementTypeOK ==
  /\ at \in [Requests -> Steps]
  /\ ask \in [Requests -> Asks \cup {None}]
  /\ target \in [Requests -> Workflows \cup {None}]
  /\ used \in [Requests -> Definitions \cup {None}]
  /\ listed \in [Requests -> SUBSET Workflows]
  /\ binding \in [Requests -> [Nodes -> Credentials \cup {None}]]
  /\ scopeAt \in [Requests -> [Nodes -> 1..3]]
  /\ active \subseteq Credentials
  /\ began \in [Requests -> [Workflows -> [held : Nat, published : Nat]]]

Personal(q) == q.scope \in Users

Go(r, step) == at' = [at EXCEPT ![r] = step]

-------------------------------------------------------------------------------
(* Resolving. *)

\* saveUserWorkflow does not load the row it updates.
ActStep(q) == IF q.op = "save" /\ Personal(q) THEN "saving" ELSE "loading"

Arrive(r, q) ==
  /\ at[r] = "idle"
  /\ ask' = [ask EXCEPT ![r] = q]
  /\ began' = [began EXCEPT ![r] =
                 [w \in Workflows |->
                    [held |-> Len(held[w]), published |-> Len(published[w])]]]
  /\ UNCHANGED <<rowVars, used, listed, binding, scopeAt, active>>

\* resolveWorkflowId: an id is taken as it is.
ReceiveRequest(r) ==
  \E q \in Asks :
    /\ q.op # "execute"
    /\ Arrive(r, q)
    /\ target' = [target EXCEPT ![r] = q.id]
    /\ Go(r, IF q.op = "create" THEN "inserting"
             ELSE IF q.id = None THEN "naming"
             ELSE ActStep(q))

\* executeWorkflowReferenceBackendRequest, which resolves by a list of its own.
ReceiveReference(r) ==
  \E q \in Asks :
    /\ q.op = "execute"
    /\ Arrive(r, q)
    /\ target' = [target EXCEPT ![r] = q.id]
    /\ Go(r, IF q.id = None THEN "naming" ELSE "loading")

\* One row is what was meant, several are an error.
Resolve(r, rows, otherwise) ==
  \/ /\ rows = {}
     /\ Go(r, otherwise)
     /\ UNCHANGED target
  \/ \E w \in rows :
       /\ rows = {w}
       /\ Accessible(ask[r].by, w)
       /\ target' = [target EXCEPT ![r] = w]
       /\ Go(r, ActStep(ask[r]))
  \/ /\ \E v, w \in rows : v # w
     /\ Go(r, "ambiguous")
     /\ UNCHANGED target

\* The rows of the exact name, of whatever owner, filtered by scope.
FindByName(r) ==
  LET q == ask[r]
      scoped == {w \in Named(q.name) : IF Personal(q) THEN UserOf[w] = q.by /\ OrganizationOf[w] = None
                                                      ELSE OrganizationOf[w] = q.scope}
  IN  /\ at[r] = "naming" /\ q.op # "execute"
      /\ Resolve(r, scoped, "searching")
      /\ UNCHANGED <<rowVars, ask, used, listed, binding, scopeAt, active, began>>

\* The rows of the scope. The user's include those of organizations the user has made.
InScope(q) == IF Personal(q) THEN RowsOfUser(q.by) ELSE RowsOfOrganization(q.scope)

\* Mutant: the second read is taken as it is.
Unfiltered(q) == InScope(q)

Alternatives(q) == InScope(q) \cap SimilarTo(q.name)

\* No row has the exact name: the rows of the scope, read again, whose name contains it.
FindSimilar(r) ==
  /\ at[r] = "searching"
  /\ Resolve(r, Alternatives(ask[r]), "failed")
  /\ UNCHANGED <<rowVars, ask, used, listed, binding, scopeAt, active, began>>

\* listWorkflowExecutionOptions: the user's published rows, and after another call those of
\* the organization.
ListOwn(r) ==
  LET q == ask[r]
  IN  /\ at[r] = "naming" /\ q.op = "execute"
      /\ listed' = [listed EXCEPT ![r] =
                      {w \in RowsOfUser(q.by) \cap Named(q.name) : published[w] # <<>>}]
      /\ Go(r, "listing")
      /\ UNCHANGED <<rowVars, ask, target, used, binding, scopeAt, active, began>>

\* The organizations that an execution by name looks at: the one it names, or all of the user's.
OrganizationIds(q) == {o \in Organizations : /\ Personal(q) \/ o = q.scope
                                             /\ <<q.by, o>> \in Member}

\* Mutant: the name is compared in the first list only.
SharedOptionsOfAnyName(q) ==
  {w \in stored : OrganizationOf[w] \in OrganizationIds(q) /\ published[w] # <<>>}

SharedOptions(q) ==
  {w \in Named(q.name) : OrganizationOf[w] \in OrganizationIds(q) /\ published[w] # <<>>}

\* A row that belongs to the user and to the organization is in both lists, and matches twice.
ListShared(r) ==
  LET own == listed[r]
      shared == SharedOptions(ask[r])
  IN  /\ at[r] = "listing"
      /\ \/ /\ own \cup shared = {}
            /\ Go(r, "failed")
            /\ UNCHANGED target
         \/ \E w \in own \cup shared :
              /\ own \cup shared = {w} /\ own \cap shared = {}
              /\ target' = [target EXCEPT ![r] = w]
              /\ Go(r, "loading")
         \/ /\ own \cap shared # {} \/ \E v, w \in own \cup shared : v # w
            /\ Go(r, "ambiguous")
            /\ UNCHANGED target
      /\ UNCHANGED <<rowVars, ask, used, listed, binding, scopeAt, active, began>>

-------------------------------------------------------------------------------
(* Acting. *)

\* Mutant: a publication publishes what the request holds.
Sent(q, w) == q.definition

\* A publication publishes the draft that is read when the row is loaded.
ToPublish(q, w) == Draft(w).definition

\* loadWorkflowRow.
LoadRow(r) ==
  LET q == ask[r]
      w == target[r]
  IN  /\ at[r] = "loading" /\ q.op # "execute"
      /\ w \in stored /\ Accessible(q.by, w)
      /\ used' = [used EXCEPT ![r] = IF q.op = "publish" THEN ToPublish(q, w) ELSE @]
      /\ Go(r, CASE q.op = "get" -> "done"
                 [] q.op = "delete" -> "deleting"
                 [] q.op = "publish" -> "binding"
                 [] OTHER -> "saving")
      /\ UNCHANGED <<rowVars, ask, target, listed, binding, scopeAt, active, began>>

\* Mutant: an execution takes the draft.
Current(w) == Draft(w).definition

\* resolveExecutionWorkflow.
ToExecute(w) == LastPublished(w).definition

\* requireWorkflowExecutionRecord: an execution takes the published definition as it is now.
LoadPublished(r) ==
  LET w == target[r]
  IN  /\ at[r] = "loading" /\ ask[r].op = "execute"
      /\ w \in stored /\ Accessible(ask[r].by, w) /\ published[w] # <<>>
      /\ used' = [used EXCEPT ![r] = ToExecute(w)]
      /\ Go(r, "executing")
      /\ UNCHANGED <<rowVars, ask, target, listed, binding, scopeAt, active, began>>

\* What follows a save.
AfterSave(q) == IF q.publish THEN "binding" ELSE "done"

\* Name and definition are written together, under the name the row was looked for with; an
\* organization's save does not reach a row without organization, nor a user's save another
\* user's.
SaveRow(r) ==
  LET q == ask[r]
      w == target[r]
  IN  /\ at[r] = "saving"
      /\ w \in stored
      /\ IF Personal(q) THEN UserOf[w] = q.by ELSE OrganizationOf[w] # None
      /\ WriteDraft(w, q.name, q.definition, r)
      /\ used' = [used EXCEPT ![r] = q.definition]
      /\ Go(r, AfterSave(q))
      /\ UNCHANGED <<stored, published, versions, runs, ask, target, listed, binding, scopeAt,
                     active, began>>

InsertRow(r) ==
  LET q == ask[r]
  IN  /\ at[r] = "inserting"
      /\ Personal(q) \/ <<q.by, q.scope>> \in Member
      /\ \E w \in Workflows :
           /\ IF Personal(q) THEN UserOf[w] = q.by /\ OrganizationOf[w] = None
                             ELSE UserOf[w] = None /\ OrganizationOf[w] = q.scope
           /\ AddRow(w, q.name, q.definition, r)
           /\ target' = [target EXCEPT ![r] = w]
      /\ used' = [used EXCEPT ![r] = q.definition]
      /\ Go(r, AfterSave(q))
      /\ UNCHANGED <<published, versions, runs, ask, listed, binding, scopeAt, active, began>>

\* A row that is gone is not missed.
DeleteRow(r) ==
  /\ at[r] = "deleting"
  /\ RemoveRow(target[r])
  /\ Go(r, "done")
  /\ UNCHANGED <<held, published, versions, runs, ask, target, used, listed, binding, scopeAt,
                 active, began>>

RunPublished(r) ==
  /\ at[r] = "executing"
  /\ runs' = runs \cup {[workflow |-> target[r], definition |-> used[r], by |-> r]}
  /\ Go(r, "done")
  /\ UNCHANGED <<stored, held, published, versions, ask, target, used, listed, binding, scopeAt,
                 active, began>>

-------------------------------------------------------------------------------
(* Publishing. *)

\* Mutant: every node looks for itself.
KeyOfNode(n) == n

\* The cache of promises: nodes of one service share the first one's.
KeyOf(n) == ServiceOf[n]

\* credentialScopes.
CredentialScopes(r) ==
  LET w == target[r]
      metadata == MetadataOf[used[r]]
  IN  IF OrganizationOf[w] # None THEN <<OrganizationOf[w], Global>>
      ELSE IF metadata # None THEN <<metadata, ask[r].by, Global>>
      ELSE <<ask[r].by, Global>>

Waiting(r) == {n \in NodesOf[used[r]] : binding[r][n] = None}

\* activeCredentialId: the scopes one after the other. A scope may be barred to the caller, so
\* that it is passed over whatever it has; without any the publication fails.
LookUp(r, n) ==
  LET alike == {m \in Waiting(r) : KeyOf(m) = KeyOf(n)}
      offered == {c \in active : /\ ServiceFor[c] = ServiceOf[n]
                                 /\ ScopeFor[c] = CredentialScopes(r)[scopeAt[r][n]]}
  IN  /\ at[r] = "binding" /\ n \in Waiting(r)
      /\ \/ \E c \in offered :
              /\ binding' = [binding EXCEPT ![r] =
                               [m \in Nodes |-> IF m \in alike THEN c ELSE @[m]]]
              /\ UNCHANGED <<at, scopeAt>>
         \/ /\ scopeAt[r][n] < Len(CredentialScopes(r))
            /\ scopeAt' = [scopeAt EXCEPT ![r] =
                             [m \in Nodes |-> IF m \in alike THEN scopeAt[r][n] + 1 ELSE @[m]]]
            /\ UNCHANGED <<at, binding>>
         \/ /\ scopeAt[r][n] = Len(CredentialScopes(r))
            /\ Go(r, "failed")
            /\ UNCHANGED <<binding, scopeAt>>
      /\ UNCHANGED <<rowVars, ask, target, used, listed, active, began>>

\* publishWorkflowRow: what was read or written before the credentials were awaited.
PublishRow(r) ==
  /\ at[r] = "binding" /\ Waiting(r) = {}
  /\ target[r] \in stored
  /\ WritePublished(target[r], used[r], binding[r], r)
  /\ Go(r, "versioning")
  /\ UNCHANGED <<stored, held, versions, runs, ask, target, used, listed, binding, scopeAt,
                 active, began>>

\* Mutant: a version that cannot be created is passed over.
CreateVersionOrNot(r) ==
  /\ at[r] = "versioning"
  /\ versions' \in {versions, versions \cup
                 {<<target[r], [definition |-> used[r], binding |-> binding[r], by |-> r]>>}}
  /\ Go(r, "done")
  /\ UNCHANGED <<stored, held, published, runs, ask, target, used, listed, binding, scopeAt,
                 active, began>>

\* createWorkflowVersionOnPublish: its steps are those of WorkflowVersions.
CreateVersion(r) ==
  /\ at[r] = "versioning"
  /\ versions' = versions \cup
                 {<<target[r], [definition |-> used[r], binding |-> binding[r], by |-> r]>>}
  /\ Go(r, "done")
  /\ UNCHANGED <<stored, held, published, runs, ask, target, used, listed, binding, scopeAt,
                 active, began>>

-------------------------------------------------------------------------------
(* Failures. *)

\* A rejected call, a row that is gone, an access that is refused: the request fails and what
\* it has written stays.
RequestFails(r) ==
  /\ at[r] \notin {"idle", "done", "failed", "ambiguous"}
  /\ Go(r, "failed")
  /\ UNCHANGED <<rowVars, ask, target, used, listed, binding, scopeAt, active, began>>

\* Somebody takes a credential out of use.
Deactivate(c) ==
  /\ active' = active \ {c}
  /\ UNCHANGED <<rowVars, at, ask, target, used, listed, binding, scopeAt, began>>

ManagementNext ==
  \/ \E r \in Requests :
       \/ ReceiveRequest(r) \/ ReceiveReference(r) \/ FindByName(r) \/ FindSimilar(r)
       \/ ListOwn(r) \/ ListShared(r)
       \/ LoadRow(r) \/ LoadPublished(r) \/ SaveRow(r) \/ InsertRow(r) \/ DeleteRow(r)
       \/ RunPublished(r) \/ PublishRow(r) \/ CreateVersion(r) \/ RequestFails(r)
       \/ \E n \in Nodes : LookUp(r, n)
  \/ \E c \in active \cap Retiring : Deactivate(c)
=================================================================================
