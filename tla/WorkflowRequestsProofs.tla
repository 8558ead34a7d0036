------------------------- MODULE WorkflowRequestsProofs -------------------------
(***************************************************************************)
(* Proofs about WorkflowRequests, for any requests, agents, rows, names,   *)
(* owners and credentials.                                                 *)
(***************************************************************************)
EXTENDS WorkflowRequests, WellFoundedInduction, TLAPS

-------------------------------------------------------------------------------
(* Where a request is tells what it is about and what it has resolved. *)

StepFitsOperation(r) ==
  /\ at[r] \in {"naming", "searching", "listing", "loading"} => ask[r].op # "create"
  /\ at[r] = "saving" => ask[r].op = "save"
  /\ at[r] = "inserting" => ask[r].op = "create"
  /\ at[r] = "deleting" => ask[r].op = "delete"
  /\ at[r] = "executing" => ask[r].op = "execute"
  /\ at[r] \in {"binding", "versioning"} => ask[r].op \in {"create", "save", "publish"}

RequestInv(r) ==
  /\ at[r] = "idle" <=> ask[r] = None
  /\ StepFitsOperation(r)
  /\ at[r] \in {"binding", "versioning", "executing"} =>
       used[r] \in Definitions /\ target[r] \in Workflows
  /\ at[r] = "deleting" => target[r] \in Workflows

AgentInv(a) ==
  /\ agentAt[a] # "idle" => order[a] \in Orders
  /\ agentAt[a] \notin {"idle", "refused"} /\ MustConfirm(order[a]) => order[a].confirmed
  /\ agentAt[a] \in {"starting", "linking"} => position[a] < Len(order[a].items)
  /\ agentAt[a] = "starting" => At(a).op = "create" /\ chosen[a] \in Workflows
  /\ agentAt[a] = "linking" =>
       /\ At(a).op \in {"attach", "detach"}
       /\ order[a].kind = "batch" /\ At(a).op = "detach" => At(a).confirmed

StoredIsHeld == \A w \in stored : held[w] # <<>>

\* The types, with what they rest on.
TypeInv ==
  /\ TypeOK
  /\ StoredIsHeld
  /\ \A r \in Requests : RequestInv(r)
  /\ \A a \in Agents : AgentInv(a)

-------------------------------------------------------------------------------
(* Writing a row. *)

LEMMA DraftWritten ==
  ASSUME RowsTypeOK, NEW w \in Workflows, NEW n \in Names, NEW d \in Definitions,
         NEW x \in Actors, WriteDraft(w, n, d, x)
  PROVE  /\ held' \in [Workflows -> Seq(Contents)]
         /\ held'[w] = Append(held[w], [name |-> n, definition |-> d, by |-> x])
         /\ \A v \in Workflows : v # w => held'[v] = held[v]
         /\ Len(held'[w]) = Len(held[w]) + 1
         /\ held'[w][Len(held[w]) + 1] = [name |-> n, definition |-> d, by |-> x]
<1>1. [name |-> n, definition |-> d, by |-> x] \in Contents
  BY DEF Contents
<1>2. held[w] \in Seq(Contents)
  BY DEF RowsTypeOK
<1> QED
  BY <1>1, <1>2 DEF WriteDraft, RowsTypeOK

LEMMA PublicationWritten ==
  ASSUME RowsTypeOK, NEW w \in Workflows, NEW d \in Definitions, NEW x \in Actors,
         NEW b \in [Nodes -> Credentials \cup {None}], WritePublished(w, d, b, x)
  PROVE  /\ published' \in [Workflows -> Seq(Publications)]
         /\ published'[w] = Append(published[w], [definition |-> d, binding |-> b, by |-> x])
         /\ \A v \in Workflows : v # w => published'[v] = published[v]
         /\ Len(published'[w]) = Len(published[w]) + 1
         /\ published'[w][Len(published[w]) + 1] = [definition |-> d, binding |-> b, by |-> x]
<1>1. [definition |-> d, binding |-> b, by |-> x] \in Publications
  BY DEF Publications
<1>2. published[w] \in Seq(Publications)
  BY DEF RowsTypeOK
<1> QED
  BY <1>1, <1>2 DEF WritePublished, RowsTypeOK

LEMMA DraftIsContents ==
  ASSUME TypeInv, NEW w \in stored
  PROVE  /\ w \in Workflows /\ Draft(w) \in Contents
         /\ Draft(w).name \in Names /\ Draft(w).definition \in Definitions
         /\ Len(held[w]) \in Nat \ {0}
<1>1. held[w] \in Seq(Contents) /\ held[w] # <<>> /\ w \in Workflows
  BY DEF TypeInv, TypeOK, RowsTypeOK, StoredIsHeld
<1>2. Len(held[w]) \in Nat \ {0} /\ Draft(w) \in Contents
  BY <1>1 DEF Draft
<1> QED
  BY <1>1, <1>2 DEF Contents

LEMMA LastIsPublication ==
  ASSUME TypeInv, NEW w \in Workflows, published[w] # <<>>
  PROVE  /\ LastPublished(w) \in Publications /\ LastPublished(w).definition \in Definitions
         /\ Len(published[w]) \in Nat \ {0}
<1>1. published[w] \in Seq(Publications)
  BY DEF TypeInv, TypeOK, RowsTypeOK
<1>2. Len(published[w]) \in Nat \ {0} /\ LastPublished(w) \in Publications
  BY <1>1 DEF LastPublished
<1> QED
  BY <1>2 DEF Publications

LEMMA AsksAreTyped ==
  ASSUME TypeInv, NEW r \in Requests, at[r] # "idle"
  PROVE  /\ ask[r] \in Asks /\ ask[r].op \in {"create", "save", "get", "publish", "delete", "execute"}
         /\ ask[r].by \in Users /\ ask[r].name \in Names /\ ask[r].definition \in Definitions
         /\ ask[r].scope \in Users \cup Organizations
         /\ ask[r].id \in Workflows \cup {None} /\ r \in Actors
<1>1. ask[r] \in Asks
  BY DEF TypeInv, TypeOK, ManagementTypeOK, RequestInv
<1>2. ask[r] \in Ask /\ r \in Actors
  BY <1>1, ManagementAssumption
<1> QED
  BY <1>1, <1>2 DEF Ask

-------------------------------------------------------------------------------
(* Types of requests. *)

RequestTypes == ManagementTypeOK /\ \A s \in Requests : RequestInv(s)
RowTypes == RowsTypeOK /\ StoredIsHeld

\* Steps that only read rows.
LEMMA ResolvingTypes ==
  ASSUME TypeInv, NEW r \in Requests,
         \/ ReceiveRequest(r) \/ ReceiveReference(r) \/ FindByName(r) \/ FindSimilar(r)
         \/ ListOwn(r) \/ ListShared(r) \/ RequestFails(r)
  PROVE  RequestTypes'
<1> USE DEF RequestTypes
<1>1. ManagementTypeOK /\ RowsTypeOK /\ (\A s \in Requests : RequestInv(s))
  BY DEF TypeInv, TypeOK
<1>2. CASE ReceiveRequest(r) \/ ReceiveReference(r)
  <2>1. \A w \in Workflows : Len(held[w]) \in Nat /\ Len(published[w]) \in Nat
    BY <1>1 DEF RowsTypeOK
  <2>2. began' \in [Requests -> [Workflows -> [held : Nat, published : Nat]]]
    <3>1. began' = [began EXCEPT ![r] =
                     [w \in Workflows |->
                        [held |-> Len(held[w]), published |-> Len(published[w])]]]
      BY <1>2 DEF ReceiveRequest, ReceiveReference, Arrive
    <3>2. began \in [Requests -> [Workflows -> [held : Nat, published : Nat]]]
      BY <1>1 DEF ManagementTypeOK
    <3> QED
      BY <2>1, <3>1, <3>2
  <2>3. PICK q \in Asks :
          /\ ask' = [ask EXCEPT ![r] = q]
          /\ target' = [target EXCEPT ![r] = q.id]
          /\ at' = [at EXCEPT ![r] =
                      IF q.op = "create" THEN "inserting"
                      ELSE IF q.id = None THEN "naming" ELSE ActStep(q)]
    <3>1. CASE ReceiveRequest(r)
      BY <3>1 DEF ReceiveRequest, Arrive, Go
    <3>2. CASE ReceiveReference(r)
      BY <3>2 DEF ReceiveReference, Arrive, Go, ActStep
    <3> QED
      BY <1>2, <3>1, <3>2
  <2>4. q.id \in Workflows \cup {None} /\ q # None
    BY ManagementAssumption DEF Ask
  <2>5. ManagementTypeOK'
    BY <2>2, <2>3, <2>4, <1>1, <1>2
       DEF ReceiveRequest, ReceiveReference, Arrive, ManagementTypeOK, Steps, ActStep
  <2>6. ASSUME NEW s \in Requests PROVE RequestInv(s)'
    BY <2>3, <2>4, <1>1, <1>2
       DEF ReceiveRequest, ReceiveReference, Arrive, ManagementTypeOK, Steps, ActStep, RequestInv,
           StepFitsOperation
  <2> QED
    BY <2>5, <2>6
<1>3. ASSUME NEW rows, NEW otherwise \in {"searching", "failed"}, Resolve(r, rows, otherwise),
             rows \subseteq Workflows, at[r] \in {"naming", "searching"},
             UNCHANGED <<ask, used, listed, binding, scopeAt, active, began>>
      PROVE  RequestTypes'
  <2>1. ManagementTypeOK'
    BY <1>1, <1>3 DEF Resolve, Go, Steps, ActStep, ManagementTypeOK
  <2>2. ASSUME NEW s \in Requests PROVE RequestInv(s)'
    BY <1>1, <1>3
       DEF Resolve, Go, Steps, ActStep, ManagementTypeOK, RequestInv, StepFitsOperation
  <2> QED
    BY <2>1, <2>2
<1>4. CASE FindByName(r)
  <2>1. Named(ask[r].name) \subseteq Workflows
    BY <1>1 DEF Named, RowsTypeOK
  <2> QED
    BY <2>1, <1>3, <1>4 DEF FindByName
<1>5. CASE FindSimilar(r)
  <2>1. Alternatives(ask[r]) \subseteq Workflows
    BY <1>1 DEF Alternatives, InScope, RowsOfUser, RowsOfOrganization, RowsTypeOK
  <2> QED
    BY <2>1, <1>3, <1>5 DEF FindSimilar
<1>6. CASE ListOwn(r)
  BY <1>1, <1>6
     DEF ListOwn, Go, Steps, ManagementTypeOK, RequestInv, StepFitsOperation, RowsOfUser, RowsTypeOK
<1>7. CASE ListShared(r)
  <2>1. listed[r] \cup SharedOptions(ask[r]) \subseteq Workflows
    BY <1>1 DEF SharedOptions, Named, RowsTypeOK, ManagementTypeOK
  <2>2. at[r] = "listing"
    BY <1>7 DEF ListShared
  <2>3. /\ target' \in [Requests -> Workflows \cup {None}]
        /\ \E step \in {"failed", "loading", "ambiguous"} : at' = [at EXCEPT ![r] = step]
        /\ \A s \in Requests : s # r => target'[s] = target[s]
    BY <2>1, <1>1, <1>7 DEF ListShared, Go, ManagementTypeOK
  <2>4. UNCHANGED <<ask, used, listed, binding, scopeAt, active, began>>
    BY <1>7 DEF ListShared
  <2> QED
    BY <2>2, <2>3, <2>4, <1>1 DEF Steps, ManagementTypeOK, RequestInv, StepFitsOperation
<1>8. CASE RequestFails(r)
  BY <1>1, <1>8 DEF RequestFails, Go, Steps, ManagementTypeOK, RequestInv, StepFitsOperation
<1> QED
  BY <1>2, <1>4, <1>5, <1>6, <1>7, <1>8

LEMMA ReadingKeepsRows ==
  ASSUME TypeInv, UNCHANGED rowVars
  PROVE  RowTypes'
BY DEF TypeInv, TypeOK, RowTypes, RowsTypeOK, StoredIsHeld, rowVars

LEMMA LoadingTypes ==
  ASSUME TypeInv, NEW r \in Requests, LoadRow(r) \/ LoadPublished(r)
  PROVE  RequestTypes'
<1> USE DEF RequestTypes
<1>1. ManagementTypeOK /\ RowsTypeOK /\ (\A s \in Requests : RequestInv(s))
  BY DEF TypeInv, TypeOK
<1>2. CASE LoadRow(r)
  <2>1. target[r] \in Workflows /\ Draft(target[r]).definition \in Definitions
    BY <1>2, DraftIsContents DEF LoadRow
  <2>2. used' \in [Requests -> Definitions \cup {None}]
        /\ (ask[r].op = "publish" => used'[r] \in Definitions)
        /\ \A s \in Requests : s # r => used'[s] = used[s]
    BY <2>1, <1>1, <1>2 DEF LoadRow, ManagementTypeOK, ToPublish
  <2>3. at[r] = "loading" /\ ask[r].op \notin {"execute", "create"}
        /\ ask[r].op \in {"create", "save", "get", "publish", "delete", "execute"}
    BY <1>1, <1>2, AsksAreTyped DEF LoadRow, RequestInv, StepFitsOperation
  <2>4. at' = [at EXCEPT ![r] = CASE ask[r].op = "get" -> "done"
                                  [] ask[r].op = "delete" -> "deleting"
                                  [] ask[r].op = "publish" -> "binding"
                                  [] OTHER -> "saving"]
        /\ UNCHANGED <<ask, target, listed, binding, scopeAt, active, began>>
    BY <1>2 DEF LoadRow, Go
  <2>5. ManagementTypeOK'
    BY <2>2, <2>3, <2>4, <1>1 DEF ManagementTypeOK, Steps
  <2>6. ASSUME NEW s \in Requests PROVE RequestInv(s)'
    BY <2>1, <2>2, <2>3, <2>4, <1>1 DEF ManagementTypeOK, Steps, RequestInv, StepFitsOperation
  <2> QED
    BY <2>5, <2>6
<1>3. CASE LoadPublished(r)
  <2>1. target[r] \in Workflows /\ published[target[r]] # <<>>
    BY <1>1, <1>3 DEF LoadPublished, RowsTypeOK
  <2>2. ToExecute(target[r]) \in Definitions
    BY <2>1, LastIsPublication DEF ToExecute
  <2> QED
    BY <2>1, <2>2, <1>1, <1>3
       DEF LoadPublished, Go, Steps, ManagementTypeOK, RequestInv, StepFitsOperation
<1> QED
  BY <1>2, <1>3

\* Steps that write rows.
LEMMA SavingTypes ==
  ASSUME TypeInv, NEW r \in Requests, SaveRow(r) \/ InsertRow(r)
  PROVE  RequestTypes' /\ RowTypes'
<1> USE DEF RequestTypes, RowTypes
<1>1. ManagementTypeOK /\ RowsTypeOK /\ StoredIsHeld /\ (\A s \in Requests : RequestInv(s))
  BY DEF TypeInv, TypeOK
<1>2. at[r] \in {"saving", "inserting"} /\ at[r] # "idle"
  BY DEF SaveRow, InsertRow
<1>3. /\ ask[r].name \in Names /\ ask[r].definition \in Definitions /\ r \in Actors
      /\ ask[r] \in Asks
  BY <1>2, AsksAreTyped
<1>4. PICK w \in Workflows : /\ WriteDraft(w, ask[r].name, ask[r].definition, r)
                             /\ stored' \subseteq stored \cup {w}
                             /\ target'[r] = w
                             /\ \A s \in Requests : s # r => target'[s] = target[s]
                             /\ target' \in [Requests -> Workflows \cup {None}]
  <2>1. CASE SaveRow(r)
    <3>1. target[r] \in Workflows
      BY <1>1, <2>1 DEF SaveRow, RowsTypeOK
    <3> QED
      BY <3>1, <1>1, <2>1 DEF SaveRow, ManagementTypeOK
  <2>2. CASE InsertRow(r)
    <3>1. PICK w \in Workflows : /\ AddRow(w, ask[r].name, ask[r].definition, r)
                                 /\ target' = [target EXCEPT ![r] = w]
      BY <2>2 DEF InsertRow
    <3> QED
      BY <3>1, <1>1 DEF AddRow, ManagementTypeOK
  <2> QED
    BY <2>1, <2>2
<1>5. /\ held' \in [Workflows -> Seq(Contents)]
      /\ held'[w] = Append(held[w], [name |-> ask[r].name, definition |-> ask[r].definition, by |-> r])
      /\ Len(held'[w]) = Len(held[w]) + 1
      /\ \A v \in Workflows : v # w => held'[v] = held[v]
  BY <1>1, <1>3, <1>4, DraftWritten
<1>6. held'[w] # <<>>
  BY <1>1, <1>5 DEF RowsTypeOK
<1>7. RowsTypeOK' /\ StoredIsHeld'
  BY <1>1, <1>4, <1>5, <1>6 DEF SaveRow, InsertRow, RowsTypeOK, StoredIsHeld
<1>8. /\ at' = [at EXCEPT ![r] = AfterSave(ask[r])]
      /\ used' = [used EXCEPT ![r] = ask[r].definition]
      /\ UNCHANGED <<ask, listed, binding, scopeAt, active, began>>
      /\ ask[r].op \in {"create", "save"}
  BY <1>1 DEF SaveRow, InsertRow, Go, RequestInv, StepFitsOperation
<1>9. ManagementTypeOK'
  BY <1>1, <1>3, <1>4, <1>8 DEF ManagementTypeOK, AfterSave, Steps
<1>10. ASSUME NEW s \in Requests PROVE RequestInv(s)'
  BY <1>1, <1>2, <1>3, <1>4, <1>8 DEF ManagementTypeOK, AfterSave, Steps, RequestInv, StepFitsOperation
<1> QED
  BY <1>7, <1>9, <1>10

LEMMA ActingTypes ==
  ASSUME TypeInv, NEW r \in Requests,
         DeleteRow(r) \/ RunPublished(r) \/ PublishRow(r) \/ CreateVersion(r)
  PROVE  RequestTypes' /\ RowTypes'
<1> USE DEF RequestTypes, RowTypes
<1>1. ManagementTypeOK /\ RowsTypeOK /\ StoredIsHeld /\ (\A s \in Requests : RequestInv(s))
      /\ r \in Actors /\ binding[r] \in [Nodes -> Credentials \cup {None}]
  BY ManagementAssumption DEF TypeInv, TypeOK, ManagementTypeOK
<1>2. CASE DeleteRow(r)
  BY <1>1, <1>2
     DEF DeleteRow, RemoveRow, Go, RowsTypeOK, StoredIsHeld, ManagementTypeOK, Steps, RequestInv,
         StepFitsOperation
<1>3. CASE RunPublished(r)
  <2>1. [workflow |-> target[r], definition |-> used[r], by |-> r] \in Runs
    BY <1>1, <1>3 DEF RunPublished, RequestInv, Runs
  <2> QED
    BY <2>1, <1>1, <1>3
       DEF RunPublished, Go, RowsTypeOK, StoredIsHeld, ManagementTypeOK, Steps, RequestInv,
           StepFitsOperation
<1>4. CASE PublishRow(r)
  <2>1. used[r] \in Definitions /\ target[r] \in Workflows
    BY <1>1, <1>4 DEF PublishRow, RequestInv
  <2>2. published' \in [Workflows -> Seq(Publications)]
    BY <2>1, <1>1, <1>4, PublicationWritten DEF PublishRow
  <2> QED
    BY <2>1, <2>2, <1>1, <1>4
       DEF PublishRow, Go, RowsTypeOK, StoredIsHeld, ManagementTypeOK, Steps, RequestInv,
           StepFitsOperation
<1>5. CASE CreateVersion(r)
  <2>1. <<target[r], [definition |-> used[r], binding |-> binding[r], by |-> r]>>
          \in Workflows \X Publications
    BY <1>1, <1>5 DEF CreateVersion, RequestInv, Publications
  <2> QED
    BY <2>1, <1>1, <1>5
       DEF CreateVersion, Go, RowsTypeOK, StoredIsHeld, ManagementTypeOK, Steps, RequestInv,
           StepFitsOperation
<1> QED
  BY <1>2, <1>3, <1>4, <1>5

LEMMA BindingTypes ==
  ASSUME TypeInv, NEW r \in Requests, NEW n \in Nodes, LookUp(r, n)
  PROVE  RequestTypes'
<1> USE DEF RequestTypes
<1>1. ManagementTypeOK /\ RowsTypeOK /\ (\A s \in Requests : RequestInv(s))
  BY DEF TypeInv, TypeOK
<1>2. Len(CredentialScopes(r)) \in 2..3
  BY DEF CredentialScopes
<1>3. /\ at' = at \/ at' = [at EXCEPT ![r] = "failed"]
      /\ at[r] = "binding"
      /\ UNCHANGED <<ask, target, used, listed, active, began>>
  BY DEF LookUp, Go
<1>4. binding' \in [Requests -> [Nodes -> Credentials \cup {None}]]
  <2>1. binding[r] \in [Nodes -> Credentials \cup {None}] /\ active \subseteq Credentials
    BY <1>1 DEF ManagementTypeOK
  <2> QED
    BY <2>1, <1>1 DEF LookUp, ManagementTypeOK
<1>5. scopeAt' \in [Requests -> [Nodes -> 1..3]]
  <2>1. scopeAt[r] \in [Nodes -> 1..3]
    BY <1>1 DEF ManagementTypeOK
  <2>2. \A k \in 1..3, l \in 2..3 : k < l => k + 1 \in 1..3
    OBVIOUS
  <2>3. scopeAt[r][n] \in 1..3
    BY <2>1
  <2>4. scopeAt[r][n] < Len(CredentialScopes(r)) => scopeAt[r][n] + 1 \in 1..3
    BY <2>2, <2>3, <1>2
  <2> QED
    BY <2>1, <2>4, <1>1 DEF LookUp, ManagementTypeOK
<1> QED
  BY <1>1, <1>3, <1>4, <1>5 DEF ManagementTypeOK, Steps, RequestInv, StepFitsOperation

LEMMA ManagementTypes ==
  ASSUME TypeInv, ManagementNext
  PROVE  RequestTypes' /\ RowTypes'
<1>1. ASSUME NEW c \in active, Deactivate(c) PROVE RequestTypes' /\ RowTypes'
  BY <1>1, ReadingKeepsRows
     DEF Deactivate, TypeInv, TypeOK, RequestTypes, ManagementTypeOK, RequestInv, StepFitsOperation
<1>2. ASSUME NEW r \in Requests,
             \/ ReceiveRequest(r) \/ ReceiveReference(r) \/ FindByName(r) \/ FindSimilar(r)
             \/ ListOwn(r) \/ ListShared(r) \/ RequestFails(r)
      PROVE  RequestTypes' /\ RowTypes'
  BY <1>2, ResolvingTypes, ReadingKeepsRows
     DEF ReceiveRequest, ReceiveReference, Arrive, FindByName, FindSimilar, ListOwn, ListShared,
         RequestFails
<1>3. ASSUME NEW r \in Requests, LoadRow(r) \/ LoadPublished(r) PROVE RequestTypes' /\ RowTypes'
  BY <1>3, LoadingTypes, ReadingKeepsRows DEF LoadRow, LoadPublished
<1>4. ASSUME NEW r \in Requests, NEW n \in Nodes, LookUp(r, n) PROVE RequestTypes' /\ RowTypes'
  BY <1>4, BindingTypes, ReadingKeepsRows DEF LookUp
<1> QED
  BY <1>1, <1>2, <1>3, <1>4, SavingTypes, ActingTypes DEF ManagementNext

-------------------------------------------------------------------------------
(* Types of agents. *)

AgentTypes == AgentTypeOK /\ \A b \in Agents : AgentInv(b)

LEMMA OrdersAreTyped ==
  ASSUME TypeInv, NEW a \in Agents, agentAt[a] # "idle"
  PROVE  /\ order[a] \in Orders /\ a \in Actors
         /\ order[a].kind \in {"operation", "batch", "swarm"} /\ order[a].confirmed \in BOOLEAN
         /\ order[a].items \in Seq(Item) /\ Len(order[a].items) \in Nat \ {0}
         /\ order[a].kind = "operation" => Len(order[a].items) = 1 /\ order[a].items[1].op # "detach"
         /\ position[a] \in Nat
<1>1. order[a] \in Orders /\ position[a] \in Nat
  BY DEF TypeInv, TypeOK, AgentTypeOK, AgentInv
<1>2. order[a] \in Order /\ order[a].items # <<>> /\ a \in Actors
  BY <1>1, AgentAssumption
<1>3. /\ order[a].items \in Seq(Item) /\ order[a].confirmed \in BOOLEAN
      /\ order[a].kind \in {"operation", "batch", "swarm"}
  BY <1>2 DEF Order
<1>4. Len(order[a].items) \in Nat \ {0}
  BY <1>2, <1>3
<1>5. order[a].kind = "operation" => Len(order[a].items) = 1 /\ order[a].items[1].op # "detach"
  BY <1>1, AgentAssumption
<1> QED
  BY <1>1, <1>2, <1>3, <1>4, <1>5

LEMMA ItemsAreTyped ==
  ASSUME TypeInv, NEW a \in Agents, agentAt[a] # "idle", position[a] < Len(order[a].items)
  PROVE  /\ At(a) \in Item /\ position[a] + 1 \in 1..Len(order[a].items)
         /\ At(a).id \in Workflows \cup {None} /\ At(a).name \in Names \cup {None}
         /\ At(a).definition \in Definitions \cup {None} /\ At(a).confirmed \in BOOLEAN
         /\ At(a).previous \in Seq(Workflows \cup {None}) /\ At(a).parent \in Parents
         /\ At(a).op \in {"create", "update", "publish", "execute", "delete", "attach", "detach"}
         /\ At(a).op = "create" => At(a).name \in Names /\ At(a).definition \in Definitions
         /\ order[a].kind = "swarm" => At(a).op = "create"
         /\ order[a].kind = "operation" => position[a] = 0
<1>1. /\ position[a] + 1 \in 1..Len(order[a].items) /\ order[a].items \in Seq(Item)
      /\ order[a] \in Orders
  BY OrdersAreTyped
<1>2. At(a) \in Item
  BY <1>1 DEF At
<1>3. /\ At(a).op = "create" => At(a).name # None /\ At(a).definition # None
      /\ order[a].kind = "swarm" => At(a).op = "create"
  BY <1>1, AgentAssumption DEF At
<1>4. order[a].kind = "operation" => position[a] = 0
  <2> DEFINE p == position[a]
             n == Len(order[a].items)
  <2>1. p \in Nat /\ p < n /\ (order[a].kind = "operation" => n = 1)
    BY OrdersAreTyped
  <2> HIDE DEF p, n
  <2>2. order[a].kind = "operation" => p = 0
    BY <2>1
  <2> QED
    BY <2>2 DEF p
<1> QED
  BY <1>1, <1>2, <1>3, <1>4 DEF Item

LEMMA LeastExists ==
  ASSUME NEW S, S \subseteq Nat, S # {}
  PROVE  \E k \in S : \A j \in S : k <= j
<1>1. IsWellFoundedOn(OpToRel(<, Nat), Nat)
  BY NatLessThanWellFounded
<1>2. PICK k \in S : \A j \in S : <<j, k>> \notin OpToRel(<, Nat)
  BY <1>1, WFMin
<1>3. \A j \in S : ~ (j < k)
  BY <1>2 DEF OpToRel
<1> QED
  BY <1>3

\* The workflow an item is about is one it names or one of the earlier results.
LEMMA GivenIsNamed ==
  ASSUME TypeInv, NEW a \in Agents, agentAt[a] # "idle", position[a] < Len(order[a].items)
  PROVE  LET w == Given(order[a], At(a))
         IN  /\ w \in Workflows \cup {None}
             /\ w # None => w = At(a).id \/ \E k \in DOMAIN At(a).previous : w = At(a).previous[k]
<1> DEFINE s == At(a).previous
           known == {k \in DOMAIN s : s[k] # None}
<1>1. s \in Seq(Workflows \cup {None}) /\ At(a).id \in Workflows \cup {None}
  BY ItemsAreTyped
<1>2. ASSUME known # {}
      PROVE  \E k \in DOMAIN s : FromPrevious(s) = s[k]
  <2>1. known \subseteq Nat
    BY <1>1
  <2>2. PICK k \in known : \A j \in known : k <= j
    BY <1>2, <2>1, LeastExists
  <2>3. (CHOOSE i \in known : \A j \in known : i <= j) \in known
    BY <2>2
  <2> QED
    BY <1>2, <2>3 DEF FromPrevious
<1>3. known = {} => FromPrevious(s) = None
  BY DEF FromPrevious
<1>4. \A k \in DOMAIN s : s[k] \in Workflows \cup {None}
  BY <1>1
<1> QED
  BY <1>1, <1>2, <1>3, <1>4 DEF Given

\* Steps that deal with an item and go on to the next.
LEMMA NextItemTypes ==
  ASSUME TypeInv, NEW a \in Agents, NextItem(a), UNCHANGED order, agentAt[a] # "idle",
         agentAt[a] # "refused",
         links' \subseteq Parents \X Workflows, created' \in [Agents -> SUBSET Workflows]
  PROVE  AgentTypes'
<1>1. AgentTypeOK /\ \A b \in Agents : AgentInv(b)
  BY DEF TypeInv, TypeOK
<1>2. AgentTypeOK'
  BY <1>1 DEF NextItem, AgentTypeOK
<1>3. ASSUME NEW b \in Agents PROVE AgentInv(b)'
  BY <1>1 DEF NextItem, AgentTypeOK, AgentInv, At
<1> QED
  BY <1>2, <1>3 DEF AgentTypes

LEMMA OrderingTypes ==
  ASSUME TypeInv, NEW a \in Agents, ReceiveOrder(a) \/ RejectItem(a) \/ Answer(a)
  PROVE  AgentTypes' /\ RowTypes'
<1>1. AgentTypeOK /\ (\A b \in Agents : AgentInv(b)) /\ RowTypes'
  BY ReadingKeepsRows DEF TypeInv, TypeOK, ReceiveOrder, RejectItem, Answer
<1>2. CASE ReceiveOrder(a)
  <2>1. PICK q \in Orders :
          /\ order' = [order EXCEPT ![a] = q]
          /\ agentAt' = [agentAt EXCEPT ![a] = IF MustConfirm(q) /\ ~q.confirmed THEN "refused"
                                                                                 ELSE "working"]
    BY <1>2 DEF ReceiveOrder
  <2>2. UNCHANGED <<position, chosen, created, links>>
    BY <1>2 DEF ReceiveOrder
  <2>3. AgentTypeOK'
    BY <2>1, <2>2, <1>1 DEF AgentTypeOK
  <2>4. ASSUME NEW b \in Agents PROVE AgentInv(b)'
    <3>1. CASE b = a
      <4>1. order'[a] = q /\ agentAt'[a] \in {"refused", "working"}
            /\ (agentAt'[a] = "working" /\ MustConfirm(q) => q.confirmed)
        BY <2>1, <1>1 DEF AgentTypeOK
      <4> QED
        BY <4>1, <3>1 DEF AgentInv, MustConfirm
    <3>2. CASE b # a
      <4>1. order'[b] = order[b] /\ agentAt'[b] = agentAt[b] /\ position'[b] = position[b]
            /\ chosen'[b] = chosen[b] /\ AgentInv(b)
        BY <2>1, <2>2, <3>2, <1>1 DEF AgentTypeOK
      <4> QED
        BY <4>1 DEF AgentInv, MustConfirm, At
    <3> QED
      BY <3>1, <3>2
  <2> QED
    BY <2>3, <2>4, <1>1 DEF AgentTypes
<1>3. CASE RejectItem(a) \/ Answer(a)
  <2>1. \E step \in {"rejected", "answered"} : agentAt' = [agentAt EXCEPT ![a] = step]
    BY <1>3 DEF RejectItem, Answer
  <2>2. agentAt[a] \notin {"idle", "refused"}
    BY <1>3 DEF RejectItem, Answer
  <2>3. UNCHANGED <<order, position, chosen, created, links>>
    BY <1>3 DEF RejectItem, Answer
  <2>4. AgentTypeOK'
    BY <2>1, <2>3, <1>1 DEF AgentTypeOK
  <2>5. ASSUME NEW b \in Agents PROVE AgentInv(b)'
    BY <2>1, <2>2, <2>3, <1>1 DEF AgentTypeOK, AgentInv, MustConfirm, At
  <2> QED
    BY <2>4, <2>5, <1>1 DEF AgentTypes
<1> QED
  BY <1>2, <1>3

LEMMA CreatingTypes ==
  ASSUME TypeInv, NEW a \in Agents, CreateItem(a)
  PROVE  AgentTypes' /\ RowTypes'
<1>1. AgentTypeOK /\ (\A b \in Agents : AgentInv(b)) /\ RowsTypeOK /\ StoredIsHeld
  BY DEF TypeInv, TypeOK
<1>2. /\ agentAt[a] = "working" /\ position[a] < Len(order[a].items) /\ At(a).op = "create"
      /\ UNCHANGED <<published, versions, runs, order, links>>
  BY DEF CreateItem, Working
<1>3. a \in Actors /\ At(a).name \in Names /\ At(a).definition \in Definitions
  BY <1>2, OrdersAreTyped, ItemsAreTyped
<1>4. PICK w \in Workflows :
        /\ AddRow(w, At(a).name, At(a).definition, a)
        /\ created' = [created EXCEPT ![a] = @ \cup {w}]
        /\ IF At(a).executes /\ order[a].kind # "batch"
           THEN /\ agentAt' = [agentAt EXCEPT ![a] = "starting"]
                /\ chosen' = [chosen EXCEPT ![a] = w]
                /\ UNCHANGED position
           ELSE NextItem(a)
  BY DEF CreateItem
<1>5. RowTypes'
  <2>1. /\ held' \in [Workflows -> Seq(Contents)]
        /\ Len(held'[w]) = Len(held[w]) + 1
        /\ \A v \in Workflows : v # w => held'[v] = held[v]
    BY <1>1, <1>3, <1>4, DraftWritten DEF AddRow
  <2>2. held'[w] # <<>>
    BY <2>1, <1>1 DEF RowsTypeOK
  <2> QED
    BY <2>1, <2>2, <1>1, <1>2, <1>4 DEF RowTypes, RowsTypeOK, StoredIsHeld, AddRow
<1>6. created' \in [Agents -> SUBSET Workflows] /\ links' \subseteq Parents \X Workflows
  BY <1>1, <1>2, <1>4 DEF AgentTypeOK
<1>7. CASE At(a).executes /\ order[a].kind # "batch"
  <2>1. /\ agentAt' = [agentAt EXCEPT ![a] = "starting"]
        /\ chosen' = [chosen EXCEPT ![a] = w]
        /\ UNCHANGED <<position, order>>
    BY <1>2, <1>4, <1>7
  <2>2. AgentTypeOK'
    BY <2>1, <1>1, <1>6 DEF AgentTypeOK
  <2>3. ASSUME NEW b \in Agents PROVE AgentInv(b)'
    BY <2>1, <1>1, <1>2 DEF AgentTypeOK, AgentInv, MustConfirm, At
  <2> QED
    BY <2>2, <2>3, <1>5 DEF AgentTypes
<1>8. CASE ~(At(a).executes /\ order[a].kind # "batch")
  BY <1>2, <1>4, <1>5, <1>6, <1>8, NextItemTypes
<1> QED
  BY <1>7, <1>8

\* Steps that write a row for an item, or execute it.
LEMMA WritingTypes ==
  ASSUME TypeInv, NEW a \in Agents,
         ExecuteCreated(a) \/ UpdateItem(a) \/ PublishItem(a) \/ ExecuteItem(a) \/ DeleteItem(a)
  PROVE  AgentTypes' /\ RowTypes'
<1> DEFINE w == Given(order[a], At(a))
<1>1. AgentTypeOK /\ (\A b \in Agents : AgentInv(b)) /\ RowsTypeOK /\ StoredIsHeld
  BY DEF TypeInv, TypeOK
<1>2. /\ agentAt[a] \in {"working", "starting"} /\ position[a] < Len(order[a].items)
      /\ agentAt[a] # "idle" /\ agentAt[a] # "refused"
      /\ NextItem(a) /\ UNCHANGED <<order, created, links>>
  BY <1>1 DEF ExecuteCreated, UpdateItem, PublishItem, ExecuteItem, DeleteItem, Working, AgentInv
<1>3. AgentTypes'
  BY <1>1, <1>2, NextItemTypes DEF AgentTypeOK
<1>4. a \in Actors /\ At(a).name \in Names \cup {None} /\ At(a).definition \in Definitions \cup {None}
  BY <1>2, OrdersAreTyped, ItemsAreTyped
<1>5. CASE ExecuteCreated(a)
  <2>1. At(a).definition \in Definitions /\ chosen[a] \in Workflows
    BY <1>1, <1>2, <1>5, ItemsAreTyped DEF ExecuteCreated, AgentInv
  <2>2. [workflow |-> chosen[a], definition |-> At(a).definition, by |-> a] \in Runs
    BY <2>1, <1>4 DEF Runs
  <2> QED
    BY <2>2, <1>1, <1>3, <1>5 DEF ExecuteCreated, RowTypes, RowsTypeOK, StoredIsHeld
<1>6. CASE UpdateItem(a)
  <2> DEFINE n == Patched(At(a).name, Draft(w).name)
             d == Patched(At(a).definition, Draft(w).definition)
  <2>1. w \in stored /\ WriteDraft(w, n, d, a) /\ UNCHANGED <<stored, published, versions, runs>>
    BY <1>6 DEF UpdateItem
  <2>2. w \in Workflows /\ n \in Names /\ d \in Definitions
    BY <2>1, <1>4, DraftIsContents DEF Patched
  <2> HIDE DEF n, d, w
  <2>3. /\ held' \in [Workflows -> Seq(Contents)]
        /\ Len(held'[w]) = Len(held[w]) + 1
        /\ \A v \in Workflows : v # w => held'[v] = held[v]
    BY <2>1, <2>2, <1>1, <1>4, DraftWritten
  <2>4. held'[w] # <<>>
    BY <2>2, <2>3, <1>1 DEF RowsTypeOK
  <2> QED
    BY <2>1, <2>3, <2>4, <1>1, <1>3 DEF RowTypes, RowsTypeOK, StoredIsHeld
<1>7. CASE PublishItem(a)
  <2> DEFINE d == Draft(w).definition
             none == [n \in Nodes |-> None]
  <2>1. w \in stored /\ WritePublished(w, d, none, a) /\ UNCHANGED <<stored, held, versions, runs>>
    BY <1>7 DEF PublishItem
  <2>2. w \in Workflows /\ d \in Definitions /\ none \in [Nodes -> Credentials \cup {None}]
    BY <2>1, DraftIsContents
  <2> HIDE DEF d, w, none
  <2>3. published' \in [Workflows -> Seq(Publications)]
    BY <2>1, <2>2, <1>1, <1>4, PublicationWritten
  <2> QED
    BY <2>1, <2>3, <1>1, <1>3 DEF RowTypes, RowsTypeOK, StoredIsHeld
<1>8. CASE ExecuteItem(a)
  <2>1. w \in stored
        /\ runs' = runs \cup {[workflow |-> w, definition |-> Draft(w).definition, by |-> a]}
        /\ UNCHANGED <<stored, held, published, versions>>
    BY <1>8 DEF ExecuteItem
  <2>2. [workflow |-> w, definition |-> Draft(w).definition, by |-> a] \in Runs
    BY <2>1, <1>4, DraftIsContents DEF Runs
  <2> QED
    BY <2>1, <2>2, <1>1, <1>3 DEF RowTypes, RowsTypeOK, StoredIsHeld
<1>9. CASE DeleteItem(a)
  BY <1>1, <1>3, <1>9 DEF DeleteItem, RemoveRow, RowTypes, RowsTypeOK, StoredIsHeld
<1> QED
  BY <1>5, <1>6, <1>7, <1>8, <1>9

LEMMA LinkingTypes ==
  ASSUME TypeInv, NEW a \in Agents, RefuseItem(a) \/ ResolveChild(a) \/ Link(a)
  PROVE  AgentTypes' /\ RowTypes'
<1>1. /\ AgentTypeOK /\ (\A b \in Agents : AgentInv(b)) /\ RowTypes' /\ RowsTypeOK
      /\ UNCHANGED <<order, created>>
  BY ReadingKeepsRows DEF TypeInv, TypeOK, RefuseItem, ResolveChild, Link
<1>2. agentAt[a] \in {"working", "linking"} /\ position[a] < Len(order[a].items)
      /\ agentAt[a] # "idle" /\ agentAt[a] # "refused"
  BY <1>1 DEF RefuseItem, ResolveChild, Link, Working, AgentInv
<1>3. CASE RefuseItem(a)
  BY <1>1, <1>2, <1>3, NextItemTypes DEF RefuseItem, AgentTypeOK
<1>4. CASE ResolveChild(a)
  <2>1. Given(order[a], At(a)) \in Workflows \cup {None}
    BY <1>2, GivenIsNamed
  <2>2. Named(At(a).name) \subseteq Workflows
    BY <1>1 DEF Named, RowsTypeOK
  <2>3. chosen' \in [Agents -> Workflows \cup {None}]
        /\ \A b \in Agents : b # a => chosen'[b] = chosen[b]
    BY <2>1, <2>2, <1>1, <1>4 DEF ResolveChild, AgentTypeOK
  <2>4. /\ agentAt' = [agentAt EXCEPT ![a] = "linking"]
        /\ UNCHANGED <<order, position, created, links>>
        /\ At(a).op \in {"attach", "detach"} /\ agentAt[a] = "working"
        /\ order[a].kind = "batch" => ~Destructive(At(a).op) \/ At(a).confirmed
    BY <1>4 DEF ResolveChild, Working
  <2>5. AgentTypeOK'
    BY <2>3, <2>4, <1>1 DEF AgentTypeOK
  <2>6. ASSUME NEW b \in Agents PROVE AgentInv(b)'
    <3>1. CASE b = a
      BY <2>4, <1>1, <1>2, <3>1 DEF AgentTypeOK, AgentInv, MustConfirm, At, Destructive
    <3>2. CASE b # a
      <4>1. order'[b] = order[b] /\ agentAt'[b] = agentAt[b] /\ position'[b] = position[b]
            /\ chosen'[b] = chosen[b] /\ AgentInv(b)
        BY <2>3, <2>4, <3>2, <1>1 DEF AgentTypeOK
      <4> QED
        BY <4>1 DEF AgentInv, MustConfirm, At
    <3> QED
      BY <3>1, <3>2
  <2> QED
    BY <2>5, <2>6, <1>1 DEF AgentTypes
<1>5. CASE Link(a)
  <2>1. At(a).parent \in Parents /\ chosen[a] \in Workflows \cup {None} /\ links \subseteq Parents \X Workflows
    BY <1>1, <1>2, ItemsAreTyped DEF AgentTypeOK
  <2>2. links' \subseteq Parents \X Workflows
    BY <2>1, <1>5 DEF Link
  <2> QED
    BY <2>2, <1>1, <1>2, <1>5, NextItemTypes DEF Link, AgentTypeOK
<1> QED
  BY <1>3, <1>4, <1>5

LEMMA AgentNextTypes ==
  ASSUME TypeInv, AgentNext
  PROVE  AgentTypes' /\ RowTypes'
BY OrderingTypes, CreatingTypes, WritingTypes, LinkingTypes DEF AgentNext

-------------------------------------------------------------------------------
(* The type invariant. *)

LEMMA InitTypes == Init => TypeInv
<1> SUFFICES ASSUME Init PROVE TypeInv
  OBVIOUS
<1>1. RowTypes
  <2>1. \A w \in Workflows : First[w] # None => First[w] \in Contents
    BY RowsAssumption DEF Contents
  <2>2. \A w \in Workflows : First[w] # None => <<First[w]>> \in Seq(Contents) /\ <<First[w]>> # <<>>
    BY <2>1
  <2> QED
    BY <2>2 DEF Init, RowsInit, RowTypes, RowsTypeOK, StoredIsHeld
<1>2. RequestTypes
  BY ManagementAssumption
     DEF Init, ManagementInit, RequestTypes, ManagementTypeOK, Steps, RequestInv, StepFitsOperation
<1>3. AgentTypes
  BY DEF Init, AgentInit, AgentTypes, AgentTypeOK, AgentInv
<1> QED
  BY <1>1, <1>2, <1>3 DEF TypeInv, TypeOK, RowTypes, RequestTypes, AgentTypes

LEMMA NextTypes == TypeInv /\ [Next]_vars => TypeInv'
<1> SUFFICES ASSUME TypeInv, [Next]_vars PROVE RowTypes' /\ RequestTypes' /\ AgentTypes'
  BY DEF TypeInv, TypeOK, RowTypes, RequestTypes, AgentTypes
<1>1. UNCHANGED agentVars => AgentTypes'
  BY DEF TypeInv, TypeOK, agentVars, AgentTypes, AgentTypeOK, AgentInv, At, MustConfirm
<1>2. UNCHANGED managementVars => RequestTypes'
  BY DEF TypeInv, TypeOK, managementVars, RequestTypes, ManagementTypeOK, RequestInv,
         StepFitsOperation
<1>3. CASE ManagementNext /\ UNCHANGED agentVars
  BY <1>1, <1>3, ManagementTypes
<1>4. CASE AgentNext /\ UNCHANGED managementVars
  BY <1>2, <1>4, AgentNextTypes
<1>5. CASE UNCHANGED vars
  BY <1>1, <1>2, <1>5, ReadingKeepsRows DEF vars
<1> QED
  BY <1>3, <1>4, <1>5 DEF Next

\* The types, and what they rest on: every request and agent is where its operation can be, and
\* holds the ids and definitions its next step needs.
THEOREM TypeInvariant == Spec => []TypeInv
BY InitTypes, NextTypes, PTL DEF Spec

\* All variables keep their types.
THEOREM TypeCorrect == Spec => []TypeOK
<1>1. TypeInv => TypeOK
  BY DEF TypeInv
<1> QED
  BY <1>1, TypeInvariant, PTL

-------------------------------------------------------------------------------
(* What a step may write: rows and publications are appended to, and a     *)
(* request at work keeps what it is about.                                 *)

LEMMA HeldGrows ==
  ASSUME TypeInv, [Next]_vars, NEW w \in Workflows
  PROVE  held'[w] = held[w] \/ \E c \in Contents : held'[w] = Append(held[w], c)
<1>1. RowsTypeOK
  BY DEF TypeInv, TypeOK
<1>2. ASSUME NEW v \in Workflows, NEW n \in Names, NEW d \in Definitions, NEW x \in Actors,
             WriteDraft(v, n, d, x)
      PROVE  held'[w] = held[w] \/ \E c \in Contents : held'[w] = Append(held[w], c)
  <2>1. [name |-> n, definition |-> d, by |-> x] \in Contents
    BY DEF Contents
  <2> QED
    BY <2>1, <1>1, <1>2, DraftWritten
<1>3. ASSUME NEW r \in Requests, SaveRow(r) \/ InsertRow(r)
      PROVE  held'[w] = held[w] \/ \E c \in Contents : held'[w] = Append(held[w], c)
  <2>1. /\ ask[r].name \in Names /\ ask[r].definition \in Definitions /\ r \in Actors
    BY <1>3, AsksAreTyped DEF SaveRow, InsertRow
  <2>2. PICK v \in Workflows : WriteDraft(v, ask[r].name, ask[r].definition, r)
    BY <1>1, <1>3 DEF SaveRow, InsertRow, AddRow, RowsTypeOK
  <2> QED
    BY <2>1, <2>2, <1>2
<1>4. ASSUME NEW a \in Agents, CreateItem(a)
      PROVE  held'[w] = held[w] \/ \E c \in Contents : held'[w] = Append(held[w], c)
  <2>1. At(a).name \in Names /\ At(a).definition \in Definitions /\ a \in Actors
    BY <1>4, OrdersAreTyped, ItemsAreTyped DEF CreateItem, Working
  <2>2. PICK v \in Workflows : WriteDraft(v, At(a).name, At(a).definition, a)
    BY <1>4 DEF CreateItem, AddRow
  <2> QED
    BY <2>1, <2>2, <1>2
<1>5. ASSUME NEW a \in Agents, UpdateItem(a)
      PROVE  held'[w] = held[w] \/ \E c \in Contents : held'[w] = Append(held[w], c)
  <2> DEFINE v == Given(order[a], At(a))
             n == Patched(At(a).name, Draft(v).name)
             d == Patched(At(a).definition, Draft(v).definition)
  <2>1. At(a).name \in Names \cup {None} /\ At(a).definition \in Definitions \cup {None}
        /\ a \in Actors
    BY <1>5, OrdersAreTyped, ItemsAreTyped DEF UpdateItem, Working
  <2>2. v \in stored /\ WriteDraft(v, n, d, a)
    BY <1>5 DEF UpdateItem
  <2>3. v \in Workflows /\ n \in Names /\ d \in Definitions
    BY <2>1, <2>2, DraftIsContents DEF Patched
  <2> HIDE DEF n, d, v
  <2> QED
    BY <2>1, <2>2, <2>3, <1>2
<1>6. ASSUME UNCHANGED held
      PROVE  held'[w] = held[w] \/ \E c \in Contents : held'[w] = Append(held[w], c)
  BY <1>6
<1>7. CASE ManagementNext
  BY <1>3, <1>6, <1>7
     DEF ManagementNext, ReceiveRequest, ReceiveReference, Arrive, FindByName, FindSimilar,
         ListOwn, ListShared, LoadRow, LoadPublished, DeleteRow, RunPublished, PublishRow,
         CreateVersion, RequestFails, LookUp, Deactivate, rowVars
<1>8. CASE AgentNext
  BY <1>4, <1>5, <1>6, <1>8
     DEF AgentNext, ReceiveOrder, RefuseItem, ExecuteCreated, PublishItem, ExecuteItem, DeleteItem,
         ResolveChild, Link, RejectItem, Answer, rowVars
<1>9. CASE UNCHANGED vars
  BY <1>6, <1>9 DEF vars, rowVars
<1> QED
  BY <1>7, <1>8, <1>9 DEF Next

\* A publication is one of PublishRow or one of PublishItem.
LEMMA PublishedGrows ==
  ASSUME TypeInv, [Next]_vars, NEW w \in Workflows
  PROVE  \/ published'[w] = published[w]
         \/ \E r \in Requests :
              /\ PublishRow(r) /\ w = target[r] /\ w \in Workflows
              /\ published'[w] = Append(published[w],
                   [definition |-> used[r], binding |-> binding[r], by |-> r])
         \/ \E a \in Agents, p \in Publications :
              p.by = a /\ published'[w] = Append(published[w], p)
<1>1. RowsTypeOK /\ ManagementTypeOK
  BY DEF TypeInv, TypeOK
<1>2. ASSUME NEW r \in Requests, PublishRow(r), published'[w] # published[w]
      PROVE  /\ w = target[r]
             /\ published'[w] = Append(published[w],
                  [definition |-> used[r], binding |-> binding[r], by |-> r])
  <2>1. /\ target[r] \in Workflows /\ used[r] \in Definitions /\ r \in Actors
        /\ binding[r] \in [Nodes -> Credentials \cup {None}]
    BY <1>1, <1>2, ManagementAssumption DEF PublishRow, TypeInv, RequestInv, ManagementTypeOK
  <2> QED
    BY <2>1, <1>1, <1>2, PublicationWritten DEF PublishRow
<1>3. ASSUME NEW a \in Agents, PublishItem(a), published'[w] # published[w]
      PROVE  \E p \in Publications : p.by = a /\ published'[w] = Append(published[w], p)
  <2> DEFINE v == Given(order[a], At(a))
             d == Draft(v).definition
             none == [n \in Nodes |-> None]
  <2>1. v \in stored /\ WritePublished(v, d, none, a) /\ a \in Actors
    BY <1>3, OrdersAreTyped DEF PublishItem, Working
  <2>2. v \in Workflows /\ d \in Definitions /\ none \in [Nodes -> Credentials \cup {None}]
    BY <2>1, DraftIsContents
  <2> HIDE DEF v, d, none
  <2>3. w = v /\ published'[w] = Append(published[w], [definition |-> d, binding |-> none, by |-> a])
    BY <2>1, <2>2, <1>1, <1>3, PublicationWritten
  <2>4. [definition |-> d, binding |-> none, by |-> a] \in Publications
    BY <2>1, <2>2 DEF Publications
  <2> QED
    BY <2>3, <2>4
<1>4. CASE ManagementNext
  BY <1>2, <1>4
     DEF ManagementNext, ReceiveRequest, ReceiveReference, Arrive, FindByName, FindSimilar,
         ListOwn, ListShared, LoadRow, LoadPublished, SaveRow, InsertRow, DeleteRow, RunPublished,
         CreateVersion, RequestFails, LookUp, Deactivate, rowVars
<1>5. CASE AgentNext
  BY <1>3, <1>5
     DEF AgentNext, ReceiveOrder, RefuseItem, CreateItem, ExecuteCreated, UpdateItem, ExecuteItem,
         DeleteItem, ResolveChild, Link, RejectItem, Answer, rowVars
<1>6. CASE UNCHANGED vars
  BY <1>6 DEF vars, rowVars
<1> QED
  BY <1>4, <1>5, <1>6 DEF Next

LEMMA RequestsKept ==
  ASSUME TypeInv, [Next]_vars, NEW r \in Requests, at[r] # "idle"
  PROVE  ask'[r] = ask[r] /\ began'[r] = began[r] /\ at'[r] # "idle"
<1>1. ManagementTypeOK
  BY DEF TypeInv, TypeOK
<1>2. ask'[r] = ask[r] /\ began'[r] = began[r]
  BY <1>1
     DEF Next, vars, managementVars, ManagementTypeOK, ManagementNext, ReceiveRequest,
         ReceiveReference, Arrive, FindByName, FindSimilar, ListOwn, ListShared, LoadRow,
         LoadPublished, SaveRow, InsertRow, DeleteRow, RunPublished, PublishRow, CreateVersion,
         RequestFails, LookUp, Deactivate
<1>3. RequestInv(r) /\ RequestInv(r)'
  BY NextTypes DEF TypeInv
<1> QED
  BY <1>2, <1>3 DEF RequestInv

LEMMA IdleUntilReceived ==
  ASSUME TypeInv, [Next]_vars, NEW r \in Requests, at[r] = "idle", at'[r] # "idle"
  PROVE  ReceiveRequest(r) \/ ReceiveReference(r)
<1>1. at \in [Requests -> Steps]
  BY DEF TypeInv, TypeOK, ManagementTypeOK
<1>2. ASSUME NEW s \in Requests, at[s] # "idle", NEW step, at' = [at EXCEPT ![s] = step]
      PROVE  FALSE
  BY <1>1, <1>2
<1>3. ASSUME NEW s \in Requests, ReceiveRequest(s) \/ ReceiveReference(s)
      PROVE  ReceiveRequest(r) \/ ReceiveReference(r)
  BY <1>1, <1>3 DEF ReceiveRequest, ReceiveReference, Arrive, Go
<1>4. ASSUME NEW s \in Requests, FindByName(s) \/ FindSimilar(s) \/ ListShared(s) PROVE FALSE
  BY <1>1, <1>4 DEF FindByName, FindSimilar, ListShared, Resolve, Go
<1>5. ASSUME NEW s \in Requests, ListOwn(s) \/ LoadRow(s) \/ LoadPublished(s) PROVE FALSE
  BY <1>2, <1>5 DEF ListOwn, LoadRow, LoadPublished, Go
<1>6. ASSUME NEW s \in Requests, SaveRow(s) \/ InsertRow(s) \/ DeleteRow(s) \/ RunPublished(s) PROVE FALSE
  BY <1>2, <1>6 DEF SaveRow, InsertRow, DeleteRow, RunPublished, Go
<1>7. ASSUME NEW s \in Requests, PublishRow(s) \/ CreateVersion(s) \/ RequestFails(s) PROVE FALSE
  BY <1>2, <1>7 DEF PublishRow, CreateVersion, RequestFails, Go
<1>8. ASSUME NEW s \in Requests, NEW n \in Nodes, LookUp(s, n) PROVE FALSE
  BY <1>1, <1>8 DEF LookUp, Go
<1>9. ~UNCHANGED at
  OBVIOUS
<1> QED
  BY <1>3, <1>4, <1>5, <1>6, <1>7, <1>8, <1>9
     DEF Next, vars, managementVars, ManagementNext, Deactivate

\* What had been written when a request arrived is there still.
BeganInv ==
  \A r \in Requests, w \in Workflows : at[r] # "idle" =>
    began[r][w].held <= Len(held[w]) /\ began[r][w].published <= Len(published[w])

LEMMA Lengths ==
  ASSUME TypeInv, NEW w \in Workflows
  PROVE  /\ held[w] \in Seq(Contents) /\ published[w] \in Seq(Publications)
         /\ Len(held[w]) \in Nat /\ Len(published[w]) \in Nat
         /\ \A r \in Requests : began[r][w].held \in Nat /\ began[r][w].published \in Nat
BY DEF TypeInv, TypeOK, RowsTypeOK, ManagementTypeOK

LEMMA RowsGrow ==
  ASSUME TypeInv, [Next]_vars, NEW w \in Workflows
  PROVE  /\ Len(held[w]) <= Len(held'[w]) /\ Len(published[w]) <= Len(published'[w])
         /\ Len(held'[w]) \in Nat /\ Len(published'[w]) \in Nat
         /\ \A i \in 1..Len(held[w]) : i \in 1..Len(held'[w]) /\ held'[w][i] = held[w][i]
         /\ \A i \in 1..Len(published[w]) :
              i \in 1..Len(published'[w]) /\ published'[w][i] = published[w][i]
<1>1. /\ held[w] \in Seq(Contents) /\ held'[w] \in Seq(Contents)
      /\ published[w] \in Seq(Publications) /\ published'[w] \in Seq(Publications)
  BY NextTypes DEF TypeInv, TypeOK, RowsTypeOK
<1>2. held'[w] = held[w] \/ \E c \in Contents : held'[w] = Append(held[w], c)
  BY HeldGrows
<1>3. published'[w] = published[w] \/ \E p : published'[w] = Append(published[w], p)
  BY PublishedGrows
<1>4. /\ Len(held[w]) <= Len(held'[w]) /\ Len(held'[w]) \in Nat
      /\ \A i \in 1..Len(held[w]) : i \in 1..Len(held'[w]) /\ held'[w][i] = held[w][i]
  BY <1>1, <1>2
<1>5. /\ Len(published[w]) <= Len(published'[w]) /\ Len(published'[w]) \in Nat
      /\ \A i \in 1..Len(published[w]) :
           i \in 1..Len(published'[w]) /\ published'[w][i] = published[w][i]
  BY <1>1, <1>3
<1> QED
  BY <1>4, <1>5

LEMMA BeganKept == TypeInv /\ BeganInv /\ [Next]_vars => BeganInv'
<1> SUFFICES ASSUME TypeInv, BeganInv, [Next]_vars, NEW r \in Requests, NEW w \in Workflows,
                    at'[r] # "idle"
             PROVE  /\ began'[r][w].held <= Len(held'[w])
                    /\ began'[r][w].published <= Len(published'[w])
  BY DEF BeganInv
<1>1. /\ Len(held[w]) <= Len(held'[w]) /\ Len(published[w]) <= Len(published'[w])
      /\ Len(held'[w]) \in Nat /\ Len(published'[w]) \in Nat
      /\ Len(held[w]) \in Nat /\ Len(published[w]) \in Nat
      /\ began[r][w].held \in Nat /\ began[r][w].published \in Nat
  BY RowsGrow, Lengths
<1>2. CASE at[r] # "idle"
  <2>1. began'[r] = began[r] /\ began[r][w].held <= Len(held[w])
        /\ began[r][w].published <= Len(published[w])
    BY <1>2, RequestsKept DEF BeganInv
  <2> QED
    BY <2>1, <1>1
<1>3. CASE at[r] = "idle"
  <2>1. ReceiveRequest(r) \/ ReceiveReference(r)
    BY <1>3, IdleUntilReceived
  <2>2. began'[r][w] = [held |-> Len(held[w]), published |-> Len(published[w])]
    BY <2>1 DEF ReceiveRequest, ReceiveReference, Arrive, TypeInv, TypeOK, ManagementTypeOK
  <2> QED
    BY <2>2, <1>1
<1> QED
  BY <1>2, <1>3

\* What was seen since a request arrived has been seen since then at every later moment.
LEMMA SeenSince ==
  ASSUME TypeInv, [Next]_vars, NEW r \in Requests, at[r] # "idle", NEW w \in Workflows
  PROVE  /\ \A d : HeldSince(r, w, d) => HeldSince(r, w, d)'
         /\ \A d : PublishedSince(r, w, d) => PublishedSince(r, w, d)'
         /\ BoreSince(r, w) => BoreSince(r, w)'
<1>1. ask'[r] = ask[r] /\ began'[r] = began[r]
  BY RequestsKept
<1>2. /\ \A i \in 1..Len(held[w]) : i \in 1..Len(held'[w]) /\ held'[w][i] = held[w][i]
      /\ \A i \in 1..Len(published[w]) :
           i \in 1..Len(published'[w]) /\ published'[w][i] = published[w][i]
  BY RowsGrow
<1> QED
  BY <1>1, <1>2 DEF HeldSince, PublishedSince, BoreSince

\* What a row holds, publishes or is called now has been seen since every request arrived.
LEMMA SeenNow ==
  ASSUME TypeInv, BeganInv, NEW r \in Requests, at[r] # "idle", NEW w \in Workflows
  PROVE  /\ held[w] # <<>> => HeldSince(r, w, Draft(w).definition)
         /\ published[w] # <<>> => PublishedSince(r, w, LastPublished(w).definition)
         /\ held[w] # <<>> /\ <<ask[r].name, Draft(w).name>> \in Similar => BoreSince(r, w)
<1>1. /\ held[w] \in Seq(Contents) /\ published[w] \in Seq(Publications)
      /\ began[r][w].held <= Len(held[w]) /\ began[r][w].published <= Len(published[w])
  BY Lengths DEF BeganInv
<1>2. held[w] # <<>> => Len(held[w]) \in 1..Len(held[w])
  BY <1>1
<1>3. published[w] # <<>> => Len(published[w]) \in 1..Len(published[w])
  BY <1>1
<1> QED
  BY <1>1, <1>2, <1>3 DEF HeldSince, PublishedSince, BoreSince, Draft, LastPublished

-------------------------------------------------------------------------------
(* A request changes by its own steps only. *)

StepOf(r) ==
  \/ ReceiveRequest(r) \/ ReceiveReference(r) \/ FindByName(r) \/ FindSimilar(r)
  \/ ListOwn(r) \/ ListShared(r)
  \/ LoadRow(r) \/ LoadPublished(r) \/ SaveRow(r) \/ InsertRow(r) \/ DeleteRow(r)
  \/ RunPublished(r) \/ PublishRow(r) \/ CreateVersion(r) \/ RequestFails(r)
  \/ \E n \in Nodes : LookUp(r, n)

StaysPut(r) ==
  /\ at'[r] = at[r] /\ ask'[r] = ask[r] /\ target'[r] = target[r] /\ used'[r] = used[r]
  /\ listed'[r] = listed[r] /\ binding'[r] = binding[r] /\ scopeAt'[r] = scopeAt[r]
  /\ began'[r] = began[r]

LEMMA OwnSteps ==
  ASSUME TypeInv, [Next]_vars, NEW r \in Requests
  PROVE  StaysPut(r) \/ StepOf(r)
<1>1. ManagementTypeOK
  BY DEF TypeInv, TypeOK
<1>2. ASSUME NEW s \in Requests, s # r, StepOf(s) PROVE StaysPut(r)
  <2> USE <1>1 DEF ManagementTypeOK, StaysPut, Go
  <2>1. CASE ReceiveRequest(s) \/ ReceiveReference(s) \/ ListOwn(s)
    BY <2>1, <1>2 DEF ReceiveRequest, ReceiveReference, Arrive, ListOwn
  <2>2. CASE FindByName(s) \/ FindSimilar(s) \/ ListShared(s)
    BY <2>2, <1>2 DEF FindByName, FindSimilar, ListShared, Resolve
  <2>3. CASE LoadRow(s) \/ LoadPublished(s)
    BY <2>3, <1>2 DEF LoadRow, LoadPublished
  <2>4. CASE SaveRow(s) \/ InsertRow(s) \/ DeleteRow(s) \/ RunPublished(s)
    BY <2>4, <1>2 DEF SaveRow, InsertRow, DeleteRow, RunPublished
  <2>5. CASE PublishRow(s) \/ CreateVersion(s) \/ RequestFails(s)
    BY <2>5, <1>2 DEF PublishRow, CreateVersion, RequestFails
  <2>6. CASE \E n \in Nodes : LookUp(s, n)
    BY <2>6, <1>2 DEF LookUp
  <2> QED
    BY <2>1, <2>2, <2>3, <2>4, <2>5, <2>6, <1>2 DEF StepOf
<1>3. ASSUME NEW c \in active, Deactivate(c) PROVE StaysPut(r)
  BY <1>3 DEF Deactivate, StaysPut
<1>4. CASE ManagementNext
  BY <1>2, <1>3, <1>4 DEF ManagementNext, StepOf
<1>5. CASE UNCHANGED managementVars
  BY <1>5 DEF managementVars, StaysPut
<1> QED
  BY <1>4, <1>5 DEF Next, vars, managementVars

\* While it is at work on a row, a request keeps what it has resolved and read.
LEMMA UsedKept ==
  ASSUME TypeInv, [Next]_vars, NEW r \in Requests,
         at[r] \in {"binding", "versioning", "executing", "deleting", "done", "failed", "ambiguous"}
  PROVE  target'[r] = target[r] /\ used'[r] = used[r]
BY OwnSteps
   DEF StaysPut, StepOf, ReceiveRequest, ReceiveReference, Arrive, FindByName, FindSimilar,
       ListOwn, ListShared, LoadRow, LoadPublished, SaveRow, InsertRow, DeleteRow, RunPublished,
       PublishRow, CreateVersion, RequestFails, LookUp

LEMMA BindingFollows ==
  ASSUME TypeInv, [Next]_vars, NEW r \in Requests, at'[r] \in {"binding", "versioning"},
         at[r] \notin {"binding", "versioning"}
  PROVE  /\ (LoadRow(r) /\ ask[r].op = "publish") \/ SaveRow(r) \/ InsertRow(r)
         /\ at'[r] = "binding"
<1>1. at \in [Requests -> Steps]
  BY DEF TypeInv, TypeOK, ManagementTypeOK
<1> QED
  BY <1>1, OwnSteps
     DEF StaysPut, StepOf, ReceiveRequest, ReceiveReference, Arrive, FindByName, FindSimilar,
         ListOwn, ListShared, LoadRow, LoadPublished, SaveRow, InsertRow, DeleteRow, RunPublished,
         PublishRow, CreateVersion, RequestFails, LookUp, Resolve, Go, ActStep, AfterSave

-------------------------------------------------------------------------------
(* What is published was held. *)

PublishInv ==
  /\ BeganInv
  /\ \A r \in Requests : at[r] \in {"binding", "versioning"} => HeldSince(r, target[r], used[r])
  /\ \A w \in Workflows : \A k \in 1..Len(published[w]) :
       published[w][k].by \in Requests => at[published[w][k].by] # "idle"
  /\ PublishedWasHeld

LEMMA UsedIsHeld ==
  ASSUME TypeInv, BeganInv', NEW r \in Requests, SaveRow(r) \/ InsertRow(r), at'[r] # "idle"
  PROVE  HeldSince(r, target[r], used[r])'
<1>1. /\ ask[r].name \in Names /\ ask[r].definition \in Definitions /\ r \in Actors
      /\ RowsTypeOK /\ ManagementTypeOK
  BY AsksAreTyped DEF SaveRow, InsertRow, TypeInv, TypeOK
<1>2. target'[r] \in Workflows /\ WriteDraft(target'[r], ask[r].name, ask[r].definition, r)
      /\ used'[r] = ask[r].definition
  BY <1>1 DEF SaveRow, InsertRow, AddRow, RowsTypeOK, ManagementTypeOK
<1> DEFINE w == target'[r]
           i == Len(held[w]) + 1
<1>3. /\ held'[w][i] = [name |-> ask[r].name, definition |-> ask[r].definition, by |-> r]
      /\ Len(held'[w]) = i
  BY <1>1, <1>2, DraftWritten
<1>4. Len(held[w]) \in Nat
  BY <1>2, Lengths
<1>5. i \in 1..Len(held'[w]) /\ i >= began'[r][w].held
  BY <1>2, <1>3, <1>4 DEF BeganInv
<1> QED
  BY <1>2, <1>3, <1>5 DEF HeldSince

LEMMA PublishKept == TypeInv /\ PublishInv /\ [Next]_vars => PublishInv'
<1> SUFFICES ASSUME TypeInv, PublishInv, [Next]_vars PROVE PublishInv'
  OBVIOUS
<1>1. BeganInv' /\ TypeInv' /\ ManagementTypeOK
  BY BeganKept, NextTypes DEF PublishInv, TypeInv, TypeOK
<1>2. ASSUME NEW r \in Requests, at'[r] \in {"binding", "versioning"}
      PROVE  HeldSince(r, target[r], used[r])'
  <2>1. CASE at[r] \in {"binding", "versioning"}
    <3>1. target'[r] = target[r] /\ used'[r] = used[r] /\ target[r] \in Workflows
          /\ at[r] # "idle"
      BY <2>1, UsedKept DEF TypeInv, RequestInv
    <3>2. HeldSince(r, target[r], used[r])
      BY <2>1 DEF PublishInv
    <3>3. \A w \in Workflows : \A d : HeldSince(r, w, d) => HeldSince(r, w, d)'
      BY <3>1, SeenSince
    <3> QED
      BY <3>1, <3>2, <3>3 DEF HeldSince
  <2>2. CASE LoadRow(r) /\ ask[r].op = "publish"
    <3>1. /\ target[r] \in stored /\ target'[r] = target[r] /\ at[r] # "idle"
          /\ used'[r] = Draft(target[r]).definition
          /\ UNCHANGED <<held, began>>
      BY <2>2, <1>1 DEF LoadRow, ToPublish, rowVars, ManagementTypeOK
    <3>2. target[r] \in Workflows /\ held[target[r]] # <<>>
      BY <3>1 DEF TypeInv, TypeOK, RowsTypeOK, StoredIsHeld
    <3>3. HeldSince(r, target[r], Draft(target[r]).definition)
      BY <3>1, <3>2, SeenNow DEF PublishInv
    <3> QED
      BY <3>1, <3>3 DEF HeldSince
  <2>3. CASE SaveRow(r) \/ InsertRow(r)
    BY <2>3, <1>1, <1>2, UsedIsHeld
  <2> QED
    BY <2>1, <2>2, <2>3, <1>2, BindingFollows
<1>3. ASSUME NEW w \in Workflows, NEW k \in 1..Len(published'[w]),
             published'[w][k].by \in Requests
      PROVE  /\ at'[published'[w][k].by] # "idle"
             /\ HeldSince(published[w][k].by, w, published[w][k].definition)'
  <2>1. published[w] \in Seq(Publications) /\ Len(published[w]) \in Nat
    BY Lengths
  <2>2. CASE k \in 1..Len(published[w])
    <3>1. published'[w][k] = published[w][k]
      BY <2>2, RowsGrow
    <3> DEFINE r == published[w][k].by
    <3>2. at[r] # "idle" /\ HeldSince(r, w, published[w][k].definition) /\ r \in Requests
      BY <2>2, <3>1, <1>3 DEF PublishInv, PublishedWasHeld
    <3>3. at'[r] # "idle" /\ HeldSince(r, w, published[w][k].definition)' /\ began'[r] = began[r]
      <4>1. at'[r] # "idle" /\ began'[r] = began[r]
        BY <3>2, RequestsKept
      <4>2. \A d : HeldSince(r, w, d) => \E i \in 1..Len(held'[w]) :
              i >= began[r][w].held /\ held'[w][i].definition = d
        BY RowsGrow DEF HeldSince
      <4> QED
        BY <4>1, <4>2, <3>1, <3>2 DEF HeldSince
    <3> QED
      BY <3>1, <3>3
  <2>3. CASE k \notin 1..Len(published[w])
    <3>1. published'[w] # published[w]
      BY <2>3
    <3>2. \A p : published'[w] = Append(published[w], p) => published'[w][k] = p
      BY <2>1, <2>3
    <3>3. PICK r \in Requests :
            /\ PublishRow(r) /\ w = target[r]
            /\ published'[w][k] = [definition |-> used[r], binding |-> binding[r], by |-> r]
      BY <3>1, <3>2, <1>3, PublishedGrows, ActorsAssumption
    <3>4. at[r] = "binding" /\ at'[r] = "versioning" /\ UNCHANGED <<target, used>>
      BY <3>3, <1>1 DEF PublishRow, Go, ManagementTypeOK
    <3>5. HeldSince(r, target[r], used[r])'
      BY <3>4, <1>2
    <3> QED
      BY <3>3, <3>4, <3>5 DEF HeldSince
  <2> QED
    BY <2>2, <2>3
<1>4. PublishedWasHeld'
  BY <1>3 DEF PublishedWasHeld
<1> QED
  BY <1>1, <1>2, <1>3, <1>4 DEF PublishInv

\* What a request publishes was the row's draft while the request was at work, however many
\* other requests and agents save, publish and delete the row meanwhile.
THEOREM PublishesWhatWasHeld == Spec => []PublishedWasHeld
<1>1. Init => PublishInv
  <2> SUFFICES ASSUME Init PROVE PublishInv
    OBVIOUS
  <2>1. \A w \in Workflows : Len(published[w]) = 0
    BY DEF Init, RowsInit
  <2> QED
    BY <2>1 DEF Init, ManagementInit, PublishInv, BeganInv, PublishedWasHeld
<1>2. PublishInv => PublishedWasHeld
  BY DEF PublishInv
<1> QED
  BY <1>1, <1>2, PublishKept, TypeInvariant, PTL DEF Spec

-------------------------------------------------------------------------------
(* What is executed by reference was published. *)

ExecuteInv ==
  /\ BeganInv
  /\ \A r \in Requests : at[r] = "executing" => PublishedSince(r, target[r], used[r])
  /\ \A e \in runs : e.by \in Requests => at[e.by] # "idle"
  /\ RunsWhatWasPublished

LEMMA RunsGrow ==
  ASSUME TypeInv, [Next]_vars, NEW e \in runs', e.by \in Requests, e \notin runs
  PROVE  \E r \in Requests :
           RunPublished(r) /\ e = [workflow |-> target[r], definition |-> used[r], by |-> r]
<1>1. CASE ManagementNext
  BY <1>1
     DEF ManagementNext, ReceiveRequest, ReceiveReference, Arrive, FindByName, FindSimilar,
         ListOwn, ListShared, LoadRow, LoadPublished, SaveRow, InsertRow, DeleteRow, RunPublished,
         PublishRow, CreateVersion, RequestFails, LookUp, Deactivate, rowVars
<1>2. CASE AgentNext
  <2>1. PICK a \in Agents : \E w, d : e = [workflow |-> w, definition |-> d, by |-> a]
    BY <1>2
       DEF AgentNext, ReceiveOrder, RefuseItem, CreateItem, ExecuteCreated, UpdateItem, PublishItem,
           ExecuteItem, DeleteItem, ResolveChild, Link, RejectItem, Answer, rowVars
  <2> QED
    BY <2>1, ActorsAssumption
<1>3. CASE UNCHANGED vars
  BY <1>3 DEF vars, rowVars
<1> QED
  BY <1>1, <1>2, <1>3 DEF Next

LEMMA ExecutingFollows ==
  ASSUME TypeInv, [Next]_vars, NEW r \in Requests, at'[r] = "executing", at[r] # "executing"
  PROVE  LoadPublished(r)
<1>1. at \in [Requests -> Steps]
  BY DEF TypeInv, TypeOK, ManagementTypeOK
<1> QED
  BY <1>1, OwnSteps
     DEF StaysPut, StepOf, ReceiveRequest, ReceiveReference, Arrive, FindByName, FindSimilar,
         ListOwn, ListShared, LoadRow, LoadPublished, SaveRow, InsertRow, DeleteRow, RunPublished,
         PublishRow, CreateVersion, RequestFails, LookUp, Resolve, Go, ActStep, AfterSave

LEMMA ExecuteKept == TypeInv /\ ExecuteInv /\ [Next]_vars => ExecuteInv'
<1> SUFFICES ASSUME TypeInv, ExecuteInv, [Next]_vars PROVE ExecuteInv'
  OBVIOUS
<1>1. BeganInv' /\ TypeInv' /\ ManagementTypeOK
  BY BeganKept, NextTypes DEF ExecuteInv, TypeInv, TypeOK
<1>2. ASSUME NEW r \in Requests, at'[r] = "executing"
      PROVE  PublishedSince(r, target[r], used[r])'
  <2>1. CASE at[r] = "executing"
    <3>1. target'[r] = target[r] /\ used'[r] = used[r] /\ target[r] \in Workflows
          /\ at[r] # "idle"
      BY <2>1, UsedKept DEF TypeInv, RequestInv
    <3>2. PublishedSince(r, target[r], used[r])
      BY <2>1 DEF ExecuteInv
    <3>3. \A w \in Workflows : \A d : PublishedSince(r, w, d) => PublishedSince(r, w, d)'
      BY <3>1, SeenSince
    <3> QED
      BY <3>1, <3>2, <3>3 DEF PublishedSince
  <2>2. CASE LoadPublished(r)
    <3>1. /\ target[r] \in stored /\ target'[r] = target[r] /\ at[r] # "idle"
          /\ used'[r] = LastPublished(target[r]).definition
          /\ published[target[r]] # <<>>
          /\ UNCHANGED <<published, began>>
      BY <2>2, <1>1 DEF LoadPublished, ToExecute, rowVars, ManagementTypeOK
    <3>2. target[r] \in Workflows
      BY <3>1 DEF TypeInv, TypeOK, RowsTypeOK
    <3>3. PublishedSince(r, target[r], LastPublished(target[r]).definition)
      BY <3>1, <3>2, SeenNow DEF ExecuteInv
    <3> QED
      BY <3>1, <3>3 DEF PublishedSince
  <2> QED
    BY <2>1, <2>2, <1>2, ExecutingFollows
<1>3. ASSUME NEW e \in runs', e.by \in Requests
      PROVE  at'[e.by] # "idle" /\ PublishedSince(e.by, e.workflow, e.definition)'
  <2> DEFINE r == e.by
             w == e.workflow
             d == e.definition
  <2>1. w \in Workflows
    BY <1>1 DEF TypeInv, TypeOK, RowsTypeOK, Runs
  <2>2. at[r] # "idle" /\ PublishedSince(r, w, d)
    <3>1. CASE e \in runs
      BY <3>1, <1>3 DEF ExecuteInv, RunsWhatWasPublished
    <3>2. CASE e \notin runs
      <4>1. PICK s \in Requests :
              RunPublished(s) /\ e = [workflow |-> target[s], definition |-> used[s], by |-> s]
        BY <3>2, <1>3, RunsGrow
      <4>2. at[s] = "executing" /\ PublishedSince(s, target[s], used[s])
        BY <4>1 DEF RunPublished, ExecuteInv
      <4> QED
        BY <4>1, <4>2 DEF PublishedSince
    <3> QED
      BY <3>1, <3>2
  <2>3. at'[r] # "idle" /\ (PublishedSince(r, w, d) => PublishedSince(r, w, d)')
    BY <2>1, <2>2, <1>3, RequestsKept, SeenSince
  <2> QED
    BY <2>2, <2>3
<1>4. RunsWhatWasPublished'
  BY <1>3 DEF RunsWhatWasPublished
<1> QED
  BY <1>1, <1>2, <1>3, <1>4 DEF ExecuteInv

\* An execution by reference runs what was published while it was at work, and never a draft.
THEOREM ExecutesWhatWasPublished == Spec => []RunsWhatWasPublished
<1>1. Init => ExecuteInv
  BY DEF Init, RowsInit, ManagementInit, ExecuteInv, BeganInv, RunsWhatWasPublished
<1>2. ExecuteInv => RunsWhatWasPublished
  BY DEF ExecuteInv
<1> QED
  BY <1>1, <1>2, ExecuteKept, TypeInvariant, PTL DEF Spec

-------------------------------------------------------------------------------
(* What is removed was to be removed. *)

RowsOnlyRemovedByName ==
  \A w \in stored \ stored' :
    \/ \E r \in Requests : at[r] = "deleting" /\ at'[r] = "done" /\ target[r] = w
                           /\ ask[r].op = "delete"
    \/ \E a \in Agents : ConfirmedItem(a, "delete", w)

LinksOnlyRemovedByName ==
  \A l \in links \ links' : \E a \in Agents : ConfirmedItem(a, "detach", l[2])

LEMMA DeletionsAreConfirmed ==
  ASSUME TypeInv, NEW a \in Agents, DeleteItem(a), NEW w, w \in stored \ stored'
  PROVE  ConfirmedItem(a, "delete", w)
<1>1. /\ agentAt[a] = "working" /\ position[a] < Len(order[a].items) /\ At(a).op = "delete"
      /\ order[a].kind = "batch" => At(a).confirmed
      /\ Given(order[a], At(a)) # None /\ w = Given(order[a], At(a))
      /\ position' = [position EXCEPT ![a] = @ + 1]
  BY DEF DeleteItem, Working, Destructive, RemoveRow, NextItem
<1>2. w = At(a).id \/ \E k \in DOMAIN At(a).previous : w = At(a).previous[k]
  BY <1>1, GivenIsNamed
<1>3. position \in [Agents -> Nat] /\ AgentInv(a)
  BY DEF TypeInv, TypeOK, AgentTypeOK
<1>4. position'[a] # position[a]
  BY <1>1, <1>3
<1>5. At(a).confirmed \/ (order[a].kind = "operation" /\ order[a].confirmed)
  <2>1. order[a].kind = "operation" => order[a].items[1].op = "delete"
    BY <1>1, ItemsAreTyped DEF At
  <2>2. order[a].kind \in {"operation", "batch"}
    BY <1>1, OrdersAreTyped, ItemsAreTyped
  <2> QED
    BY <2>1, <2>2, <1>1, <1>3 DEF AgentInv, MustConfirm
<1> QED
  BY <1>1, <1>2, <1>4, <1>5 DEF ConfirmedItem, At

LEMMA DetachmentsAreConfirmed ==
  ASSUME TypeInv, NEW a \in Agents, Link(a), NEW l, l \in links \ links'
  PROVE  ConfirmedItem(a, "detach", l[2])
<1>1. /\ agentAt[a] = "linking" /\ l = <<At(a).parent, chosen[a]>> /\ At(a).op # "attach"
      /\ position' = [position EXCEPT ![a] = @ + 1]
  BY DEF Link, NextItem
<1>2. position \in [Agents -> Nat] /\ AgentInv(a) /\ position[a] < Len(order[a].items)
  BY <1>1 DEF TypeInv, TypeOK, AgentTypeOK, AgentInv
<1>3. At(a).op = "detach" /\ (order[a].kind = "batch" => At(a).confirmed)
  BY <1>1, <1>2 DEF AgentInv
<1>4. position'[a] # position[a] /\ l[2] = chosen[a]
  BY <1>1, <1>2
<1>5. order[a].kind = "batch"
  <2>1. order[a].kind = "operation" => At(a) = order[a].items[1] /\ At(a).op # "detach"
    BY <1>1, <1>2, OrdersAreTyped, ItemsAreTyped DEF At
  <2> QED
    BY <2>1, <1>1, <1>2, <1>3, OrdersAreTyped, ItemsAreTyped
<1> QED
  BY <1>3, <1>4, <1>5 DEF ConfirmedItem, At

\* A row is removed by a deletion that names it, and by an agent, in a batch or alone, only with
\* a confirmation; and so is a link.
THEOREM RemovalsAreConfirmed == Spec => OnlyConfirmedDestroys
<1>1. TypeInv /\ [Next]_vars => [RowsOnlyRemovedByName /\ LinksOnlyRemovedByName]_vars
  <2> SUFFICES ASSUME TypeInv, Next PROVE RowsOnlyRemovedByName /\ LinksOnlyRemovedByName
    OBVIOUS
  <2>1. CASE ManagementNext /\ UNCHANGED agentVars
    <3>1. ASSUME NEW w \in stored \ stored'
          PROVE  \E r \in Requests : at[r] = "deleting" /\ at'[r] = "done" /\ target[r] = w
                                     /\ ask[r].op = "delete"
      <4>1. PICK r \in Requests : DeleteRow(r)
        BY <2>1, <3>1
           DEF ManagementNext, ReceiveRequest, ReceiveReference, Arrive, FindByName, FindSimilar,
               ListOwn, ListShared, LoadRow, LoadPublished, SaveRow, InsertRow, RunPublished,
               PublishRow, CreateVersion, RequestFails, LookUp, Deactivate, rowVars, AddRow
      <4> QED
        BY <4>1, <3>1
           DEF DeleteRow, RemoveRow, Go, TypeInv, TypeOK, ManagementTypeOK, RequestInv,
               StepFitsOperation
    <3> QED
      BY <2>1, <3>1 DEF RowsOnlyRemovedByName, LinksOnlyRemovedByName, agentVars
  <2>2. CASE AgentNext /\ UNCHANGED managementVars
    <3>1. ASSUME NEW w \in stored \ stored' PROVE \E a \in Agents : DeleteItem(a)
      BY <2>2, <3>1
         DEF AgentNext, ReceiveOrder, RefuseItem, CreateItem, ExecuteCreated, UpdateItem,
             PublishItem, ExecuteItem, ResolveChild, Link, RejectItem, Answer, rowVars, AddRow
    <3>2. ASSUME NEW l \in links \ links' PROVE \E a \in Agents : Link(a)
      BY <2>2, <3>2
         DEF AgentNext, ReceiveOrder, RefuseItem, CreateItem, ExecuteCreated, UpdateItem,
             PublishItem, ExecuteItem, DeleteItem, ResolveChild, RejectItem, Answer
    <3> QED
      BY <3>1, <3>2, DeletionsAreConfirmed, DetachmentsAreConfirmed
         DEF RowsOnlyRemovedByName, LinksOnlyRemovedByName
  <2> QED
    BY <2>1, <2>2 DEF Next
<1>2. [][RowsOnlyRemovedByName /\ LinksOnlyRemovedByName]_vars => OnlyConfirmedDestroys
  BY PTL DEF OnlyConfirmedDestroys, RowsOnlyRemovedByName, LinksOnlyRemovedByName
<1> QED
  BY <1>1, <1>2, TypeInvariant, PTL DEF Spec

-------------------------------------------------------------------------------
(* Credentials are bound alike. *)

NotBound(r) == \A n \in Nodes : binding[r][n] = None

\* While a request binds, nodes of one service wait together or have the same credential.
Alike(r) ==
  \A m, n \in NodesOf[used[r]] :
    /\ binding[r][m] # None => ServiceFor[binding[r][m]] = ServiceOf[m]
    /\ ServiceOf[m] = ServiceOf[n] => binding[r][m] = binding[r][n]

BindInv ==
  /\ \A r \in Requests :
       /\ at[r] \notin {"binding", "versioning", "done", "failed"} => NotBound(r)
       /\ at[r] = "binding" => Alike(r)
  /\ BoundAlike

LEMMA BindingStarts ==
  ASSUME TypeInv, BindInv, [Next]_vars, NEW r \in Requests,
         at'[r] \notin {"binding", "versioning", "done", "failed"}
  PROVE  NotBound(r)'
<1>1. at \in [Requests -> Steps]
  BY DEF TypeInv, TypeOK, ManagementTypeOK
<1>2. \/ at[r] \notin {"binding", "versioning", "done", "failed"} /\ UNCHANGED binding
      \/ StaysPut(r)
  BY <1>1, OwnSteps
     DEF StepOf, ReceiveRequest, ReceiveReference, Arrive, FindByName, FindSimilar, ListOwn,
         ListShared, LoadRow, LoadPublished, SaveRow, InsertRow, DeleteRow, RunPublished,
         PublishRow, CreateVersion, RequestFails, LookUp, Resolve, Go
<1> QED
  BY <1>2 DEF BindInv, NotBound, StaysPut

LEMMA LookUpAlike ==
  ASSUME TypeInv, NEW r \in Requests, NEW n \in Nodes, LookUp(r, n), Alike(r)
  PROVE  Alike(r)'
<1>1. /\ binding[r] \in [Nodes -> Credentials \cup {None}] /\ binding \in [Requests -> [Nodes -> Credentials \cup {None}]]
      /\ NodesOf[used[r]] \subseteq Nodes /\ used'[r] = used[r]
      /\ n \in NodesOf[used[r]] /\ binding[r][n] = None
  BY ManagementAssumption DEF LookUp, Waiting, TypeInv, TypeOK, ManagementTypeOK, RequestInv
<1>2. CASE UNCHANGED binding
  BY <1>1, <1>2 DEF Alike
<1>3. CASE binding' # binding
  <2> DEFINE alike == {m \in Waiting(r) : KeyOf(m) = KeyOf(n)}
  <2>1. PICK c \in active :
          /\ ServiceFor[c] = ServiceOf[n]
          /\ binding' = [binding EXCEPT ![r] =
                           [m \in Nodes |-> IF m \in alike THEN c ELSE @[m]]]
    BY <1>3 DEF LookUp
  <2>2. \A m \in Nodes : binding'[r][m] = IF m \in alike THEN c ELSE binding[r][m]
    BY <2>1, <1>1
  <2>3. \A m \in NodesOf[used[r]] : m \in alike <=> ServiceOf[m] = ServiceOf[n]
    BY <1>1 DEF Alike, Waiting, KeyOf
  <2> HIDE DEF alike
  <2> QED
    BY <2>1, <2>2, <2>3, <1>1 DEF Alike
<1> QED
  BY <1>2, <1>3

LEMMA BindKept == TypeInv /\ BindInv /\ [Next]_vars => BindInv'
<1> SUFFICES ASSUME TypeInv, BindInv, [Next]_vars PROVE BindInv'
  OBVIOUS
<1>1. TypeInv' /\ ManagementTypeOK
  BY NextTypes DEF TypeInv, TypeOK
<1>2. ASSUME NEW r \in Requests, at'[r] = "binding" PROVE Alike(r)'
  <2>1. CASE at[r] = "binding"
    <3>1. Alike(r) /\ used'[r] = used[r]
      BY <2>1, UsedKept DEF BindInv
    <3>2. binding'[r] = binding[r] \/ \E n \in Nodes : LookUp(r, n)
      BY <2>1, OwnSteps
         DEF StaysPut, StepOf, ReceiveRequest, ReceiveReference, Arrive, FindByName, FindSimilar,
             ListOwn, ListShared, LoadRow, LoadPublished, SaveRow, InsertRow, DeleteRow,
             RunPublished, PublishRow, CreateVersion, RequestFails
    <3> QED
      BY <3>1, <3>2, LookUpAlike DEF Alike
  <2>2. CASE at[r] # "binding"
    <3>1. at[r] # "versioning"
      BY <1>1, <1>2, OwnSteps
         DEF StaysPut, StepOf, ReceiveRequest, ReceiveReference, Arrive, FindByName, FindSimilar,
             ListOwn, ListShared, LoadRow, LoadPublished, SaveRow, InsertRow, DeleteRow,
             RunPublished, PublishRow, CreateVersion, RequestFails, LookUp, Go, ManagementTypeOK
    <3>2. (LoadRow(r) \/ SaveRow(r) \/ InsertRow(r))
      BY <2>2, <3>1, <1>2, BindingFollows
    <3>3. NotBound(r) /\ UNCHANGED binding
      BY <3>2 DEF LoadRow, SaveRow, InsertRow, BindInv
    <3>4. used'[r] \in Definitions
      BY <1>1, <1>2 DEF TypeInv, RequestInv
    <3>5. NodesOf[used'[r]] \subseteq Nodes
      BY <3>4, ManagementAssumption
    <3> QED
      BY <3>3, <3>5 DEF NotBound, Alike
  <2> QED
    BY <2>1, <2>2
<1>3. ASSUME NEW w \in Workflows, NEW k \in 1..Len(published'[w]),
             published'[w][k].by \in Requests,
             NEW m \in NodesOf[published'[w][k].definition],
             NEW n \in NodesOf[published'[w][k].definition]
      PROVE  LET p == published'[w][k]
             IN  /\ p.binding[m] # None
                 /\ ServiceFor[p.binding[m]] = ServiceOf[m]
                 /\ ServiceOf[m] = ServiceOf[n] => p.binding[m] = p.binding[n]
  <2>1. published[w] \in Seq(Publications) /\ Len(published[w]) \in Nat
    BY Lengths
  <2>2. CASE k \in 1..Len(published[w])
    <3>1. published'[w][k] = published[w][k]
      BY <2>2, RowsGrow
    <3> QED
      BY <2>2, <3>1, <1>3 DEF BindInv, BoundAlike
  <2>3. CASE k \notin 1..Len(published[w])
    <3>1. published'[w] # published[w]
      BY <2>3
    <3>2. \A p : published'[w] = Append(published[w], p) => published'[w][k] = p
      BY <2>1, <2>3
    <3>3. PICK r \in Requests :
            /\ PublishRow(r)
            /\ published'[w][k] = [definition |-> used[r], binding |-> binding[r], by |-> r]
      BY <3>1, <3>2, <1>3, PublishedGrows, ActorsAssumption
    <3>4. at[r] = "binding" /\ Waiting(r) = {}
      BY <3>3 DEF PublishRow
    <3>5. Alike(r) /\ m \in NodesOf[used[r]] /\ n \in NodesOf[used[r]]
      BY <3>3, <3>4, <1>3 DEF BindInv
    <3>6. binding[r][m] # None
      BY <3>4, <3>5 DEF Waiting
    <3> QED
      BY <3>3, <3>5, <3>6 DEF Alike
  <2> QED
    BY <2>2, <2>3
<1>4. BoundAlike'
  BY <1>3 DEF BoundAlike
<1> QED
  BY <1>2, <1>4, BindingStarts DEF BindInv

\* A published workflow has a credential of the right service for each of its nodes, and one for
\* all nodes of a service, whatever is deactivated while they look for it.
THEOREM BindsAlike == Spec => []BoundAlike
<1>1. Init => BindInv
  <2> SUFFICES ASSUME Init PROVE BindInv
    OBVIOUS
  <2>1. \A w \in Workflows : Len(published[w]) = 0
    BY DEF Init, RowsInit
  <2> QED
    BY <2>1 DEF Init, ManagementInit, BindInv, NotBound, BoundAlike
<1>2. BindInv => BoundAlike
  BY DEF BindInv
<1> QED
  BY <1>1, <1>2, BindKept, TypeInvariant, PTL DEF Spec

-------------------------------------------------------------------------------
(* Names resolve to rows that bore them. *)

\* What a request by name has listed is the user's, and bore the name.
ListedBore(r) ==
  /\ ask[r].op = "execute"
  /\ \A w \in listed[r] : w \in Workflows /\ BoreSince(r, w) /\ UserOf[w] # None

NameInv ==
  /\ BeganInv
  /\ \A r \in Requests : at[r] = "listing" => ListedBore(r)
  /\ ActsOnNamed
  /\ AmbiguityIsReal

\* Rows that match now.
LEMMA MatchingBore ==
  ASSUME TypeInv, BeganInv, NEW r \in Requests, at[r] # "idle", NEW w \in SimilarTo(ask[r].name)
  PROVE  w \in Workflows /\ BoreSince(r, w)
<1>1. w \in stored /\ <<ask[r].name, Draft(w).name>> \in Similar
  BY DEF SimilarTo
<1>2. w \in Workflows /\ held[w] # <<>>
  BY <1>1 DEF TypeInv, TypeOK, RowsTypeOK, StoredIsHeld
<1> QED
  BY <1>1, <1>2, SeenNow

LEMMA NamedIsSimilar ==
  ASSUME TypeInv, NEW r \in Requests, at[r] # "idle"
  PROVE  Named(ask[r].name) \subseteq SimilarTo(ask[r].name)
BY AsksAreTyped, RowsAssumption DEF Named, SimilarTo

\* A step that looks rows up finds rows that match.
LEMMA ResolvedBore ==
  ASSUME TypeInv, NameInv, [Next]_vars, NEW r \in Requests,
         FindByName(r) \/ FindSimilar(r) \/ ListShared(r)
  PROVE  /\ target'[r] # target[r] => target'[r] \in Workflows /\ BoreSince(r, target'[r])
         /\ at'[r] = "ambiguous" =>
              \E v, w \in Workflows :
                /\ BoreSince(r, v) /\ BoreSince(r, w)
                /\ v # w \/ (ask[r].op = "execute" /\ UserOf[w] # None /\ OrganizationOf[w] # None)
         /\ at[r] # "idle"
<1>1. ManagementTypeOK /\ at[r] # "idle" /\ at[r] # "ambiguous"
  BY DEF FindByName, FindSimilar, ListShared, TypeInv, TypeOK
<1>2. \A w \in SimilarTo(ask[r].name) : w \in Workflows /\ BoreSince(r, w)
  BY <1>1, MatchingBore DEF NameInv
<1>3. Named(ask[r].name) \subseteq SimilarTo(ask[r].name)
  BY <1>1, NamedIsSimilar
<1>4. ASSUME NEW rows, rows \subseteq SimilarTo(ask[r].name), NEW otherwise,
             otherwise # "ambiguous", Resolve(r, rows, otherwise)
      PROVE  /\ target'[r] # target[r] => target'[r] \in rows
             /\ at'[r] = "ambiguous" => \E v, w \in rows : v # w
  BY <1>1, <1>4 DEF Resolve, Go, ActStep, ManagementTypeOK
<1>5. CASE FindByName(r)
  <2> DEFINE rows == {w \in Named(ask[r].name) :
                        IF Personal(ask[r]) THEN UserOf[w] = ask[r].by /\ OrganizationOf[w] = None
                                            ELSE OrganizationOf[w] = ask[r].scope}
  <2>1. Resolve(r, rows, "searching") /\ rows \subseteq SimilarTo(ask[r].name)
    BY <1>3, <1>5 DEF FindByName
  <2>2. /\ target'[r] # target[r] => target'[r] \in rows
        /\ at'[r] = "ambiguous" => \E v, w \in rows : v # w
    BY <2>1, <1>4
  <2> QED
    BY <2>1, <2>2, <1>1, <1>2
<1>6. CASE FindSimilar(r)
  <2>1. Resolve(r, Alternatives(ask[r]), "failed") /\ Alternatives(ask[r]) \subseteq SimilarTo(ask[r].name)
    BY <1>6 DEF FindSimilar, Alternatives
  <2>2. /\ target'[r] # target[r] => target'[r] \in Alternatives(ask[r])
        /\ at'[r] = "ambiguous" => \E v, w \in Alternatives(ask[r]) : v # w
    BY <2>1, <1>4
  <2> QED
    BY <2>1, <2>2, <1>1, <1>2
<1>7. CASE ListShared(r)
  <2> DEFINE own == listed[r]
             shared == SharedOptions(ask[r])
  <2>1. shared \subseteq SimilarTo(ask[r].name) /\ \A w \in shared : OrganizationOf[w] # None
    BY <1>3, RowsAssumption DEF SharedOptions, OrganizationIds
  <2>2. ListedBore(r)
    BY <1>7 DEF ListShared, NameInv
  <2>3. \A w \in own \cup shared : w \in Workflows /\ BoreSince(r, w)
    BY <2>1, <2>2, <1>2 DEF ListedBore
  <2>4. /\ target'[r] # target[r] => target'[r] \in own \cup shared
        /\ at'[r] = "ambiguous" =>
             own \cap shared # {} \/ \E v, w \in own \cup shared : v # w
    BY <1>1, <1>7 DEF ListShared, Go, ManagementTypeOK
  <2>5. \A w \in own \cap shared : ask[r].op = "execute" /\ UserOf[w] # None /\ OrganizationOf[w] # None
    BY <2>1, <2>2 DEF ListedBore
  <2> HIDE DEF own, shared
  <2> QED
    BY <2>3, <2>4, <2>5, <1>1
<1> QED
  BY <1>5, <1>6, <1>7

LEMMA ListingKept ==
  ASSUME TypeInv, NameInv, [Next]_vars, NEW r \in Requests, at'[r] = "listing"
  PROVE  ListedBore(r)'
<1>1. ManagementTypeOK /\ at[r] # "idle"
  <2>1. ManagementTypeOK
    BY DEF TypeInv, TypeOK
  <2>2. at[r] = "idle" => (ReceiveRequest(r) \/ ReceiveReference(r))
    BY <2>1, IdleUntilReceived
  <2> QED
    BY <2>1, <2>2 DEF ReceiveRequest, ReceiveReference, Arrive, Go, ManagementTypeOK, ActStep
<1>2. ask'[r] = ask[r] /\ \A w \in Workflows : BoreSince(r, w) => BoreSince(r, w)'
  BY <1>1, RequestsKept, SeenSince
<1>3. CASE at[r] = "listing"
  <2>1. listed'[r] = listed[r]
    BY <1>3, OwnSteps
       DEF StaysPut, StepOf, ReceiveRequest, ReceiveReference, Arrive, FindByName, FindSimilar,
           ListOwn, ListShared, LoadRow, LoadPublished, SaveRow, InsertRow, DeleteRow,
           RunPublished, PublishRow, CreateVersion, RequestFails, LookUp
  <2> QED
    BY <2>1, <1>2, <1>3 DEF NameInv, ListedBore, BoreSince
<1>4. CASE ListOwn(r)
  <2>1. listed'[r] \subseteq Named(ask[r].name) /\ ask[r].op = "execute"
        /\ \A w \in listed'[r] : UserOf[w] # None
    <3>1. ask[r].by # None
      BY <1>1, AsksAreTyped, RowsAssumption
    <3> QED
      BY <3>1, <1>1, <1>4 DEF ListOwn, RowsOfUser, ManagementTypeOK
  <2>2. \A w \in listed'[r] : w \in Workflows /\ BoreSince(r, w)
    BY <2>1, <1>1, NamedIsSimilar, MatchingBore DEF NameInv
  <2> QED
    BY <2>1, <2>2, <1>2 DEF ListedBore, BoreSince
<1> QED
  BY <1>1, <1>3, <1>4, OwnSteps
     DEF StaysPut, StepOf, ReceiveRequest, ReceiveReference, Arrive, FindByName, FindSimilar,
         ListShared, LoadRow, LoadPublished, SaveRow, InsertRow, DeleteRow, RunPublished,
         PublishRow, CreateVersion, RequestFails, LookUp, Resolve, Go, ActStep, AfterSave,
         ManagementTypeOK

LEMMA TargetKept ==
  ASSUME TypeInv, [Next]_vars, NEW r \in Requests, at[r] # "idle", target'[r] # target[r]
  PROVE  FindByName(r) \/ FindSimilar(r) \/ ListShared(r) \/ InsertRow(r)
BY OwnSteps
   DEF StaysPut, StepOf, ReceiveRequest, ReceiveReference, Arrive, ListOwn, LoadRow, LoadPublished,
       SaveRow, DeleteRow, RunPublished, PublishRow, CreateVersion, RequestFails, LookUp

LEMMA AmbiguousFollows ==
  ASSUME TypeInv, [Next]_vars, NEW r \in Requests, at'[r] = "ambiguous", at[r] # "ambiguous"
  PROVE  FindByName(r) \/ FindSimilar(r) \/ ListShared(r)
<1>1. at \in [Requests -> Steps]
  BY DEF TypeInv, TypeOK, ManagementTypeOK
<1> QED
  BY <1>1, OwnSteps
     DEF StaysPut, StepOf, ReceiveRequest, ReceiveReference, Arrive, ListOwn, LoadRow,
         LoadPublished, SaveRow, InsertRow, DeleteRow, RunPublished, PublishRow, CreateVersion,
         RequestFails, LookUp, Go, ActStep, AfterSave

LEMMA InsertedBears ==
  ASSUME TypeInv, BeganInv', at' \in [Requests -> Steps], NEW r \in Requests, InsertRow(r),
         at'[r] # "idle"
  PROVE  BoreSince(r, target[r])'
<1>1. /\ ask[r].name \in Names /\ ask[r].definition \in Definitions /\ r \in Actors
      /\ RowsTypeOK /\ ManagementTypeOK /\ ask'[r] = ask[r]
  BY AsksAreTyped DEF InsertRow, TypeInv, TypeOK
<1> DEFINE w == target'[r]
           i == Len(held[w]) + 1
<1>2. w \in Workflows /\ WriteDraft(w, ask[r].name, ask[r].definition, r)
  BY <1>1 DEF InsertRow, AddRow, ManagementTypeOK
<1>3. /\ held'[w][i] = [name |-> ask[r].name, definition |-> ask[r].definition, by |-> r]
      /\ Len(held'[w]) = i /\ Len(held[w]) \in Nat
  BY <1>1, <1>2, DraftWritten, Lengths
<1>4. i \in 1..Len(held'[w]) /\ i >= began'[r][w].held
  BY <1>2, <1>3 DEF BeganInv
<1>5. <<ask'[r].name, held'[w][i].name>> \in Similar
  BY <1>1, <1>3, RowsAssumption
<1> QED
  BY <1>4, <1>5 DEF BoreSince

LEMMA NameKept == TypeInv /\ NameInv /\ [Next]_vars => NameInv'
<1> SUFFICES ASSUME TypeInv, NameInv, [Next]_vars PROVE NameInv'
  OBVIOUS
<1>1. BeganInv' /\ TypeInv' /\ ManagementTypeOK /\ ManagementTypeOK'
  BY BeganKept, NextTypes DEF NameInv, TypeInv, TypeOK
<1>2. ASSUME NEW r \in Requests, ask'[r] # None, ask'[r].id = None, target'[r] # None
      PROVE  BoreSince(r, target[r])'
  <2>1. at[r] # "idle"
    <3>1. at'[r] # "idle"
      BY <1>1, <1>2 DEF TypeInv, RequestInv
    <3>2. ReceiveRequest(r) \/ ReceiveReference(r) => target'[r] = None
      BY <1>1, <1>2 DEF ReceiveRequest, ReceiveReference, Arrive, ManagementTypeOK
    <3> QED
      BY <3>1, <3>2, <1>2, IdleUntilReceived
  <2>2. /\ ask'[r] = ask[r] /\ at'[r] # "idle"
        /\ \A w \in Workflows : BoreSince(r, w) => BoreSince(r, w)'
    BY <2>1, RequestsKept, SeenSince
  <2>3. CASE target'[r] = target[r]
    <3>1. BoreSince(r, target[r]) /\ target[r] \in Workflows
      BY <2>1, <2>2, <2>3, <1>1, <1>2 DEF NameInv, ActsOnNamed, ManagementTypeOK
    <3> QED
      BY <3>1, <2>2, <2>3 DEF BoreSince
  <2>4. CASE InsertRow(r)
    BY <2>2, <2>4, <1>1, InsertedBears DEF ManagementTypeOK
  <2>5. CASE target'[r] # target[r] /\ (FindByName(r) \/ FindSimilar(r) \/ ListShared(r))
    <3>1. target'[r] \in Workflows /\ BoreSince(r, target'[r])
      BY <2>5, ResolvedBore
    <3> QED
      BY <3>1, <2>2 DEF BoreSince
  <2> QED
    BY <2>1, <2>3, <2>4, <2>5, TargetKept
<1>3. ASSUME NEW r \in Requests, at'[r] = "ambiguous"
      PROVE  (\E v, w \in Workflows :
                /\ BoreSince(r, v) /\ BoreSince(r, w)
                /\ v # w \/ (ask[r].op = "execute" /\ UserOf[w] # None /\ OrganizationOf[w] # None))'
  <2>1. at[r] # "idle"
        /\ \E v, w \in Workflows :
             /\ BoreSince(r, v) /\ BoreSince(r, w)
             /\ v # w \/ (ask[r].op = "execute" /\ UserOf[w] # None /\ OrganizationOf[w] # None)
    BY <1>3, AmbiguousFollows, ResolvedBore DEF NameInv, AmbiguityIsReal
  <2>2. ask'[r] = ask[r] /\ \A w \in Workflows : BoreSince(r, w) => BoreSince(r, w)'
    BY <2>1, RequestsKept, SeenSince
  <2> QED
    BY <2>1, <2>2
<1>4. ActsOnNamed'
  BY <1>2 DEF ActsOnNamed
<1>5. AmbiguityIsReal'
  BY <1>3 DEF AmbiguityIsReal
<1> QED
  BY <1>1, <1>4, <1>5, ListingKept DEF NameInv

LEMMA InitNames == Init => NameInv
BY DEF Init, ManagementInit, NameInv, BeganInv, ActsOnNamed, AmbiguityIsReal

\* A request that names no id acts on a row that bore a matching name while it was at work.
THEOREM NamesResolve == Spec => []ActsOnNamed
<1>1. NameInv => ActsOnNamed
  BY DEF NameInv
<1> QED
  BY <1>1, InitNames, NameKept, TypeInvariant, PTL DEF Spec

\* No request is refused as ambiguous unless two rows matched, or a row in both of its lists.
THEOREM AmbiguityFollows == Spec => []AmbiguityIsReal
<1>1. NameInv => AmbiguityIsReal
  BY DEF NameInv
<1> QED
  BY <1>1, InitNames, NameKept, TypeInvariant, PTL DEF Spec

-------------------------------------------------------------------------------
(* Answers are true. *)

CreatedIsExact ==
  \A a \in Agents : created[a] = {w \in Workflows : held[w] # <<>> /\ held[w][1].by = a}

\* A first content is written by InsertRow or by CreateItem.
LEMMA RowsAdded ==
  ASSUME TypeInv, [Next]_vars
  PROVE  /\ \A w \in stored' \ stored : held[w] = <<>>
         /\ \/ UNCHANGED created
               /\ \A w \in Workflows : held[w] = <<>> /\ held'[w] # <<>> => held'[w][1].by \notin Agents
            \/ \E a \in Agents, w \in Workflows :
                 /\ held[w] = <<>> /\ held'[w] # <<>> /\ held'[w][1].by = a
                 /\ created' = [created EXCEPT ![a] = @ \cup {w}]
                 /\ \A v \in Workflows : v # w => held'[v] = held[v]
<1>1. RowsTypeOK /\ StoredIsHeld
  BY DEF TypeInv, TypeOK
<1>2. ASSUME NEW v \in Workflows, NEW n \in Names, NEW d \in Definitions, NEW x \in Actors,
             WriteDraft(v, n, d, x)
      PROVE  /\ \A w \in Workflows : v # w => held'[w] = held[w]
             /\ held[v] = <<>> => held'[v] # <<>> /\ held'[v][1].by = x
  <2> DEFINE c == [name |-> n, definition |-> d, by |-> x]
  <2>1. held'[v] = Append(held[v], c) /\ \A w \in Workflows : v # w => held'[w] = held[w]
    BY <1>1, <1>2, DraftWritten
  <2>2. c \in Contents
    BY DEF Contents
  <2>3. Append(<<>>, c) # <<>> /\ Append(<<>>, c)[1] = c
    BY <2>2
  <2> QED
    BY <2>1, <2>3
<1>3. ASSUME NEW r \in Requests, InsertRow(r)
      PROVE  /\ \A w \in stored' \ stored : held[w] = <<>>
             /\ \A w \in Workflows : held[w] = <<>> /\ held'[w] # <<>> => held'[w][1].by \notin Agents
  <2>1. /\ ask[r].name \in Names /\ ask[r].definition \in Definitions /\ r \in Actors
    BY <1>3, AsksAreTyped DEF InsertRow
  <2>2. PICK v \in Workflows : AddRow(v, ask[r].name, ask[r].definition, r)
    BY <1>3 DEF InsertRow
  <2>3. /\ \A w \in Workflows : v # w => held'[w] = held[w]
        /\ held[v] = <<>> /\ held'[v][1].by = r
    BY <2>1, <2>2, <1>2 DEF AddRow
  <2> QED
    BY <2>2, <2>3, ActorsAssumption DEF AddRow
<1>4. ASSUME NEW a \in Agents, CreateItem(a)
      PROVE  /\ \A w \in stored' \ stored : held[w] = <<>>
             /\ \E w \in Workflows :
                  /\ held[w] = <<>> /\ held'[w] # <<>> /\ held'[w][1].by = a
                  /\ created' = [created EXCEPT ![a] = @ \cup {w}]
                  /\ \A v \in Workflows : v # w => held'[v] = held[v]
  <2>1. At(a).name \in Names /\ At(a).definition \in Definitions /\ a \in Actors
    BY <1>4, OrdersAreTyped, ItemsAreTyped DEF CreateItem, Working
  <2>2. PICK v \in Workflows : /\ AddRow(v, At(a).name, At(a).definition, a)
                               /\ created' = [created EXCEPT ![a] = @ \cup {v}]
    BY <1>4 DEF CreateItem
  <2>3. /\ \A w \in Workflows : v # w => held'[w] = held[w]
        /\ held[v] = <<>> /\ held'[v] # <<>> /\ held'[v][1].by = a
    BY <2>1, <2>2, <1>2 DEF AddRow
  <2> QED
    BY <2>2, <2>3 DEF AddRow
<1>5. ASSUME NEW r \in Requests, SaveRow(r)
      PROVE  \A w \in Workflows : held[w] = <<>> => held'[w] = held[w]
  <2>1. /\ ask[r].name \in Names /\ ask[r].definition \in Definitions /\ r \in Actors
    BY <1>5, AsksAreTyped DEF SaveRow
  <2>2. target[r] \in Workflows /\ held[target[r]] # <<>>
        /\ WriteDraft(target[r], ask[r].name, ask[r].definition, r)
    BY <1>1, <1>5 DEF SaveRow, RowsTypeOK, StoredIsHeld
  <2> QED
    BY <2>1, <2>2, <1>2
<1>6. ASSUME NEW a \in Agents, UpdateItem(a)
      PROVE  \A w \in Workflows : held[w] = <<>> => held'[w] = held[w]
  <2> DEFINE v == Given(order[a], At(a))
             n == Patched(At(a).name, Draft(v).name)
             d == Patched(At(a).definition, Draft(v).definition)
  <2>1. At(a).name \in Names \cup {None} /\ At(a).definition \in Definitions \cup {None}
        /\ a \in Actors
    BY <1>6, OrdersAreTyped, ItemsAreTyped DEF UpdateItem, Working
  <2>2. v \in stored /\ WriteDraft(v, n, d, a) /\ held[v] # <<>>
    BY <1>1, <1>6 DEF UpdateItem, StoredIsHeld
  <2>3. v \in Workflows /\ n \in Names /\ d \in Definitions
    BY <2>1, <2>2, DraftIsContents DEF Patched
  <2> HIDE DEF n, d, v
  <2> QED
    BY <2>1, <2>2, <2>3, <1>2
<1>7. CASE ManagementNext /\ UNCHANGED agentVars
  <2>1. CASE \E r \in Requests : InsertRow(r)
    BY <2>1, <1>3, <1>7 DEF agentVars
  <2>2. CASE \E r \in Requests : SaveRow(r)
    BY <2>2, <1>5, <1>7 DEF agentVars, SaveRow
  <2>3. CASE stored' \subseteq stored /\ UNCHANGED held
    BY <2>3, <1>7 DEF agentVars
  <2> QED
    BY <2>1, <2>2, <2>3, <1>7
       DEF ManagementNext, ReceiveRequest, ReceiveReference, Arrive, FindByName, FindSimilar,
           ListOwn, ListShared, LoadRow, LoadPublished, DeleteRow, RemoveRow, RunPublished,
           PublishRow, CreateVersion, RequestFails, LookUp, Deactivate, rowVars
<1>8. CASE AgentNext
  <2>1. CASE \E a \in Agents : CreateItem(a)
    BY <2>1, <1>4
  <2>2. CASE \E a \in Agents : UpdateItem(a)
    BY <2>2, <1>6 DEF UpdateItem
  <2>3. CASE stored' \subseteq stored /\ UNCHANGED <<held, created>>
    BY <2>3
  <2> QED
    BY <2>1, <2>2, <2>3, <1>8
       DEF AgentNext, ReceiveOrder, RefuseItem, ExecuteCreated, PublishItem, ExecuteItem,
           DeleteItem, RemoveRow, ResolveChild, Link, RejectItem, Answer, rowVars
<1>9. CASE UNCHANGED vars
  BY <1>9 DEF vars, rowVars, agentVars
<1> QED
  BY <1>7, <1>8, <1>9 DEF Next

LEMMA CreatedKept == TypeInv /\ CreatedIsExact /\ [Next]_vars => CreatedIsExact'
<1> SUFFICES ASSUME TypeInv, CreatedIsExact, [Next]_vars, NEW b \in Agents
             PROVE  created'[b] = {w \in Workflows : held'[w] # <<>> /\ held'[w][1].by = b}
  BY DEF CreatedIsExact
<1>1. created \in [Agents -> SUBSET Workflows]
  BY DEF TypeInv, TypeOK, AgentTypeOK
<1>2. \A w \in Workflows : held[w] # <<>> => held'[w] # <<>> /\ held'[w][1] = held[w][1]
  <2> SUFFICES ASSUME NEW w \in Workflows, held[w] # <<>>
               PROVE  held'[w] # <<>> /\ held'[w][1] = held[w][1]
    OBVIOUS
  <2>1. held[w] \in Seq(Contents) /\ 1 \in 1..Len(held[w])
    BY Lengths
  <2>2. held'[w] = held[w] \/ \E c \in Contents : held'[w] = Append(held[w], c)
    BY HeldGrows
  <2> QED
    BY <2>1, <2>2
<1>3. created[b] = {w \in Workflows : held[w] # <<>> /\ held[w][1].by = b}
  BY DEF CreatedIsExact
<1>4. CASE /\ UNCHANGED created
           /\ \A w \in Workflows : held[w] = <<>> /\ held'[w] # <<>> => held'[w][1].by \notin Agents
  BY <1>2, <1>3, <1>4
<1>5. ASSUME NEW a \in Agents, NEW w \in Workflows,
             held[w] = <<>>, held'[w] # <<>>, held'[w][1].by = a,
             created' = [created EXCEPT ![a] = @ \cup {w}],
             \A v \in Workflows : v # w => held'[v] = held[v]
      PROVE  created'[b] = {v \in Workflows : held'[v] # <<>> /\ held'[v][1].by = b}
  BY <1>1, <1>3, <1>5
<1>6. \/ UNCHANGED created
         /\ \A w \in Workflows : held[w] = <<>> /\ held'[w] # <<>> => held'[w][1].by \notin Agents
      \/ \E a \in Agents, w \in Workflows :
           /\ held[w] = <<>> /\ held'[w] # <<>> /\ held'[w][1].by = a
           /\ created' = [created EXCEPT ![a] = @ \cup {w}]
           /\ \A v \in Workflows : v # w => held'[v] = held[v]
  BY RowsAdded, Zenon
<1> QED
  BY <1>4, <1>5, <1>6

\* What a request that saves has written.
Saving(r) == [name |-> ask[r].name, definition |-> ask[r].definition, by |-> r]

SavedInv(r) ==
  at[r] \in {"binding", "versioning", "done"} /\ ask[r].op \in {"create", "save"} =>
    target[r] \in Workflows /\ \E i \in 1..Len(held[target[r]]) : held[target[r]][i] = Saving(r)

Publishing(r) == [definition |-> used[r], binding |-> binding[r], by |-> r]

VersionInv(r) ==
  /\ at[r] = "versioning" =>
       \E k \in 1..Len(published[target[r]]) : published[target[r]][k] = Publishing(r)
  /\ at[r] = "done" /\ (ask[r].op = "publish" \/ (ask[r].op \in {"create", "save"} /\ ask[r].publish)) =>
       /\ target[r] \in Workflows
       /\ \E k \in 1..Len(published[target[r]]) :
            published[target[r]][k].by = r /\ <<target[r], published[target[r]][k]>> \in versions

DeleteInv(r) ==
  /\ at[r] = "deleting" \/ (at[r] = "done" /\ ask[r].op = "delete") =>
       target[r] \in Workflows /\ held[target[r]] # <<>>
  /\ at[r] = "done" /\ ask[r].op = "delete" => target[r] \notin stored

AnswerInv ==
  /\ CreatedIsExact
  /\ \A r \in Requests : SavedInv(r) /\ VersionInv(r) /\ DeleteInv(r)

LEMMA DoneFollows ==
  ASSUME TypeInv, [Next]_vars, NEW r \in Requests, at'[r] = "done", at[r] # "done"
  PROVE  \/ LoadRow(r) /\ ask[r].op = "get"
         \/ (SaveRow(r) \/ InsertRow(r)) /\ ~ask[r].publish
         \/ DeleteRow(r) \/ RunPublished(r) \/ CreateVersion(r)
<1>1. at \in [Requests -> Steps]
  BY DEF TypeInv, TypeOK, ManagementTypeOK
<1> QED
  BY <1>1, OwnSteps
     DEF StaysPut, StepOf, ReceiveRequest, ReceiveReference, Arrive, FindByName, FindSimilar,
         ListOwn, ListShared, LoadRow, LoadPublished, PublishRow, SaveRow, InsertRow, RequestFails,
         LookUp, Resolve, Go, ActStep, AfterSave

LEMMA SavedKept ==
  ASSUME TypeInv, AnswerInv, [Next]_vars, NEW r \in Requests
  PROVE  SavedInv(r)'
<1> SUFFICES ASSUME at'[r] \in {"binding", "versioning", "done"}, ask'[r].op \in {"create", "save"}
             PROVE  /\ target'[r] \in Workflows
                    /\ \E i \in 1..Len(held'[target'[r]]) : held'[target'[r]][i] = Saving(r)'
  BY DEF SavedInv
<1>1. ManagementTypeOK /\ RowsTypeOK /\ RequestInv(r)
  BY DEF TypeInv, TypeOK
<1>2. at[r] # "idle"
  <2>1. ReceiveRequest(r) \/ ReceiveReference(r) => at'[r] \notin {"binding", "versioning", "done"}
    BY <1>1 DEF ReceiveRequest, ReceiveReference, Arrive, Go, ActStep, ManagementTypeOK
  <2> QED
    BY <2>1, IdleUntilReceived
<1>3. ask'[r] = ask[r] /\ Saving(r)' = Saving(r)
  BY <1>2, RequestsKept DEF Saving
<1>4. CASE at[r] \in {"binding", "versioning", "done"}
  <2>1. target'[r] = target[r] /\ SavedInv(r)
    BY <1>4, UsedKept DEF AnswerInv
  <2>2. target[r] \in Workflows
        /\ \E i \in 1..Len(held[target[r]]) : held[target[r]][i] = Saving(r)
    BY <2>1, <1>3, <1>4 DEF SavedInv
  <2> QED
    BY <2>1, <2>2, <1>3, RowsGrow
<1>5. CASE SaveRow(r) \/ InsertRow(r)
  <2>1. /\ ask[r].name \in Names /\ ask[r].definition \in Definitions /\ r \in Actors
    BY <1>2, AsksAreTyped
  <2>2. target'[r] \in Workflows /\ WriteDraft(target'[r], ask[r].name, ask[r].definition, r)
    BY <1>1, <1>5 DEF SaveRow, InsertRow, AddRow, RowsTypeOK, ManagementTypeOK
  <2> DEFINE w == target'[r]
  <2>3. held'[w][Len(held[w]) + 1] = Saving(r) /\ Len(held'[w]) = Len(held[w]) + 1
        /\ Len(held[w]) \in Nat
    BY <2>1, <2>2, <1>1, DraftWritten, Lengths DEF Saving
  <2> QED
    BY <2>2, <2>3, <1>3
<1>6. ask[r].op \in {"create", "save"} /\ at[r] \notin {"binding", "versioning", "done"} =>
        SaveRow(r) \/ InsertRow(r)
  <2>1. CASE at'[r] \in {"binding", "versioning"} /\ at[r] \notin {"binding", "versioning", "done"}
    BY <2>1, BindingFollows, <1>3
  <2>2. CASE at'[r] = "done" /\ at[r] \notin {"binding", "versioning", "done"}
    BY <2>2, <1>1, DoneFollows
       DEF LoadRow, DeleteRow, RunPublished, CreateVersion, RequestInv, StepFitsOperation
  <2> QED
    BY <2>1, <2>2
<1> QED
  BY <1>3, <1>4, <1>5, <1>6

LEMMA DeleteKept ==
  ASSUME TypeInv, AnswerInv, [Next]_vars, NEW r \in Requests
  PROVE  DeleteInv(r)'
<1>1. /\ ManagementTypeOK /\ RowsTypeOK /\ StoredIsHeld /\ RequestInv(r) /\ RequestInv(r)'
      /\ DeleteInv(r)
  BY NextTypes DEF TypeInv, TypeOK, AnswerInv
<1>2. SUFFICES ASSUME \/ at'[r] = "deleting"
                      \/ at'[r] = "done" /\ ask'[r].op = "delete"
               PROVE  /\ target'[r] \in Workflows /\ held'[target'[r]] # <<>>
                      /\ at'[r] = "done" => target'[r] \notin stored'
  BY DEF DeleteInv
<1>3. at[r] # "idle" /\ ask'[r] = ask[r] /\ ask[r].op = "delete"
  <2>1. ReceiveRequest(r) \/ ReceiveReference(r) => at'[r] \notin {"deleting", "done"}
    BY <1>1 DEF ReceiveRequest, ReceiveReference, Arrive, Go, ActStep, ManagementTypeOK
  <2>2. at[r] # "idle"
    BY <2>1, <1>2, IdleUntilReceived
  <2>3. ask'[r].op = "delete"
    BY <1>1, <1>2 DEF RequestInv, StepFitsOperation
  <2> QED
    BY <2>2, <2>3, RequestsKept
<1>4. \A w \in Workflows : held[w] # <<>> => held'[w] # <<>>
  <2>1. \A w \in Workflows : held[w] \in Seq(Contents)
    BY <1>1 DEF RowsTypeOK
  <2>2. \A w \in Workflows : held'[w] = held[w] \/ \E c \in Contents : held'[w] = Append(held[w], c)
    BY HeldGrows
  <2> QED
    BY <2>1, <2>2
<1>5. \A w \in stored' \ stored : held[w] = <<>>
  BY RowsAdded
<1>6. CASE at[r] = "deleting" \/ at[r] = "done"
  <2>1. target'[r] = target[r] /\ target[r] \in Workflows /\ held[target[r]] # <<>>
    BY <1>1, <1>3, <1>6, UsedKept DEF DeleteInv
  <2>2. at'[r] = "done" => target[r] \notin stored'
    <3>1. CASE at[r] = "done"
      BY <2>1, <3>1, <1>1, <1>3, <1>5 DEF DeleteInv
    <3>2. CASE at[r] = "deleting" /\ at'[r] = "done"
      <4>1. DeleteRow(r)
        BY <3>2, DoneFollows
           DEF LoadRow, SaveRow, InsertRow, RunPublished, CreateVersion
      <4> QED
        BY <4>1 DEF DeleteRow, RemoveRow
    <3> QED
      BY <3>1, <3>2, <1>6
  <2> QED
    BY <2>1, <2>2, <1>4
<1>7. CASE at[r] \notin {"deleting", "done"}
  <2>1. LoadRow(r) /\ at'[r] = "deleting"
    <3>1. CASE at'[r] = "done"
      BY <3>1, <1>1, <1>3, <1>7, DoneFollows
         DEF LoadRow, SaveRow, InsertRow, DeleteRow, RunPublished, CreateVersion, RequestInv,
             StepFitsOperation
    <3>2. CASE at'[r] = "deleting"
      BY <3>2, <1>1, <1>7, OwnSteps
         DEF StaysPut, StepOf, ReceiveRequest, ReceiveReference, Arrive, FindByName, FindSimilar,
             ListOwn, ListShared, LoadRow, LoadPublished, SaveRow, InsertRow, DeleteRow,
             RunPublished, PublishRow, CreateVersion, RequestFails, LookUp, Resolve, Go, ActStep,
             AfterSave, ManagementTypeOK
    <3> QED
      BY <3>1, <3>2, <1>2
  <2>2. target[r] \in stored /\ target'[r] = target[r] /\ UNCHANGED held
    BY <2>1 DEF LoadRow, rowVars
  <2> QED
    BY <2>1, <2>2, <1>1 DEF RowsTypeOK, StoredIsHeld
<1> QED
  BY <1>6, <1>7

LEMMA VersionsGrow ==
  ASSUME [Next]_vars
  PROVE  versions \subseteq versions'
<1>1. CASE ManagementNext
  BY <1>1
     DEF ManagementNext, ReceiveRequest, ReceiveReference, Arrive, FindByName, FindSimilar,
         ListOwn, ListShared, LoadRow, LoadPublished, SaveRow, InsertRow, DeleteRow, RunPublished,
         PublishRow, CreateVersion, RequestFails, LookUp, Deactivate, rowVars
<1>2. CASE AgentNext
  BY <1>2
     DEF AgentNext, ReceiveOrder, RefuseItem, CreateItem, ExecuteCreated, UpdateItem, PublishItem,
         ExecuteItem, DeleteItem, ResolveChild, Link, RejectItem, Answer, rowVars
<1> QED
  BY <1>1, <1>2 DEF Next, vars, rowVars

LEMMA PublishedIsThere ==
  ASSUME TypeInv, AnswerInv, [Next]_vars, NEW r \in Requests, at'[r] = "versioning"
  PROVE  \E k \in 1..Len(published'[target'[r]]) : published'[target'[r]][k] = Publishing(r)'
<1>1. ManagementTypeOK /\ RowsTypeOK /\ RequestInv(r)
  BY DEF TypeInv, TypeOK
<1>2. CASE at[r] = "versioning"
  <2>1. target'[r] = target[r] /\ used'[r] = used[r] /\ target[r] \in Workflows
    BY <1>1, <1>2, UsedKept DEF RequestInv
  <2>2. binding'[r] = binding[r]
    BY <1>2, OwnSteps
       DEF StaysPut, StepOf, ReceiveRequest, ReceiveReference, Arrive, FindByName, FindSimilar,
           ListOwn, ListShared, LoadRow, LoadPublished, SaveRow, InsertRow, DeleteRow,
           RunPublished, PublishRow, CreateVersion, RequestFails, LookUp
  <2>3. \E k \in 1..Len(published[target[r]]) : published[target[r]][k] = Publishing(r)
    BY <1>2 DEF AnswerInv, VersionInv
  <2> QED
    BY <2>1, <2>2, <2>3, RowsGrow DEF Publishing
<1>3. CASE PublishRow(r)
  <2>1. /\ target[r] \in Workflows /\ used[r] \in Definitions /\ r \in Actors
        /\ binding[r] \in [Nodes -> Credentials \cup {None}]
        /\ UNCHANGED <<target, used, binding>>
    BY <1>1, <1>3, ManagementAssumption DEF PublishRow, RequestInv, ManagementTypeOK
  <2> DEFINE w == target[r]
  <2>2. published'[w][Len(published[w]) + 1] = Publishing(r)
        /\ Len(published'[w]) = Len(published[w]) + 1 /\ Len(published[w]) \in Nat
    BY <2>1, <1>1, <1>3, PublicationWritten, Lengths DEF PublishRow, Publishing
  <2> QED
    BY <2>1, <2>2 DEF Publishing
<1>4. at[r] # "versioning" => PublishRow(r)
  BY <1>1, OwnSteps
     DEF StaysPut, StepOf, ReceiveRequest, ReceiveReference, Arrive, FindByName, FindSimilar,
         ListOwn, ListShared, LoadRow, LoadPublished, SaveRow, InsertRow, DeleteRow, RunPublished,
         CreateVersion, RequestFails, LookUp, Resolve, Go, ActStep, AfterSave, ManagementTypeOK
<1> QED
  BY <1>2, <1>3, <1>4

LEMMA VersionKept ==
  ASSUME TypeInv, AnswerInv, [Next]_vars, NEW r \in Requests
  PROVE  VersionInv(r)'
<1>1. ManagementTypeOK /\ RowsTypeOK /\ RequestInv(r) /\ VersionInv(r)
  BY DEF TypeInv, TypeOK, AnswerInv
<1>2. ASSUME at'[r] = "done",
             ask'[r].op = "publish" \/ (ask'[r].op \in {"create", "save"} /\ ask'[r].publish)
      PROVE  /\ target'[r] \in Workflows
             /\ \E k \in 1..Len(published'[target'[r]]) :
                  /\ published'[target'[r]][k].by = r
                  /\ <<target'[r], published'[target'[r]][k]>> \in versions'
  <2>1. at[r] # "idle" /\ ask'[r] = ask[r]
    <3>1. ReceiveRequest(r) \/ ReceiveReference(r) => at'[r] # "done"
      BY <1>1 DEF ReceiveRequest, ReceiveReference, Arrive, Go, ActStep, ManagementTypeOK
    <3> QED
      BY <3>1, <1>2, IdleUntilReceived, RequestsKept
  <2>2. CASE at[r] = "done"
    <3>1. target'[r] = target[r] /\ target[r] \in Workflows
      BY <2>1, <2>2, <1>1, <1>2, UsedKept DEF VersionInv
    <3>2. PICK k \in 1..Len(published[target[r]]) :
            published[target[r]][k].by = r /\ <<target[r], published[target[r]][k]>> \in versions
      BY <2>1, <2>2, <1>1, <1>2 DEF VersionInv
    <3>3. k \in 1..Len(published'[target[r]]) /\ published'[target[r]][k] = published[target[r]][k]
      BY <3>1, RowsGrow
    <3> QED
      BY <3>1, <3>2, <3>3, VersionsGrow
  <2>3. CASE CreateVersion(r)
    <3>1. /\ at[r] = "versioning" /\ UNCHANGED <<target, published>>
          /\ <<target[r], Publishing(r)>> \in versions'
      BY <2>3 DEF CreateVersion, Publishing
    <3>2. PICK k \in 1..Len(published[target[r]]) : published[target[r]][k] = Publishing(r)
      BY <3>1, <1>1 DEF VersionInv
    <3>3. Publishing(r).by = r /\ target[r] \in Workflows
      BY <3>1, <1>1 DEF Publishing, RequestInv
    <3> QED
      BY <3>1, <3>2, <3>3
  <2>4. at[r] # "done" => CreateVersion(r)
    BY <2>1, <1>1, <1>2, DoneFollows
       DEF SaveRow, InsertRow, DeleteRow, RunPublished, RequestInv, StepFitsOperation
  <2> QED
    BY <2>2, <2>3, <2>4
<1> QED
  BY <1>2, PublishedIsThere DEF VersionInv

\* What a request answers is so: what it saved was written, what it published has a version and
\* what it deleted is gone; and an agent's list of created workflows is exact.
THEOREM AnswersAreTrue == Spec => []AnswerIsTrue
<1>1. Init => AnswerInv
  <2> SUFFICES ASSUME Init PROVE AnswerInv
    OBVIOUS
  <2>1. ASSUME NEW a \in Agents, NEW w \in Workflows, held[w] # <<>> PROVE held[w][1].by # a
    <3>1. First[w] # None /\ held[w] = <<First[w]>>
      BY <2>1 DEF Init, RowsInit
    <3>2. First[w].by = None
      BY <3>1, RowsAssumption
    <3> QED
      BY <3>1, <3>2, RowsAssumption, AgentAssumption
  <2>2. CreatedIsExact
    BY <2>1 DEF Init, AgentInit, CreatedIsExact
  <2> QED
    BY <2>2 DEF Init, ManagementInit, AnswerInv, SavedInv, VersionInv, DeleteInv
<1>2. TypeInv /\ AnswerInv /\ [Next]_vars => AnswerInv'
  <2> SUFFICES ASSUME TypeInv, AnswerInv, [Next]_vars PROVE AnswerInv'
    OBVIOUS
  <2>1. CreatedIsExact'
    BY CreatedKept DEF AnswerInv
  <2> QED
    BY <2>1, SavedKept, VersionKept, DeleteKept DEF AnswerInv
<1>3. AnswerInv => AnswerIsTrue
  <2> SUFFICES ASSUME AnswerInv PROVE AnswerIsTrue
    OBVIOUS
  <2>1. ASSUME NEW r \in Requests, at[r] = "done"
        PROVE  LET q == ask[r]
                   w == target[r]
               IN  /\ q.op \in {"create", "save"} =>
                        [name |-> q.name, definition |-> q.definition, by |-> r]
                          \in {held[w][i] : i \in 1..Len(held[w])}
                   /\ q.op = "publish" \/ (q.op \in {"create", "save"} /\ q.publish) =>
                        \E k \in 1..Len(published[w]) :
                          published[w][k].by = r /\ <<w, published[w][k]>> \in versions
                   /\ q.op = "delete" => w \notin stored
    <3>1. SavedInv(r) /\ VersionInv(r) /\ DeleteInv(r)
      BY DEF AnswerInv
    <3>2. ask[r].op \in {"create", "save"} =>
            \E i \in 1..Len(held[target[r]]) : held[target[r]][i] = Saving(r)
      BY <3>1, <2>1 DEF SavedInv
    <3> QED
      BY <3>1, <3>2, <2>1 DEF VersionInv, DeleteInv, Saving
  <2> QED
    BY <2>1 DEF AnswerInv, CreatedIsExact, AnswerIsTrue
<1> QED
  BY <1>1, <1>2, <1>3, TypeInvariant, PTL DEF Spec

==================================================================================
