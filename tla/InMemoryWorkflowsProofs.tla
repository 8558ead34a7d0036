------------------------- MODULE InMemoryWorkflowsProofs -------------------------
(***************************************************************************)
(* What a caller of execute is told agrees with the execution's row, and   *)
(* settled executions change by an abort only, for any calls.              *)
(***************************************************************************)
EXTENDS InMemoryWorkflows, FiniteSetTheorems, TLAPS

-------------------------------------------------------------------------------
(* Types. *)

\* A version number is a number: finitely many versions are listed.
LEMMA NumbersAreNumbers ==
  ASSUME TypeOK, NEW w
  PROVE  NextNumber(w) \in Nat
<1> DEFINE S == {i \in Listed : Cardinality(Before(i)) < ListLimit /\ versions[i].workflow = w}
<1>1. Len(versions) \in Nat
  BY DEF TypeOK
<1>2. IsFiniteSet(1..Len(versions))
  BY <1>1, FS_Interval
<1>3. S \subseteq 1..Len(versions)
  BY DEF Listed
<1>4. Cardinality(S) \in Nat
  BY <1>2, <1>3, FS_Subset, FS_CardinalityType
<1> QED
  BY <1>4 DEF NextNumber

\* Adding a version keeps the types of what UpdateTo and Create write.
LEMMA VersionsGrow ==
  ASSUME TypeOK, NEW w \in Workflows, NEW n \in Nat, NEW d \in Definitions, NewVersion(w, n, d)
  PROVE  /\ versions' \in Seq(Version)
         /\ Len(versions') = Len(versions) + 1
<1> DEFINE v == [workflow |-> w, number |-> n, definition |-> d, listed |-> TRUE]
<1>1. v \in Version
  BY DEF Version
<1>2. versions \in Seq(Version) /\ versions' = Append(versions, v)
  BY DEF TypeOK, NewVersion
<1> HIDE DEF v
<1> QED
  BY <1>1, <1>2

\* A published version stays a version when more are added.
LEMMA PublishedStays ==
  ASSUME TypeOK, Len(versions') = Len(versions) + 1
  PROVE  published \in [Workflows -> 0..Len(versions')]
<1>1. Len(versions) \in Nat
  BY DEF TypeOK
<1>2. \A w \in Workflows : published[w] \in 0..Len(versions')
  BY <1>1 DEF TypeOK
<1> QED
  BY <1>2 DEF TypeOK

\* An update of a workflow keeps the types of the repositories.
LEMMA UpdateKeepsTypes ==
  ASSUME TypeOK, NEW w \in Workflows, NEW d \in Definitions, UpdateTo(w, d)
  PROVE  /\ definition' \in [Workflows -> Definitions]
         /\ versions' \in Seq(Version)
         /\ published' \in [Workflows -> 0..Len(versions')]
         /\ stored' \subseteq Workflows
         /\ trimmed' \subseteq Workflows
<1>1. NextNumber(w) \in Nat
  BY NumbersAreNumbers
<1>2. versions' \in Seq(Version) /\ Len(versions') = Len(versions) + 1
  BY <1>1, VersionsGrow DEF UpdateTo
<1>3. published' \in [Workflows -> 0..Len(versions')]
  BY <1>2, PublishedStays DEF UpdateTo
<1> QED
  BY <1>2, <1>3 DEF UpdateTo, TypeOK

\* What an import or a patch makes of a definition is a definition.
LEMMA EditedDefinitions ==
  ASSUME NEW d \in Definitions
  PROVE  /\ \A n \in Nodes : WithNode(d, n) \in Definitions
         /\ \A p \in [nodes : Optional, edges : Optional] : Patched(d, p) \in Definitions
<1>1. \A o \in Optional : UNION o \in SUBSET Nodes
  BY DEF Optional
<1>2. \A n \in Nodes : WithNode(d, n) \in Definitions
  BY DEF WithNode, Definitions
<1>3. ASSUME NEW p \in [nodes : Optional, edges : Optional]
      PROVE  Patched(d, p) \in Definitions
  BY <1>1 DEF Patched, Definitions
<1> QED
  BY <1>2, <1>3

RepositoryTypes ==
  /\ stored \subseteq Workflows
  /\ definition \in [Workflows -> Definitions]
  /\ published \in [Workflows -> 0..Len(versions)]
  /\ versions \in Seq(Version)
  /\ trimmed \subseteq Workflows /\ replaced \subseteq Workflows

CallTypes ==
  /\ edit \in [Calls -> {"idle", "waiting", "executing", "done", "rejected"}]
  /\ seen \in [Edits -> Definitions]
  /\ messages \in Nat
  /\ read \in [Debugs -> Nat]
  /\ stale \subseteq Workflows
  /\ met \in BOOLEAN

ExecutionTypes ==
  /\ at \in [Executions -> Places]
  /\ row \in [Executions -> {"none", "running", "success", "error", "aborted"}]
  /\ process \in [Executions -> {"none", "running", "completed", "failed", "aborted"}]

\* The type invariant in the three parts that the steps are proved for.
LEMMA TypesSplit == TypeOK <=> RepositoryTypes /\ CallTypes /\ ExecutionTypes
BY DEF TypeOK, RepositoryTypes, CallTypes, ExecutionTypes

\* The calls are about workflows, and the versions in the repository have their parts.
LEMMA CallsAreTyped ==
  ASSUME TypeOK
  PROVE  /\ \A c \in Saves \cup Edits \cup Runs : WorkflowOf[c] \in Workflows
         /\ \A i \in 1..Len(versions) : /\ versions[i].workflow \in Workflows
                                        /\ versions[i].definition \in Definitions
<1>1. \A i \in 1..Len(versions) : versions[i] \in Version
  BY DEF TypeOK
<1> QED
  BY <1>1, InMemoryAssumption DEF Version

\* Every step keeps the types of the repositories.
LEMMA RepositoryStep == TypeOK /\ [Next]_vars => RepositoryTypes'
<1> SUFFICES ASSUME TypeOK, [Next]_vars PROVE RepositoryTypes'
  OBVIOUS
<1>0. CASE UNCHANGED editVars
  BY <1>0 DEF TypeOK, RepositoryTypes, editVars
<1>1. ASSUME NEW w \in Workflows, Create(w) PROVE RepositoryTypes'
  <2>1. definition[w] \in Definitions
    BY DEF TypeOK
  <2>2. versions' \in Seq(Version) /\ Len(versions') = Len(versions) + 1
    BY <1>1, <2>1, VersionsGrow DEF Create
  <2>3. published' \in [Workflows -> 0..Len(versions')]
    BY <1>1, <2>2, PublishedStays DEF Create
  <2> QED
    BY <1>1, <2>2, <2>3 DEF Create, TypeOK, RepositoryTypes
<1>2. ASSUME NEW w \in Workflows, NEW c \in Deletions, DeleteWorkflow(c, w) PROVE RepositoryTypes'
  BY <1>2 DEF DeleteWorkflow, TypeOK, RepositoryTypes
<1>3. ASSUME NEW i \in 1..Len(versions), NEW c \in Deletions, VersionsDelete(c, i)
      PROVE  RepositoryTypes'
  <2>1. versions' = [versions EXCEPT ![i] = [@ EXCEPT !.listed = FALSE]]
    BY <1>3 DEF VersionsDelete
  <2>2. versions[i] \in Version
    BY DEF TypeOK
  <2>3. [versions[i] EXCEPT !.listed = FALSE] \in Version
    BY <2>2 DEF Version
  <2>4. versions' \in Seq(Version) /\ Len(versions') = Len(versions)
    BY <2>1, <2>3 DEF TypeOK
  <2> QED
    BY <1>3, <2>2, <2>4 DEF VersionsDelete, TypeOK, RepositoryTypes, Version
<1>4. ASSUME NEW i \in 1..Len(versions), NEW c \in Publications, VersionsPublish(c, i)
      PROVE  RepositoryTypes'
  <2>1. versions[i].workflow \in Workflows /\ versions[i].definition \in Definitions
    BY CallsAreTyped
  <2>2. definition' \in [Workflows -> Definitions]
    BY <1>4, <2>1 DEF VersionsPublish, TypeOK
  <2>3. published' \in [Workflows -> 0..Len(versions')]
    BY <1>4, <2>1 DEF VersionsPublish, TypeOK
  <2> QED
    BY <1>4, <2>1, <2>2, <2>3 DEF VersionsPublish, TypeOK, RepositoryTypes
<1>5. ASSUME NEW c \in Saves, Save(c) PROVE RepositoryTypes'
  <2>1. WorkflowOf[c] \in Workflows /\ Given[c] \in Definitions
    BY CallsAreTyped, InMemoryAssumption
  <2>2. UpdateTo(WorkflowOf[c], Given[c]) /\ replaced' = replaced \cup {WorkflowOf[c]}
    BY <1>5 DEF Save
  <2> QED
    BY <2>1, <2>2, UpdateKeepsTypes DEF RepositoryTypes, TypeOK
<1>6. ASSUME NEW c \in Imports, FinishImport(c) PROVE RepositoryTypes'
  <2>1. WorkflowOf[c] \in Workflows
    BY CallsAreTyped DEF Edits
  <2>2. WithNode(seen[c], c) \in Definitions
    BY EditedDefinitions DEF TypeOK, Nodes, Edits
  <2>3. UpdateTo(WorkflowOf[c], WithNode(seen[c], c)) /\ UNCHANGED replaced
    BY <1>6 DEF FinishImport
  <2> QED
    BY <2>1, <2>2, <2>3, UpdateKeepsTypes DEF RepositoryTypes, TypeOK
<1>7. ASSUME NEW d \in Debugs, AgentAnswers(d) PROVE RepositoryTypes'
  <2>1. WorkflowOf[d] \in Workflows
    BY CallsAreTyped DEF Edits
  <2>2. CASE d \in DOMAIN Patch /\ UpdateTo(WorkflowOf[d], Patched(seen[d], Patch[d]))
                /\ replaced' = IF Patch[d].nodes = {} THEN replaced
                                                     ELSE replaced \cup {WorkflowOf[d]}
    <3>1. Patched(seen[d], Patch[d]) \in Definitions
      BY <2>2, EditedDefinitions, InMemoryAssumption DEF TypeOK, Edits
    <3> QED
      BY <2>1, <2>2, <3>1, UpdateKeepsTypes DEF RepositoryTypes, TypeOK
  <2> QED
    BY <1>7, <1>0, <2>2 DEF AgentAnswers, ApplyPatch
<1> QED
  BY <1>0, <1>1, <1>2, <1>3, <1>4, <1>5, <1>6, <1>7
  DEF Next, vars, StartImport, StartDebug, Reads, FinishDebug, Rejects, Execute, ExecutionStep,
      Announced, AnnouncementFails, AdapterAnswers, AdapterFails, SuccessAnnounced,
      SuccessAnnouncementFails, ErrorAnnounced, AbortExecution, Advance, editVars

\* Every step keeps the types of what the calls hold.
LEMMA CallStep == TypeOK /\ [Next]_vars => CallTypes'
<1> SUFFICES ASSUME TypeOK, [Next]_vars PROVE CallTypes'
  OBVIOUS
<1>0. CASE UNCHANGED callVars
  BY <1>0 DEF TypeOK, CallTypes, callVars
<1>1. \A c \in Edits : WorkflowOf[c] \in Workflows /\ definition[WorkflowOf[c]] \in Definitions
  BY CallsAreTyped DEF TypeOK
<1>2. Empty \in Definitions
  BY DEF Empty, Definitions
<1>2a. Executing \subseteq Debugs /\ \A d \in Debugs : CountMessages(d) \in Nat
  BY InMemoryAssumption DEF CountMessages, TypeOK
<1>3. ASSUME NEW c \in Deletions, NEW w \in Workflows, DeleteWorkflow(c, w) PROVE CallTypes'
  BY <1>3 DEF DeleteWorkflow, TypeOK, CallTypes
<1>4. ASSUME NEW i \in 1..Len(versions), NEW c \in Deletions, VersionsDelete(c, i) PROVE CallTypes'
  BY <1>4 DEF VersionsDelete, TypeOK, CallTypes
<1>5. ASSUME NEW i \in 1..Len(versions), NEW c \in Publications, VersionsPublish(c, i)
      PROVE  CallTypes'
  BY <1>5, CallsAreTyped DEF VersionsPublish, TypeOK, CallTypes
<1>6. ASSUME NEW c \in Saves, Save(c) PROVE CallTypes'
  BY <1>6, CallsAreTyped DEF Save, Wrote, TypeOK, CallTypes
<1>7. ASSUME NEW c \in Imports, StartImport(c) PROVE CallTypes'
  BY <1>7, <1>1 DEF StartImport, Reads, TypeOK, CallTypes, Edits
<1>8. ASSUME NEW c \in Imports, FinishImport(c) PROVE CallTypes'
  BY <1>8, <1>1, <1>2 DEF FinishImport, Forget, Wrote, TypeOK, CallTypes, Edits
<1>9. ASSUME NEW d \in Debugs, StartDebug(d) PROVE CallTypes'
  BY <1>9, <1>1 DEF StartDebug, Reads, TypeOK, CallTypes, Edits
<1>10. ASSUME NEW d \in Debugs, AgentAnswers(d) PROVE CallTypes'
  <2>1. stale' \subseteq Workflows
    BY <1>10, <1>1 DEF AgentAnswers, ApplyPatch, Wrote, TypeOK, Edits
  <2>2. messages' \in {messages, CountMessages(d)}
    BY <1>10 DEF AgentAnswers
  <2>3. edit' \in [Calls -> {"idle", "waiting", "executing", "done", "rejected"}]
    BY <1>10 DEF AgentAnswers, TypeOK
  <2> QED
    BY <1>10, <1>2, <1>2a, <2>1, <2>2, <2>3 DEF AgentAnswers, Forget, TypeOK, CallTypes
<1>11. ASSUME NEW d \in Executing, FinishDebug(d) PROVE CallTypes'
  BY <1>11, <1>2a DEF FinishDebug, TypeOK, CallTypes
<1>12. ASSUME NEW c \in Edits, Rejects(c) PROVE CallTypes'
  BY <1>12, <1>2 DEF Rejects, Forget, TypeOK, CallTypes
<1> QED
  BY <1>0, <1>3, <1>4, <1>5, <1>6, <1>7, <1>8, <1>9, <1>10, <1>11, <1>12
  DEF Next, vars, Create, Execute, ExecutionStep, Announced, AnnouncementFails, AdapterAnswers,
      AdapterFails, SuccessAnnounced, SuccessAnnouncementFails, ErrorAnnounced, AbortExecution,
      Advance

\* Every step keeps the types of executions.
LEMMA ExecutionTypeStep == TypeOK /\ [Next]_vars => ExecutionTypes'
<1> SUFFICES ASSUME TypeOK, [Next]_vars PROVE ExecutionTypes'
  OBVIOUS
<1> USE DEF TypeOK, ExecutionTypes, Places
<1>0. CASE UNCHANGED executionVars
  BY <1>0 DEF executionVars
<1>1. ASSUME NEW x \in Executions, NEW d, NEW e, Start(x, d, e) PROVE ExecutionTypes'
  BY <1>1 DEF Start
<1>2. ASSUME NEW x \in Executions, ExecutionStep(x) PROVE ExecutionTypes'
  BY <1>2 DEF ExecutionStep, Announced, AnnouncementFails, AdapterAnswers, AdapterFails,
              SuccessAnnounced, SuccessAnnouncementFails, ErrorAnnounced, AbortExecution, Advance,
              Settle
<1>3. ASSUME NEW x \in Runs, Execute(x) PROVE ExecutionTypes'
  BY <1>3, <1>1 DEF Execute, Executions
<1>4. ASSUME NEW d \in Debugs, AgentAnswers(d) PROVE ExecutionTypes'
  BY <1>4, <1>0, <1>1 DEF AgentAnswers, Executions
<1> QED
  BY <1>0, <1>2, <1>3, <1>4
  DEF Next, vars, Create, DeleteWorkflow, VersionsDelete, VersionsPublish, Save, StartImport,
      StartDebug, Reads, FinishImport, FinishDebug, Rejects

\* The types hold before any call.
LEMMA TypesOfInit == Init => TypeOK
<1> SUFFICES ASSUME Init PROVE TypeOK
  OBVIOUS
<1>1. Empty \in Definitions
  BY DEF Empty, Definitions
<1>2. versions \in Seq(Version) /\ Len(versions) = 0
  BY DEF Init
<1>3. RepositoryTypes
  BY <1>1, <1>2 DEF Init, RepositoryTypes
<1>4. CallTypes
  BY <1>1 DEF Init, CallTypes
<1>5. ExecutionTypes
  BY DEF Init, ExecutionTypes, Places
<1> QED
  BY <1>3, <1>4, <1>5, TypesSplit

\* Definitions, versions, calls and executions have their types.
THEOREM TypeCorrect == Spec => []TypeOK
<1>1. Init => TypeOK
  BY TypesOfInit
<1>2. TypeOK /\ [Next]_vars => TypeOK'
  <2> SUFFICES ASSUME TypeOK, [Next]_vars PROVE TypeOK'
    OBVIOUS
  <2>1. RepositoryTypes' /\ CallTypes' /\ ExecutionTypes'
    BY RepositoryStep, CallStep, ExecutionTypeStep
  <2> QED
    BY <2>1 DEF TypeOK, RepositoryTypes, CallTypes, ExecutionTypes
<1> QED
  BY <1>1, <1>2, PTL DEF Spec

-------------------------------------------------------------------------------
(* Executions. *)

\* The process has the status of the row.
Tracked(x) ==
  <<row[x], process[x]>> \in
    {<<"none", "none">>, <<"running", "running">>, <<"success", "completed">>,
     <<"error", "failed">>, <<"aborted", "aborted">>}

\* What a call that is under way has made of its row, if nobody has aborted it.
RowFollows(x) ==
  /\ at[x] = "idle" => row[x] = "none"
  /\ at[x] \in {"announcing", "adapter"} => row[x] \in {"running", "aborted"}
  /\ at[x] = "announcingSuccess" => row[x] \in {"success", "aborted"}
  /\ at[x] = "announcingError" => row[x] \in {"error", "aborted"}

\* What a call that is over has told.
Told(x) ==
  /\ at[x] = "resolved" => row[x] \in {"success", "aborted"}
  /\ at[x] = "rejected" =>
       row[x] \in {"none", "error", "aborted"} \/ (row[x] = "running" /\ <<x, "started">> \in Throws)

\* A debug call that has no answer yet has not executed.
NotYetExecuting == \A d \in Executing : edit[d] \in {"idle", "waiting"} => at[d] = "idle"

ExecutionInv ==
  /\ TypeOK
  /\ NotYetExecuting
  /\ \A x \in Executions : Tracked(x) /\ RowFollows(x) /\ Told(x)

\* The invariant gives what callers are promised.
LEMMA ToldIsAgreed == ExecutionInv => CallerAgrees
BY DEF ExecutionInv, Tracked, Told, CallerAgrees

\* An execution that this step leaves alone keeps its part of the invariant.
LEMMA AloneIsKept ==
  ASSUME NEW y, Tracked(y), RowFollows(y), Told(y),
         at'[y] = at[y], row'[y] = row[y], process'[y] = process[y]
  PROVE  Tracked(y)' /\ RowFollows(y)' /\ Told(y)'
BY DEF Tracked, RowFollows, Told

\* An execution that starts, or is refused, from nothing.
LEMMA StartFollows ==
  ASSUME ExecutionInv, NEW x \in Executions, NEW d, NEW e, at[x] = "idle", Start(x, d, e)
  PROVE  /\ \A y \in Executions : Tracked(y)' /\ RowFollows(y)' /\ Told(y)'
         /\ \A y \in Executions \ {x} : at'[y] = at[y] /\ row'[y] = row[y]
         /\ row[x] = "none"
<1> USE DEF ExecutionInv, TypeOK, ExecutionTypes
<1>1. row[x] = "none" /\ process[x] = "none"
  BY DEF RowFollows, Tracked
<1>2. \A y \in Executions \ {x} : at'[y] = at[y] /\ row'[y] = row[y] /\ process'[y] = process[y]
  BY DEF Start
<1>3. \A y \in Executions \ {x} : Tracked(y)' /\ RowFollows(y)' /\ Told(y)'
  BY <1>2, AloneIsKept
<1>4. \/ at'[x] = "announcing" /\ row'[x] = "running" /\ process'[x] = "running"
      \/ at'[x] = "rejected" /\ row'[x] = "none" /\ process'[x] = "none"
  BY <1>1 DEF Start
<1>5. Tracked(x)' /\ RowFollows(x)' /\ Told(x)'
  BY <1>4 DEF Tracked, RowFollows, Told
<1> QED
  BY <1>1, <1>2, <1>3, <1>5

\* A step of an execution keeps what its row and its process say of it.
LEMMA StepFollows ==
  ASSUME ExecutionInv, NEW x \in Executions, ExecutionStep(x)
  PROVE  /\ \A y \in Executions : Tracked(y)' /\ RowFollows(y)' /\ Told(y)'
         /\ \A y \in Executions \ {x} : at'[y] = at[y] /\ row'[y] = row[y]
         /\ at[x] # "idle" \/ (at'[x] = at[x] /\ row[x] # "none")
         /\ at[x] \in {"idle", "resolved", "rejected"} => row'[x] = "aborted"
<1> USE DEF ExecutionInv, TypeOK
<1> USE DEF ExecutionStep, Advance, Settle, Announced, AnnouncementFails, AdapterAnswers,
            AdapterFails, SuccessAnnounced, SuccessAnnouncementFails, ErrorAnnounced,
            AbortExecution
<1>1. \A y \in Executions \ {x} : at'[y] = at[y] /\ row'[y] = row[y] /\ process'[y] = process[y]
  OBVIOUS
<1>2. \A y \in Executions \ {x} : Tracked(y)' /\ RowFollows(y)' /\ Told(y)'
  BY <1>1, AloneIsKept
<1>3. /\ at[x] # "idle" \/ (at'[x] = at[x] /\ row[x] # "none")
      /\ at[x] \in {"idle", "resolved", "rejected"} => row'[x] = "aborted"
  OBVIOUS
<1>4. Tracked(x)'
  BY DEF Tracked
<1>5. RowFollows(x)' /\ Told(x)'
  BY DEF RowFollows, Told
<1> QED
  BY <1>1, <1>2, <1>3, <1>4, <1>5

\* What a step may do to executions: nothing, start one that is idle, or advance one.
LEMMA StepCases ==
  ASSUME ExecutionInv, [Next]_vars
  PROVE  \/ UNCHANGED executionVars
         \/ \E x \in Executions : ExecutionStep(x) /\ UNCHANGED edit
         \/ \E x \in Runs : \E d, e : at[x] = "idle" /\ Start(x, d, e) /\ UNCHANGED edit
         \/ \E x \in Executing : \E d, e :
              /\ edit[x] = "waiting" /\ edit' = [edit EXCEPT ![x] = "executing"]
              /\ Start(x, d, e)
<1>1. ASSUME NEW d \in Debugs, AgentAnswers(d)
      PROVE  \/ UNCHANGED executionVars
             \/ /\ d \in Executing
                /\ edit[d] = "waiting" /\ edit' = [edit EXCEPT ![d] = "executing"]
                /\ Start(d, definition'[WorkflowOf[d]], TRUE)
  BY <1>1 DEF AgentAnswers
<1>2. ASSUME NEW x \in Executions, ExecutionStep(x) PROVE UNCHANGED edit
  BY <1>2
  DEF ExecutionStep, Announced, AnnouncementFails, AdapterAnswers, AdapterFails, SuccessAnnounced,
      SuccessAnnouncementFails, ErrorAnnounced, AbortExecution, Advance, callVars
<1>3. ASSUME NEW x \in Runs, Execute(x)
      PROVE  at[x] = "idle" /\ Start(x, definition[WorkflowOf[x]], WorkflowOf[x] \in stored)
             /\ UNCHANGED edit
  BY <1>3 DEF Execute, callVars
<1> QED
  BY <1>1, <1>2, <1>3
  DEF Next, vars, Create, DeleteWorkflow, VersionsDelete, VersionsPublish, Save, StartImport,
      StartDebug, Reads, FinishImport, FinishDebug, Rejects

\* Debug calls wait before they execute and never wait again.
LEMMA WaitingStep ==
  ASSUME ExecutionInv, [Next]_vars
  PROVE  \A d \in Executing : edit'[d] \in {"idle", "waiting"} => edit[d] \in {"idle", "waiting"}
<1>1. Executing \subseteq Calls
  BY InMemoryAssumption DEF Calls, Edits
<1> USE DEF ExecutionInv, TypeOK
<1>2. ASSUME NEW c \in Calls, NEW to \in {"done", "rejected", "executing"},
             edit' = [edit EXCEPT ![c] = to]
      PROVE  \A d \in Executing : edit'[d] \in {"idle", "waiting"} =>
               edit[d] \in {"idle", "waiting"}
  BY <1>1, <1>2
<1>3. ASSUME NEW c \in Calls, edit[c] = "idle", edit' = [edit EXCEPT ![c] = "waiting"]
      PROVE  \A d \in Executing : edit'[d] \in {"idle", "waiting"} =>
               edit[d] \in {"idle", "waiting"}
  BY <1>1, <1>3
<1>4. CASE UNCHANGED edit
  BY <1>4
<1>5. ASSUME NEW d \in Debugs, AgentAnswers(d)
      PROVE  \E to \in {"done", "executing"} : edit' = [edit EXCEPT ![d] = to]
  BY <1>5 DEF AgentAnswers
<1>6. ASSUME NEW d \in Executing, FinishDebug(d)
      PROVE  \E to \in {"done", "rejected"} : edit' = [edit EXCEPT ![d] = to]
  BY <1>6 DEF FinishDebug
<1>7. \/ UNCHANGED edit
      \/ \E c \in Calls, to \in {"done", "rejected", "executing"} : edit' = [edit EXCEPT ![c] = to]
      \/ \E c \in Calls : edit[c] = "idle" /\ edit' = [edit EXCEPT ![c] = "waiting"]
  BY <1>1, <1>5, <1>6
  DEF Calls, Edits, Next, vars, callVars, Create, DeleteWorkflow, VersionsDelete, VersionsPublish,
      Save, StartImport, StartDebug, Reads, FinishImport, Rejects, Execute, ExecutionStep,
      Announced, AnnouncementFails, AdapterAnswers, AdapterFails, SuccessAnnounced,
      SuccessAnnouncementFails, ErrorAnnounced, AbortExecution, Advance
<1> QED
  BY <1>2, <1>3, <1>4, <1>7

\* Every step keeps the invariant of executions.
LEMMA ExecutionInvStep == ExecutionInv /\ TypeOK' /\ [Next]_vars => ExecutionInv'
<1> SUFFICES ASSUME ExecutionInv, TypeOK', [Next]_vars
    PROVE  NotYetExecuting' /\ \A x \in Executions : Tracked(x)' /\ RowFollows(x)' /\ Told(x)'
  BY DEF ExecutionInv
<1>1. \A d \in Executing : edit'[d] \in {"idle", "waiting"} => at[d] = "idle"
  BY WaitingStep DEF ExecutionInv, NotYetExecuting
<1>2. CASE UNCHANGED executionVars
  BY <1>1, <1>2, AloneIsKept DEF ExecutionInv, NotYetExecuting, executionVars
<1>3. ASSUME NEW x \in Executions, ExecutionStep(x), UNCHANGED edit
      PROVE  NotYetExecuting' /\ \A y \in Executions : Tracked(y)' /\ RowFollows(y)' /\ Told(y)'
  <2>1. \A d \in Executing : at[d] = "idle" => at'[d] = "idle"
    BY <1>3, StepFollows DEF Executions
  <2> QED
    BY <1>1, <1>3, <2>1, StepFollows DEF NotYetExecuting
<1>4. ASSUME NEW x \in Runs, NEW d, NEW e, at[x] = "idle", Start(x, d, e), UNCHANGED edit
      PROVE  NotYetExecuting' /\ \A y \in Executions : Tracked(y)' /\ RowFollows(y)' /\ Told(y)'
  <2>1. x \notin Executing
    BY InMemoryAssumption DEF Edits
  <2> QED
    BY <1>1, <1>4, <2>1, StartFollows DEF NotYetExecuting, Executions
<1>5. ASSUME NEW x \in Executing, NEW d, NEW e, edit[x] = "waiting",
             edit' = [edit EXCEPT ![x] = "executing"], Start(x, d, e)
      PROVE  NotYetExecuting' /\ \A y \in Executions : Tracked(y)' /\ RowFollows(y)' /\ Told(y)'
  <2>1. at[x] = "idle" /\ x \in Executions
    BY <1>5 DEF ExecutionInv, NotYetExecuting, Executions
  <2>2. x \in Calls /\ edit'[x] = "executing"
    BY <1>5, InMemoryAssumption DEF Calls, Edits, ExecutionInv, TypeOK
  <2> QED
    BY <1>1, <1>5, <2>1, <2>2, StartFollows DEF NotYetExecuting, Executions
<1> QED
  BY <1>2, <1>3, <1>4, <1>5, StepCases

\* Rows, processes and calls of executions always follow each other.
THEOREM ExecutionInvariant == Spec => []ExecutionInv
<1>1. Init => ExecutionInv
  <2> SUFFICES ASSUME Init, TypeOK PROVE ExecutionInv
    BY TypesOfInit
  <2> QED
    BY InMemoryAssumption
    DEF Init, ExecutionInv, NotYetExecuting, Tracked, RowFollows, Told, Executions
<1>2. ExecutionInv /\ TypeOK' /\ [Next]_vars => ExecutionInv'
  BY ExecutionInvStep
<1> QED
  BY <1>1, <1>2, TypeCorrect, PTL DEF Spec

\* The caller of execute is told what the row and the process say.
THEOREM CallersAgree == Spec => []CallerAgrees
BY ExecutionInvariant, ToldIsAgreed, PTL

\* An execution that is over changes by an abort only.
THEOREM AbortIsFinal == Spec => AbortStands
<1>1. ExecutionInv /\ [Next]_vars =>
        [\A x \in Executions :
           row'[x] # row[x] /\ at[x] \in {"idle", "resolved", "rejected"} /\ row[x] # "none" =>
             row'[x] = "aborted"]_vars
  <2> SUFFICES ASSUME ExecutionInv, [Next]_vars, NEW x \in Executions,
                      row'[x] # row[x], at[x] \in {"idle", "resolved", "rejected"},
                      row[x] # "none"
               PROVE  row'[x] = "aborted"
    OBVIOUS
  <2>1. ASSUME NEW y \in Executions, ExecutionStep(y) PROVE row'[x] = "aborted"
    BY <2>1, StepFollows
  <2>2. ASSUME NEW y \in Executions, NEW d, NEW e, at[y] = "idle", Start(y, d, e) PROVE FALSE
    BY <2>2, StartFollows
  <2>3. CASE UNCHANGED executionVars
    BY <2>3 DEF executionVars
  <2>4. \A y \in Executing : edit[y] = "waiting" => at[y] = "idle"
    BY DEF ExecutionInv, NotYetExecuting
  <2> QED
    BY <2>1, <2>2, <2>3, <2>4, StepCases DEF Executions
<1> QED
  BY <1>1, ExecutionInvariant, PTL DEF Spec, AbortStands

-------------------------------------------------------------------------------
(* Imported nodes. *)

\* What a waiting call has read is what the workflow still is, unless somebody wrote meanwhile.
SeenNow ==
  \A e \in Edits : edit[e] = "waiting" /\ WorkflowOf[e] \notin stale =>
    seen[e] = definition[WorkflowOf[e]]

ImportInv == TypeOK /\ SeenNow /\ ImportsKept

\* A call that writes a workflow makes it stale for those that have read it.
LEMMA WriteKeepsSeen ==
  ASSUME ImportInv, NEW w \in Workflows, NEW d, NEW c \in Calls, NEW to \in {"done", "executing"},
         definition' = [definition EXCEPT ![w] = d],
         edit' = [edit EXCEPT ![c] = to],
         stale' = IF Under(w) \ {c} # {} THEN stale \cup {w} ELSE stale,
         \A e \in Edits \ {c} : seen'[e] = seen[e]
  PROVE  SeenNow'
<1> SUFFICES ASSUME NEW e \in Edits, edit'[e] = "waiting", WorkflowOf[e] \notin stale'
             PROVE  seen'[e] = definition'[WorkflowOf[e]]
  BY DEF SeenNow
<1>1. e # c /\ edit[e] = "waiting"
  BY DEF ImportInv, TypeOK, Calls
<1>2. seen[e] = definition[WorkflowOf[e]]
  BY <1>1 DEF ImportInv, SeenNow
<1>3. WorkflowOf[e] # w
  BY <1>1 DEF Under
<1> QED
  BY <1>1, <1>2, <1>3 DEF ImportInv, TypeOK

\* A step after which no node is gone and no import is over keeps what was imported.
LEMMA NodesStay ==
  ASSUME ImportInv, [Next]_vars, stale \subseteq stale', replaced \subseteq replaced',
         \A c \in Imports : edit'[c] = "done" => edit[c] = "done",
         \A w \in Workflows \ (stale' \cup replaced') :
           definition[w].nodes \subseteq definition'[w].nodes
  PROVE  ImportsKept'
<1> SUFFICES ASSUME NEW c \in Imports, edit'[c] = "done",
                    WorkflowOf[c] \notin stale' \cup replaced'
             PROVE  c \in definition'[WorkflowOf[c]].nodes
  BY DEF ImportsKept
<1>1. c \in definition[WorkflowOf[c]].nodes
  BY DEF ImportInv, ImportsKept
<1>2. WorkflowOf[c] \in Workflows
  BY CallsAreTyped DEF ImportInv, Edits
<1> QED
  BY <1>1, <1>2

\* Every step keeps what is seen and what was imported.
LEMMA ImportStep == ImportInv /\ TypeOK' /\ [Next]_vars => ImportInv'
<1> SUFFICES ASSUME ImportInv, TypeOK', [Next]_vars PROVE SeenNow' /\ ImportsKept'
  BY DEF ImportInv
<1>t. /\ TypeOK
      /\ \A e \in Edits : WorkflowOf[e] \in Workflows
      /\ Imports \cap Debugs = {} /\ Imports \subseteq Edits /\ Debugs \subseteq Edits
      /\ Edits \cap (Saves \cup Publications \cup Deletions) = {} /\ Executing \subseteq Debugs
  BY CallsAreTyped, InMemoryAssumption DEF ImportInv, Edits
<1>0. CASE UNCHANGED <<definition, replaced, edit, seen, stale>>
  BY <1>0 DEF ImportInv, SeenNow, ImportsKept
<1>1. ASSUME UNCHANGED <<definition, replaced, stale>>, UNCHANGED seen,
             \A e \in Edits : edit'[e] = edit[e]
      PROVE  SeenNow' /\ ImportsKept'
  BY <1>1, <1>t DEF ImportInv, SeenNow, ImportsKept
<1>2. ASSUME NEW c \in Edits, NEW to \in {"rejected", "executing", "done"},
             edit' = [edit EXCEPT ![c] = to], c \in Debugs \/ to = "rejected",
             UNCHANGED <<definition, replaced, stale>>,
             \A e \in Edits \ {c} : seen'[e] = seen[e]
      PROVE  SeenNow' /\ ImportsKept'
  <2>1. \A e \in Edits \ {c} : edit'[e] = edit[e]
    BY <1>2, <1>t DEF TypeOK, Calls
  <2>2. edit'[c] = to
    BY <1>2, <1>t DEF TypeOK, Calls
  <2>3. SeenNow'
    BY <1>2, <2>1, <2>2 DEF ImportInv, SeenNow
  <2>4. ImportsKept'
    BY <1>2, <1>t, <2>1, <2>2 DEF ImportInv, ImportsKept
  <2> QED
    BY <2>3, <2>4
<1>3. ASSUME NEW c \in Edits, Reads(c) PROVE SeenNow' /\ ImportsKept'
  <2>1. \A e \in Edits \ {c} : edit'[e] = edit[e] /\ seen'[e] = seen[e]
    BY <1>3, <1>t DEF Reads, TypeOK, Calls
  <2>2. edit'[c] = "waiting" /\ seen'[c] = definition[WorkflowOf[c]]
    BY <1>3, <1>t DEF Reads, TypeOK, Calls
  <2>3. UNCHANGED <<definition, replaced, stale>>
    BY <1>3 DEF Reads, editVars
  <2>4. SeenNow'
    BY <2>1, <2>2, <2>3 DEF ImportInv, SeenNow
  <2>5. ImportsKept'
    BY <1>t, <2>1, <2>2, <2>3 DEF ImportInv, ImportsKept
  <2> QED
    BY <2>4, <2>5
<1>4. ASSUME NEW i \in 1..Len(versions), NEW c \in Publications, VersionsPublish(c, i)
      PROVE  SeenNow' /\ ImportsKept'
  <2> DEFINE w == versions[i].workflow
  <2>1. w \in Workflows
    BY <1>t, CallsAreTyped
  <2>2. Under(w) \ {c} = Under(w)
    BY <1>t DEF Under
  <2>3. SeenNow'
    BY <1>4, <2>1, <2>2, WriteKeepsSeen DEF VersionsPublish, Calls
  <2>4. \A v \in Workflows \ {w} : definition'[v] = definition[v]
    BY <1>4, <1>t DEF VersionsPublish, TypeOK
  <2>5. w \in replaced' /\ replaced \subseteq replaced' /\ stale \subseteq stale'
    BY <1>4 DEF VersionsPublish
  <2>6. \A e \in Imports : edit'[e] = "done" => edit[e] = "done"
    BY <1>4, <1>t DEF VersionsPublish, TypeOK, Calls
  <2> QED
    BY <2>3, <2>4, <2>5, <2>6, NodesStay
<1>5. ASSUME NEW c \in Saves, Save(c) PROVE SeenNow' /\ ImportsKept'
  <2> DEFINE w == WorkflowOf[c]
  <2>1. w \in Workflows
    BY <1>t, CallsAreTyped
  <2>3. SeenNow'
    BY <1>5, <2>1, WriteKeepsSeen DEF Save, UpdateTo, Wrote, Calls
  <2>4. \A v \in Workflows \ {w} : definition'[v] = definition[v]
    BY <1>5, <1>t DEF Save, UpdateTo, TypeOK
  <2>5. w \in replaced' /\ replaced \subseteq replaced' /\ stale \subseteq stale'
    BY <1>5 DEF Save, Wrote
  <2>6. \A e \in Imports : edit'[e] = "done" => edit[e] = "done"
    BY <1>5, <1>t DEF Save, TypeOK, Calls
  <2> QED
    BY <2>3, <2>4, <2>5, <2>6, NodesStay
<1>6. ASSUME NEW c \in Imports, FinishImport(c) PROVE SeenNow' /\ ImportsKept'
  <2> DEFINE w == WorkflowOf[c]
  <2>1. w \in Workflows /\ c \in Edits
    BY <1>t
  <2>2. \A e \in Edits \ {c} : edit'[e] = edit[e] /\ seen'[e] = seen[e]
    BY <1>6, <1>t DEF FinishImport, Forget, TypeOK, Calls
  <2>3. SeenNow'
    BY <1>6, <2>1, <2>2, WriteKeepsSeen DEF FinishImport, UpdateTo, Wrote, Calls
  <2>4. \A v \in Workflows \ {w} : definition'[v] = definition[v]
    BY <1>6, <1>t DEF FinishImport, UpdateTo, TypeOK
  <2>5. definition'[w].nodes = seen[c].nodes \cup {c}
    BY <1>6, <1>t, <2>1 DEF FinishImport, UpdateTo, WithNode, TypeOK, Definitions
  <2>6. w \notin stale => seen[c] = definition[w]
    BY <1>6, <2>1 DEF FinishImport, ImportInv, SeenNow
  <2>7. stale \subseteq stale' /\ replaced' = replaced
    BY <1>6 DEF FinishImport, Wrote
  <2>8. SUFFICES ASSUME NEW e \in Imports, edit'[e] = "done",
                        WorkflowOf[e] \notin stale' \cup replaced'
                 PROVE  e \in definition'[WorkflowOf[e]].nodes
    BY <2>3 DEF ImportsKept
  <2>9. CASE e = c
    BY <2>5, <2>9
  <2>10. CASE e # c
    <3>1. e \in definition[WorkflowOf[e]].nodes
      BY <1>t, <2>2, <2>7, <2>8, <2>10 DEF ImportInv, ImportsKept
    <3> QED
      BY <1>t, <2>4, <2>5, <2>6, <2>7, <2>8, <3>1
  <2> QED
    BY <2>9, <2>10
<1>7. ASSUME NEW d \in Debugs, AgentAnswers(d) PROVE SeenNow' /\ ImportsKept'
  <2> DEFINE w == WorkflowOf[d]
  <2>1. w \in Workflows /\ d \in Edits
    BY <1>t
  <2>2. \A e \in Edits \ {d} : edit'[e] = edit[e] /\ seen'[e] = seen[e]
    BY <1>7, <1>t DEF AgentAnswers, Forget, TypeOK, Calls
  <2>3. PICK to \in {"done", "executing"} : edit' = [edit EXCEPT ![d] = to]
    BY <1>7 DEF AgentAnswers
  <2>4. CASE UNCHANGED <<editVars, stale>>
    BY <1>2, <2>1, <2>2, <2>3, <2>4 DEF editVars
  <2>5. CASE /\ d \in DOMAIN Patch
             /\ UpdateTo(w, Patched(seen[d], Patch[d]))
             /\ Wrote(d, w)
             /\ replaced' = IF Patch[d].nodes = {} THEN replaced ELSE replaced \cup {w}
    <3>1. SeenNow'
      BY <2>1, <2>2, <2>3, <2>5, WriteKeepsSeen DEF UpdateTo, Wrote, Calls
    <3>2. \A v \in Workflows \ {w} : definition'[v] = definition[v]
      BY <2>5, <1>t DEF UpdateTo, TypeOK
    <3>3. w \notin stale => seen[d] = definition[w]
      BY <1>7, <2>1 DEF AgentAnswers, ImportInv, SeenNow
    <3>4. w \notin replaced' => definition'[w].nodes = seen[d].nodes
      BY <1>t, <2>1, <2>5 DEF UpdateTo, Patched, TypeOK
    <3>5. stale \subseteq stale' /\ replaced \subseteq replaced'
      BY <2>5 DEF Wrote
    <3>6. \A e \in Imports : edit'[e] = "done" => edit[e] = "done"
      BY <1>t, <2>2
    <3>7. \A v \in Workflows \ (stale' \cup replaced') :
            definition[v].nodes \subseteq definition'[v].nodes
      BY <3>2, <3>3, <3>4, <3>5
    <3> QED
      BY <3>1, <3>5, <3>6, <3>7, NodesStay
  <2> QED
    BY <1>7, <2>4, <2>5 DEF AgentAnswers, ApplyPatch
<1>8. ASSUME NEW d \in Executing, FinishDebug(d) PROVE SeenNow' /\ ImportsKept'
  <2>1. PICK to \in {"done", "rejected"} : edit' = [edit EXCEPT ![d] = to]
    BY <1>8 DEF FinishDebug
  <2> QED
    BY <1>2, <1>8, <1>t, <2>1 DEF FinishDebug, editVars
<1>9. ASSUME NEW c \in Edits, Rejects(c) PROVE SeenNow' /\ ImportsKept'
  <2>1. \A e \in Edits \ {c} : seen'[e] = seen[e]
    BY <1>9, <1>t DEF Rejects, Forget, TypeOK
  <2> QED
    BY <1>2, <1>9, <2>1 DEF Rejects, editVars
<1>10. ASSUME NEW c \in Deletions, NEW w \in Workflows, DeleteWorkflow(c, w)
       PROVE  SeenNow' /\ ImportsKept'
  BY <1>1, <1>10, <1>t DEF DeleteWorkflow, TypeOK, Calls
<1>11. ASSUME NEW i \in 1..Len(versions), NEW c \in Deletions, VersionsDelete(c, i)
       PROVE  SeenNow' /\ ImportsKept'
  BY <1>1, <1>11, <1>t DEF VersionsDelete, TypeOK, Calls
<1> QED
  BY <1>0, <1>3, <1>4, <1>5, <1>6, <1>7, <1>8, <1>9, <1>10, <1>11, <1>t
  DEF Next, vars, editVars, callVars, Create, StartImport, StartDebug, Execute, ExecutionStep,
      Announced, AnnouncementFails, AdapterAnswers, AdapterFails, SuccessAnnounced,
      SuccessAnnouncementFails, ErrorAnnounced, AbortExecution, Advance

\* Imported nodes stay where no calls meet and nobody replaces the nodes.
THEOREM ImportsStay == Spec => []ImportsKept
<1>1. Init => ImportInv
  BY TypesOfInit, InMemoryAssumption DEF Init, ImportInv, SeenNow, ImportsKept, Calls, Edits
<1>2. ImportInv /\ TypeOK' /\ [Next]_vars => ImportInv'
  BY ImportStep
<1>3. ImportInv => ImportsKept
  BY DEF ImportInv
<1> QED
  BY <1>1, <1>2, <1>3, TypeCorrect, PTL DEF Spec

-------------------------------------------------------------------------------
(* Messages. *)

Done == {d \in Debugs : edit[d] = "done"}
Busy == {d \in Debugs : edit[d] \in {"waiting", "executing"}}

\* While no two debug calls have met, the one under way has read all messages there are.
MessageInv ==
  /\ IsFiniteSet(Done)
  /\ met \/ /\ messages = 2 * Cardinality(Done)
            /\ \A d \in Busy : read[d] = messages
            /\ \A d, e \in Busy : d = e

\* A step that no debug call and no message is part of.
LEMMA QuietKeepsMessages ==
  ASSUME MessageInv, \A d \in Debugs : edit'[d] = edit[d], UNCHANGED <<messages, read, met>>
  PROVE  MessageInv'
<1>1. Done' = Done /\ Busy' = Busy
  BY DEF Done, Busy
<1> QED
  BY <1>1 DEF MessageInv

\* A debug call goes on: its two messages count when it is done.
LEMMA BusyKeepsMessages ==
  ASSUME TypeOK, MessageInv, NEW d \in Busy, NEW to \in {"executing", "done", "rejected"},
         edit' = [edit EXCEPT ![d] = to], UNCHANGED <<read, met>>,
         messages' = IF to = "done" THEN CountMessages(d) ELSE messages
  PROVE  MessageInv'
<1>1. d \in Debugs /\ d \in Calls /\ d \notin Done
  BY DEF Busy, Done, Calls, Edits
<1>2. Done' = IF to = "done" THEN Done \cup {d} ELSE Done
  BY <1>1 DEF Done, TypeOK
<1>3. Busy' = IF to = "executing" THEN Busy ELSE Busy \ {d}
  BY <1>1 DEF Busy, TypeOK
<1>4. IsFiniteSet(Done) /\ Cardinality(Done) \in Nat
  BY FS_CardinalityType DEF MessageInv
<1>5. /\ IsFiniteSet(Done \cup {d})
      /\ Cardinality(Done \cup {d}) = Cardinality(Done) + 1
  BY <1>1, <1>4, FS_AddElement
<1>6. IsFiniteSet(Done')
  BY <1>2, <1>4, <1>5
<1>7. CASE met
  BY <1>6, <1>7 DEF MessageInv
<1>8. CASE ~met
  <2>1. messages = 2 * Cardinality(Done) /\ read[d] = messages /\ \A e \in Busy : e = d
    BY <1>8 DEF MessageInv
  <2>2. messages' = 2 * Cardinality(Done')
    BY <1>2, <1>4, <1>5, <2>1 DEF CountMessages
  <2>3. \A e \in Busy' : e = d /\ to = "executing"
    BY <1>3, <2>1
  <2> QED
    BY <1>6, <2>1, <2>2, <2>3 DEF MessageInv
<1> QED
  BY <1>7, <1>8

\* A debug call starts: it meets those under way, or reads all messages.
LEMMA StartKeepsMessages ==
  ASSUME TypeOK, MessageInv, NEW d \in Debugs, StartDebug(d)
  PROVE  MessageInv'
<1>1. d \in Calls
  BY DEF Calls, Edits
<1>2. Done' = Done
  BY <1>1 DEF StartDebug, Reads, Done, TypeOK
<1>3. Busy' = Busy \cup {d}
  BY <1>1 DEF StartDebug, Reads, Busy, TypeOK
<1>4. met' = (met \/ Busy # {})
  BY DEF StartDebug, Busy
<1>5. messages' = messages
  BY DEF StartDebug, Reads
<1>6. read'[d] = messages
  BY DEF StartDebug, TypeOK
<1>7. CASE met'
  BY <1>2, <1>7 DEF MessageInv
<1>8. CASE ~met'
  BY <1>2, <1>3, <1>4, <1>5, <1>6, <1>8 DEF MessageInv
<1> QED
  BY <1>7, <1>8

\* Every step keeps the count of messages.
LEMMA MessageStep == TypeOK /\ MessageInv /\ [Next]_vars => MessageInv'
<1> SUFFICES ASSUME TypeOK, MessageInv, [Next]_vars PROVE MessageInv'
  OBVIOUS
<1>t. /\ Debugs \subseteq Edits /\ Executing \subseteq Debugs /\ Imports \cap Debugs = {}
      /\ Edits \cap (Saves \cup Publications \cup Deletions) = {}
      /\ Edits \subseteq Calls
  BY InMemoryAssumption DEF Edits, Calls
<1>0. CASE UNCHANGED <<edit, messages, read, met>>
  BY <1>0, QuietKeepsMessages
<1>1. ASSUME NEW c \in Calls, NEW to, c \notin Debugs, edit' = [edit EXCEPT ![c] = to],
             UNCHANGED <<messages, read, met>>
      PROVE  MessageInv'
  <2>1. \A d \in Debugs : edit'[d] = edit[d]
    BY <1>1, <1>t DEF TypeOK
  <2> QED
    BY <1>1, <2>1, QuietKeepsMessages
<1>2. ASSUME NEW c \in Deletions, NEW w \in Workflows, DeleteWorkflow(c, w) PROVE MessageInv'
  BY <1>1, <1>2, <1>t DEF DeleteWorkflow, Calls
<1>3. ASSUME NEW i \in 1..Len(versions), NEW c \in Deletions, VersionsDelete(c, i)
      PROVE  MessageInv'
  BY <1>1, <1>3, <1>t DEF VersionsDelete, Calls
<1>4. ASSUME NEW i \in 1..Len(versions), NEW c \in Publications, VersionsPublish(c, i)
      PROVE  MessageInv'
  BY <1>1, <1>4, <1>t DEF VersionsPublish, Calls
<1>5. ASSUME NEW c \in Saves, Save(c) PROVE MessageInv'
  BY <1>1, <1>5, <1>t DEF Save, Calls
<1>6. ASSUME NEW c \in Imports, StartImport(c) PROVE MessageInv'
  BY <1>1, <1>6, <1>t DEF StartImport, Reads, Edits
<1>7. ASSUME NEW c \in Imports, FinishImport(c) PROVE MessageInv'
  BY <1>1, <1>7, <1>t DEF FinishImport, Edits
<1>8. ASSUME NEW d \in Debugs, StartDebug(d) PROVE MessageInv'
  BY <1>8, StartKeepsMessages
<1>9. ASSUME NEW d \in Debugs, AgentAnswers(d) PROVE MessageInv'
  <2>1. d \in Busy
    BY <1>9 DEF AgentAnswers, Busy
  <2>2. PICK to \in {"executing", "done"} :
          /\ edit' = [edit EXCEPT ![d] = to]
          /\ messages' = IF to = "done" THEN CountMessages(d) ELSE messages
    BY <1>9 DEF AgentAnswers
  <2> QED
    BY <1>9, <2>1, <2>2, BusyKeepsMessages DEF AgentAnswers
<1>10. ASSUME NEW d \in Executing, FinishDebug(d) PROVE MessageInv'
  <2>1. d \in Busy
    BY <1>10, <1>t DEF FinishDebug, Busy
  <2>2. PICK to \in {"rejected", "done"} :
          /\ edit' = [edit EXCEPT ![d] = to]
          /\ messages' = IF to = "done" THEN CountMessages(d) ELSE messages
    BY <1>10 DEF FinishDebug
  <2> QED
    BY <1>10, <2>1, <2>2, BusyKeepsMessages DEF FinishDebug
<1>11. ASSUME NEW c \in Edits, Rejects(c) PROVE MessageInv'
  <2>1. CASE c \in Debugs
    <3>1. c \in Busy
      BY <1>11, <2>1 DEF Rejects, Busy
    <3> QED
      BY <1>11, <3>1, BusyKeepsMessages DEF Rejects
  <2>2. CASE c \notin Debugs
    BY <1>1, <1>11, <1>t, <2>2 DEF Rejects
  <2> QED
    BY <2>1, <2>2
<1> QED
  BY <1>0, <1>2, <1>3, <1>4, <1>5, <1>6, <1>7, <1>8, <1>9, <1>10, <1>11
  DEF Next, vars, callVars, Create, Execute, ExecutionStep, Announced, AnnouncementFails,
      AdapterAnswers, AdapterFails, SuccessAnnounced, SuccessAnnouncementFails, ErrorAnnounced,
      AbortExecution, Advance

\* Debug calls that do not meet count two messages each, if they succeed.
THEOREM MessagesAreCounted == Spec => []MessagesCounted
<1>1. Init => MessageInv
  <2> SUFFICES ASSUME Init PROVE MessageInv
    OBVIOUS
  <2>1. Done = {} /\ Busy = {} /\ messages = 0
    BY DEF Init, Done, Busy, Calls, Edits
  <2> QED
    BY <2>1, FS_EmptySet DEF MessageInv
<1>2. TypeOK /\ MessageInv /\ [Next]_vars => MessageInv'
  BY MessageStep
<1>3. MessageInv => MessagesCounted
  BY DEF MessageInv, MessagesCounted, Done
<1> QED
  BY <1>1, <1>2, <1>3, TypeCorrect, PTL DEF Spec

-------------------------------------------------------------------------------
(* Versions. *)

Of(w) == {i \in 1..Len(versions) : versions[i].workflow = w}
UpTo(w, i) == {j \in Of(w) : j <= i}

\* The workflow's versions are numbered 1, 2, ...
Numbered(w) == \A i \in Of(w) : versions[i].number = Cardinality(UpTo(w, i))

\* The workflow's definition is the newest version's or the published one's.
Shown(w) ==
  \E i \in Of(w) : versions[i].definition = definition[w]
                   /\ (i = published[w] \/ \A j \in Of(w) : j <= i)

\* Workflows that lost no version have all of them listed.
AllListed == \A i \in 1..Len(versions) : versions[i].workflow \notin trimmed => versions[i].listed

VersionInv ==
  /\ AllListed
  /\ \A w \in stored \ trimmed : Len(versions) <= ListLimit + 1 => Numbered(w) /\ Shown(w)

\* The next number counts all versions of a workflow that lost none, if the list shows them.
LEMMA NextNumberCounts ==
  ASSUME TypeOK, AllListed, NEW w \in Workflows \ trimmed, Len(versions) <= ListLimit
  PROVE  NextNumber(w) = Cardinality(Of(w)) + 1
<1>1. Len(versions) \in Nat /\ ListLimit \in Nat
  BY InMemoryAssumption DEF TypeOK
<1>2. ASSUME NEW i \in Of(w) PROVE i \in Listed /\ Cardinality(Before(i)) < ListLimit
  <2>1. i \in 1..Len(versions) /\ i \in Listed
    BY <1>2 DEF Of, AllListed, Listed
  <2>0. i - 1 \in Nat /\ 1 \in Int
    BY <1>1, <2>1
  <2>2. IsFiniteSet(1..(i-1)) /\ Cardinality(1..(i-1)) = i - 1
    <3>1. ASSUME NEW b \in Nat PROVE IsFiniteSet(1..b) /\ Cardinality(1..b) = b
      BY FS_Interval
    <3> QED
      BY <2>0, <3>1
  <2>3. Before(i) \subseteq 1..(i-1)
    BY <1>1, <2>1 DEF Before, Listed
  <2>4. Cardinality(Before(i)) \in Nat /\ Cardinality(Before(i)) <= i - 1
    BY <2>2, <2>3, FS_Subset, FS_CardinalityType
  <2> QED
    BY <1>1, <2>1, <2>4
<1>3. {i \in Listed : Cardinality(Before(i)) < ListLimit /\ versions[i].workflow = w} = Of(w)
  BY <1>2 DEF Of, Listed
<1> QED
  BY <1>3 DEF NextNumber

\* A new version comes last and changes no other.
LEMMA NewVersionIsLast ==
  ASSUME TypeOK, NEW w \in Workflows, NEW n \in Nat, NEW d \in Definitions, NewVersion(w, n, d)
  PROVE  /\ Len(versions') = Len(versions) + 1
         /\ \A i \in 1..Len(versions) : versions'[i] = versions[i]
         /\ versions'[Len(versions) + 1].workflow = w
         /\ versions'[Len(versions) + 1].number = n
         /\ versions'[Len(versions) + 1].definition = d
         /\ versions'[Len(versions) + 1].listed
<1> DEFINE v == [workflow |-> w, number |-> n, definition |-> d, listed |-> TRUE]
<1>1. v \in Version
  BY DEF Version
<1>2. versions \in Seq(Version) /\ versions' = Append(versions, v)
  BY DEF TypeOK, NewVersion
<1>3. v.workflow = w /\ v.number = n /\ v.definition = d /\ v.listed
  OBVIOUS
<1> HIDE DEF v
<1>4. Len(versions') = Len(versions) + 1 /\ versions'[Len(versions) + 1] = v
      /\ \A i \in 1..Len(versions) : versions'[i] = versions[i]
  BY <1>1, <1>2
<1> QED
  BY <1>3, <1>4

\* A workflow that a new version is not about keeps its numbers and what it shows.
LEMMA OtherWorkflows ==
  ASSUME TypeOK, NEW w \in Workflows, NEW n \in Nat, NEW d \in Definitions, NewVersion(w, n, d),
         NEW v \in Workflows \ {w}, published'[v] = published[v], definition'[v] = definition[v]
  PROVE  (Numbered(v) => Numbered(v)') /\ (Shown(v) => Shown(v)')
<1>1. Len(versions) \in Nat
  BY DEF TypeOK
<1>2. \A i \in 1..Len(versions) : versions'[i] = versions[i]
  BY NewVersionIsLast
<1>3. Of(v)' = Of(v)
  BY <1>1, <1>2, NewVersionIsLast DEF Of
<1>4. \A i \in Of(v) : UpTo(v, i)' = UpTo(v, i) /\ versions'[i] = versions[i]
  BY <1>2, <1>3 DEF UpTo, Of
<1>5. Numbered(v) => Numbered(v)'
  BY <1>3, <1>4 DEF Numbered, UpTo
<1>6. Shown(v) => Shown(v)'
  BY <1>3, <1>4 DEF Shown
<1> QED
  BY <1>5, <1>6

\* A workflow whose new version has the next number and its definition is numbered and shown.
LEMMA NewestAgrees ==
  ASSUME TypeOK, NEW w \in Workflows, NEW d \in Definitions,
         NewVersion(w, Cardinality(Of(w)) + 1, d), Numbered(w), definition'[w] = d
  PROVE  Numbered(w)' /\ Shown(w)'
<1> DEFINE k == Len(versions) + 1
<1>1. Len(versions) \in Nat
  BY DEF TypeOK
<1>2. IsFiniteSet(Of(w)) /\ Cardinality(Of(w)) \in Nat
  <2>1. IsFiniteSet(1..Len(versions)) /\ Of(w) \subseteq 1..Len(versions)
    BY <1>1, FS_Interval DEF Of
  <2> QED
    BY <2>1, FS_Subset, FS_CardinalityType
<1>3. Len(versions') = k /\ \A i \in 1..Len(versions) : versions'[i] = versions[i]
  BY <1>2, NewVersionIsLast
<1>4. /\ versions'[k].workflow = w /\ versions'[k].number = Cardinality(Of(w)) + 1
      /\ versions'[k].definition = d
  BY <1>2, NewVersionIsLast
<1>5. Of(w)' = Of(w) \cup {k}
  BY <1>1, <1>3, <1>4 DEF Of
<1>6. ASSUME NEW i \in Of(w)
      PROVE  versions'[i].number = Cardinality({j \in Of(w)' : j <= i})
  <2>1. i \in 1..Len(versions)
    BY <1>6 DEF Of
  <2>2. {j \in Of(w)' : j <= i} = UpTo(w, i)
    BY <1>1, <1>5, <2>1 DEF UpTo
  <2> QED
    BY <1>3, <1>6, <2>1, <2>2 DEF Numbered
<1>7. versions'[k].number = Cardinality({j \in Of(w)' : j <= k})
  <2>1. {j \in Of(w)' : j <= k} = Of(w) \cup {k} /\ k \notin Of(w)
    BY <1>1, <1>5 DEF Of
  <2> QED
    BY <1>2, <1>4, <2>1, FS_AddElement
<1>8. Numbered(w)'
  BY <1>5, <1>6, <1>7 DEF Numbered, UpTo
<1>9. k \in Of(w)' /\ \A j \in Of(w)' : j <= k
  BY <1>1, <1>5 DEF Of
<1>10. Shown(w)'
  BY <1>4, <1>9 DEF Shown
<1> QED
  BY <1>8, <1>10

\* A new version that gets the next number, if its workflow is judged, keeps the invariant.
LEMMA AddingKeepsVersions ==
  ASSUME TypeOK, VersionInv, NEW w \in Workflows, NEW n \in Nat, NEW d \in Definitions,
         NewVersion(w, n, d), definition' = [definition EXCEPT ![w] = d],
         UNCHANGED <<published, trimmed>>, stored' \in {stored, stored \cup {w}},
         w \notin trimmed /\ Len(versions) <= ListLimit =>
           n = Cardinality(Of(w)) + 1 /\ Numbered(w)
  PROVE  VersionInv'
<1>1. Len(versions) \in Nat /\ ListLimit \in Nat
  BY InMemoryAssumption DEF TypeOK
<1>2. Len(versions') = Len(versions) + 1
  BY NewVersionIsLast
<1>3. AllListed'
  <2>1. \A i \in 1..Len(versions) : versions'[i] = versions[i]
    BY NewVersionIsLast
  <2>2. versions'[Len(versions) + 1].listed
    BY NewVersionIsLast
  <2> QED
    BY <1>1, <1>2, <2>1, <2>2 DEF VersionInv, AllListed
<1>4. ASSUME NEW v \in stored' \ trimmed', Len(versions') <= ListLimit + 1
      PROVE  Numbered(v)' /\ Shown(v)'
  <2>1. Len(versions) <= ListLimit /\ Len(versions) <= ListLimit + 1
    BY <1>1, <1>2, <1>4
  <2>2. CASE v = w
    <3>1. n = Cardinality(Of(w)) + 1 /\ Numbered(w) /\ definition'[w] = d
      BY <1>4, <2>1, <2>2 DEF TypeOK
    <3> QED
      BY <2>2, <3>1, NewestAgrees
  <2>3. CASE v # w
    <3>1. v \in stored \ trimmed /\ v \in Workflows
      BY <1>4, <2>3 DEF TypeOK
    <3>2. Numbered(v) /\ Shown(v)
      BY <2>1, <3>1 DEF VersionInv
    <3>3. published'[v] = published[v] /\ definition'[v] = definition[v]
      BY <2>3, <3>1 DEF TypeOK
    <3> QED
      BY <2>3, <3>1, <3>2, <3>3, OtherWorkflows
  <2> QED
    BY <2>2, <2>3
<1> QED
  BY <1>3, <1>4 DEF VersionInv

\* An update keeps the invariant.
LEMMA UpdateKeepsVersions ==
  ASSUME TypeOK, VersionInv, NEW w \in stored, NEW d \in Definitions, UpdateTo(w, d)
  PROVE  VersionInv'
<1>1. w \in Workflows /\ NextNumber(w) \in Nat
  BY NumbersAreNumbers DEF TypeOK
<1>2. Len(versions) \in Nat /\ ListLimit \in Nat
  BY InMemoryAssumption DEF TypeOK
<1>3. w \notin trimmed /\ Len(versions) <= ListLimit =>
        NextNumber(w) = Cardinality(Of(w)) + 1 /\ Numbered(w)
  BY <1>1, <1>2, NextNumberCounts DEF VersionInv
<1> QED
  BY <1>1, <1>3, AddingKeepsVersions DEF UpdateTo

\* Every step keeps the invariant of versions.
LEMMA VersionInvStep == TypeOK /\ VersionInv /\ [Next]_vars => VersionInv'
<1> SUFFICES ASSUME TypeOK, VersionInv, [Next]_vars PROVE VersionInv'
  OBVIOUS
<1>t. \A c \in Saves \cup Edits : WorkflowOf[c] \in Workflows
  BY CallsAreTyped
<1>0. CASE UNCHANGED <<definition, published, versions, trimmed>> /\ stored' \subseteq stored
  BY <1>0 DEF VersionInv, AllListed, Numbered, Shown, Of, UpTo
<1>1. ASSUME NEW w \in Workflows, Create(w) PROVE VersionInv'
  <2>1. definition[w] \in Definitions /\ definition' = [definition EXCEPT ![w] = definition[w]]
    BY <1>1 DEF Create, TypeOK
  <2>2. Of(w) = {}
    BY <1>1 DEF Create, Of
  <2>3. 1 = Cardinality(Of(w)) + 1 /\ Numbered(w)
    BY <2>2, FS_EmptySet DEF Numbered
  <2> QED
    BY <1>1, <2>1, <2>3, AddingKeepsVersions DEF Create
<1>2. ASSUME NEW i \in 1..Len(versions), NEW c \in Deletions, VersionsDelete(c, i)
      PROVE  VersionInv'
  <2>1. /\ UNCHANGED <<stored, definition, published>>
        /\ trimmed' = trimmed \cup {versions[i].workflow}
        /\ versions' = [versions EXCEPT ![i] = [@ EXCEPT !.listed = FALSE]]
    BY <1>2 DEF VersionsDelete
  <2>2. versions \in Seq(Version) /\ versions[i] \in Version
    BY DEF TypeOK
  <2> DEFINE v == [versions[i] EXCEPT !.listed = FALSE]
  <2>a. v \in Version /\ versions' = [versions EXCEPT ![i] = v]
    BY <2>1, <2>2 DEF Version
  <2> HIDE DEF v
  <2>b. /\ Len(versions') = Len(versions)
        /\ \A j \in 1..Len(versions) : j # i => versions'[j] = versions[j]
        /\ versions'[i] = v
    BY <2>2, <2>a
  <2>3. /\ Len(versions') = Len(versions)
        /\ \A j \in 1..Len(versions) : j # i => versions'[j] = versions[j]
        /\ versions'[i] = [versions[i] EXCEPT !.listed = FALSE]
    BY <2>b DEF v
  <2>4. \A j \in 1..Len(versions) : /\ versions'[j].workflow = versions[j].workflow
                                    /\ versions'[j].number = versions[j].number
                                    /\ versions'[j].definition = versions[j].definition
    BY <2>2, <2>3 DEF Version
  <2>5. \A w : Of(w)' = Of(w)
    BY <2>3, <2>4 DEF Of
  <2>6. \A w : \A j \in Of(w) : UpTo(w, j)' = UpTo(w, j)
    BY <2>5 DEF UpTo
  <2>7. \A w : Numbered(w) => Numbered(w)'
    BY <2>4, <2>5, <2>6 DEF Numbered, UpTo, Of
  <2>8. \A w : Shown(w) => Shown(w)'
    BY <2>1, <2>4, <2>5 DEF Shown, Of
  <2>9. AllListed'
    BY <2>1, <2>3, <2>4 DEF AllListed, VersionInv
  <2> QED
    BY <2>1, <2>3, <2>7, <2>8, <2>9 DEF VersionInv
<1>3. ASSUME NEW i \in 1..Len(versions), NEW c \in Publications, VersionsPublish(c, i)
      PROVE  VersionInv'
  <2>0. PICK w \in Workflows : w = versions[i].workflow
    BY CallsAreTyped
  <2>1. /\ UNCHANGED <<stored, versions, trimmed>>
        /\ published' = [published EXCEPT ![w] = i]
        /\ definition' = [definition EXCEPT ![w] = versions[i].definition]
    BY <1>3, <2>0 DEF VersionsPublish
  <2>3. \A v : Of(v)' = Of(v) /\ (Numbered(v) => Numbered(v)')
    BY <2>1 DEF Numbered, Of, UpTo
  <2>4. Shown(w)'
    <3>1. i \in Of(w)' /\ versions'[i].definition = definition'[w] /\ i = published'[w]
      BY <2>0, <2>1, <2>3 DEF Of, TypeOK
    <3> QED
      BY <3>1 DEF Shown
  <2>5. \A v \in Workflows \ {w} : Shown(v) => Shown(v)'
    BY <2>1, <2>3 DEF Shown, TypeOK
  <2>6. AllListed'
    BY <2>1 DEF AllListed, VersionInv
  <2>7. \A v \in stored : v \in Workflows
    BY DEF TypeOK
  <2> QED
    BY <2>1, <2>3, <2>4, <2>5, <2>6, <2>7 DEF VersionInv
<1>4. ASSUME NEW c \in Saves, Save(c) PROVE VersionInv'
  <2>1. Given[c] \in Definitions
    BY InMemoryAssumption
  <2> QED
    BY <1>4, <2>1, UpdateKeepsVersions DEF Save
<1>5. ASSUME NEW c \in Imports, FinishImport(c) PROVE VersionInv'
  <2>1. WithNode(seen[c], c) \in Definitions
    BY EditedDefinitions DEF TypeOK, Nodes, Edits
  <2> QED
    BY <1>5, <2>1, UpdateKeepsVersions DEF FinishImport
<1>6. ASSUME NEW d \in Debugs, AgentAnswers(d) PROVE VersionInv'
  <2>1. CASE UNCHANGED editVars
    BY <1>0, <2>1 DEF editVars
  <2>2. CASE d \in DOMAIN Patch /\ UpdateTo(WorkflowOf[d], Patched(seen[d], Patch[d]))
    <3>1. Patched(seen[d], Patch[d]) \in Definitions
      BY <2>2, EditedDefinitions, InMemoryAssumption DEF TypeOK, Edits
    <3>2. WorkflowOf[d] \in stored
      BY <1>6, <2>2 DEF AgentAnswers, Needs
    <3> QED
      BY <2>2, <3>1, <3>2, UpdateKeepsVersions
  <2> QED
    BY <1>6, <2>1, <2>2 DEF AgentAnswers, ApplyPatch
<1>7. ASSUME NEW w \in Workflows, NEW c \in Deletions, DeleteWorkflow(c, w) PROVE VersionInv'
  BY <1>0, <1>7 DEF DeleteWorkflow
<1>8. CASE UNCHANGED editVars
  BY <1>0, <1>8 DEF editVars
<1> QED
  BY <1>1, <1>2, <1>3, <1>4, <1>5, <1>6, <1>7, <1>8
  DEF Next, vars, StartImport, StartDebug, Reads, FinishDebug, Rejects, Execute, ExecutionStep,
      Announced, AnnouncementFails, AdapterAnswers, AdapterFails, SuccessAnnounced,
      SuccessAnnouncementFails, ErrorAnnounced, AbortExecution, Advance

\* Versions are numbered without gaps, and the definition is the newest or the published one's.
THEOREM VersionsStayInStep == Spec => []VersionsAgree
<1>1. Init => VersionInv
  BY DEF Init, VersionInv, AllListed
<1>2. TypeOK /\ VersionInv /\ [Next]_vars => VersionInv'
  BY VersionInvStep
<1>3. VersionInv => VersionsAgree
  BY DEF VersionInv, VersionsAgree, Numbered, Shown, Of, UpTo
<1> QED
  BY <1>1, <1>2, <1>3, TypeCorrect, PTL DEF Spec
=================================================================================
