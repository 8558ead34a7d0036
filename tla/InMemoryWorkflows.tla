---------------------------- MODULE InMemoryWorkflows ----------------------------
(***************************************************************************)
(* The package API of index.ts over its repositories in memory: workflows  *)
(* and their versions, executions with their listeners and their processes *)
(* in PackageObservability, imports of node packages and AI debug calls.   *)
(* The process is single threaded: an action is what runs between two      *)
(* awaits. All calls have one context that owns every record.              *)
(***************************************************************************)
EXTENDS Naturals, Sequences, FiniteSets

CONSTANTS
  Workflows,  \* workflows
  Saves,      \* update calls with a definition
  Imports,    \* importNodePackageToWorkflow calls, each with its node
  Debugs,     \* debugWithAI calls of one session
  Executing,  \* those that ask for an execution
  Publications, Deletions, \* versionsPublish calls; delete and versionsDelete calls
  Runs,       \* execute calls, each with its execution
  WorkflowOf, \* the workflow a call is about
  Given,      \* the definition a save was given
  Patch,      \* the definitionPatch of the debug calls whose answer has one
  NodeIds,    \* the nodes of definitions that were not imported
  ListLimit,  \* the most versions a list has (500)
  Throws,     \* the announcements of executions that a listener may reject
  Failing     \* the calls whose adapter may reject

Executions == Runs \cup Executing
Edits == Imports \cup Debugs
Calls == Saves \cup Edits \cup Publications \cup Deletions
Nodes == NodeIds \cup Imports
Definitions == [nodes : SUBSET Nodes, edges : SUBSET Nodes] \* an edge is a node it refers to
Optional == {{}} \cup {{s} : s \in SUBSET Nodes} \* the keys a patch has
Empty == [nodes |-> {}, edges |-> {}]

ASSUME InMemoryAssumption ==
  /\ WorkflowOf \in [Saves \cup Edits \cup Runs -> Workflows]
  /\ Given \in [Saves -> Definitions]
  /\ DOMAIN Patch \subseteq Debugs /\ Executing \subseteq Debugs
  /\ Patch \in [DOMAIN Patch -> [nodes : Optional, edges : Optional]]
  /\ ListLimit \in Nat \ {0}
  /\ Throws \subseteq Executions \X {"started", "success"}
  /\ Failing \subseteq Edits \cup Runs
  /\ Saves \cap (Edits \cup Publications \cup Deletions) = {} /\ Imports \cap Debugs = {}
  /\ Edits \cap (Publications \cup Deletions \cup Runs) = {} /\ Publications \cap Deletions = {}

VARIABLES
  stored,     \* the workflows in the repository
  definition, \* a workflow's definition
  published,  \* a workflow's publishedVersionId, 0 for none
  versions,   \* all versions by creation
  edit,       \* where a call that edits is
  seen,       \* the definition a call has read
  messages,   \* the session's messages
  read,       \* the number of messages a debug call has read
  at,         \* where an execute call is
  row,        \* the execution's status
  process,    \* its process in PackageObservability
  trimmed,    \* history: workflows that lost a version
  replaced,   \* history: workflows whose nodes were replaced
  stale,      \* history: workflows of which a call wrote what it had read before another wrote
  met         \* history: two debug calls met

editVars == <<stored, definition, published, versions, trimmed, replaced>>
callVars == <<edit, seen, messages, read, stale, met>>
executionVars == <<at, row, process>>
vars == <<editVars, callVars, executionVars>>

Init ==
  /\ stored = {}
  /\ definition = [w \in Workflows |-> Empty]
  /\ published = [w \in Workflows |-> 0]
  /\ versions = <<>>
  /\ edit = [c \in Calls |-> "idle"]
  /\ seen = [c \in Edits |-> Empty]
  /\ messages = 0
  /\ read = [d \in Debugs |-> 0]
  /\ at = [x \in Executions |-> "idle"]
  /\ row = [x \in Executions |-> "none"]
  /\ process = [x \in Executions |-> "none"]
  /\ trimmed = {}
  /\ replaced = {}
  /\ stale = {}
  /\ met = FALSE

-------------------------------------------------------------------------------
(* The repositories. *)

\* Versions, in the order a list has them.
Listed == {i \in 1..Len(versions) : versions[i].listed}
Before(i) == {j \in Listed : j < i}

\* Mutant: the versions of all workflows are counted.
NumberOfAll(w) == Cardinality({i \in Listed : Cardinality(Before(i)) < ListLimit}) + 1

\* The first ListLimit versions are listed, and those of the workflow counted.
NextNumber(w) ==
  Cardinality({i \in Listed : Cardinality(Before(i)) < ListLimit /\ versions[i].workflow = w}) + 1

NewVersion(w, number, d) ==
  versions' = Append(versions, [workflow |-> w, number |-> number, definition |-> d,
                                listed |-> TRUE])

\* update: the definition and a new version of it.
UpdateTo(w, d) ==
  /\ definition' = [definition EXCEPT ![w] = d]
  /\ NewVersion(w, NextNumber(w), d)
  /\ UNCHANGED <<stored, published, trimmed>>

Create(w) ==
  /\ w \notin stored /\ \A i \in 1..Len(versions) : versions[i].workflow # w
  /\ stored' = stored \cup {w}
  /\ NewVersion(w, 1, definition[w])
  /\ UNCHANGED <<definition, published, trimmed, replaced, callVars, executionVars>>

\* The versions and the executions of a deleted workflow stay.
DeleteWorkflow(c, w) ==
  /\ edit[c] = "idle" /\ w \in stored
  /\ edit' = [edit EXCEPT ![c] = "done"]
  /\ stored' = stored \ {w}
  /\ UNCHANGED <<definition, published, versions, trimmed, replaced, seen, messages, read, stale,
                 met, executionVars>>

Under(w) == {c \in Edits : edit[c] = "waiting" /\ WorkflowOf[c] = w}

VersionsDelete(c, i) ==
  /\ edit[c] = "idle" /\ versions[i].listed
  /\ edit' = [edit EXCEPT ![c] = "done"]
  /\ versions' = [versions EXCEPT ![i].listed = FALSE]
  /\ trimmed' = trimmed \cup {versions[i].workflow}
  /\ UNCHANGED <<stored, definition, published, replaced, seen, messages, read, stale, met,
                 executionVars>>

VersionsPublish(c, i) ==
  LET w == versions[i].workflow
  IN  /\ edit[c] = "idle" /\ versions[i].listed /\ w \in stored
      /\ edit' = [edit EXCEPT ![c] = "done"]
      /\ published' = [published EXCEPT ![w] = i]
      /\ definition' = [definition EXCEPT ![w] = versions[i].definition]
      /\ replaced' = replaced \cup {w}
      /\ stale' = IF Under(w) # {} THEN stale \cup {w} ELSE stale
      /\ UNCHANGED <<stored, versions, trimmed, seen, messages, read, met, executionVars>>

-------------------------------------------------------------------------------
(* Executions. *)

Valid(d) == d.edges \subseteq d.nodes

\* execute: a workflow that is missing or invalid leaves no row.
Start(x, d, exists) ==
  IF exists /\ Valid(d)
    THEN /\ at' = [at EXCEPT ![x] = "announcing"]
         /\ row' = [row EXCEPT ![x] = "running"]
         /\ process' = [process EXCEPT ![x] = "running"]
    ELSE at' = [at EXCEPT ![x] = "rejected"] /\ UNCHANGED <<row, process>>

Execute(x) ==
  /\ at[x] = "idle"
  /\ Start(x, definition[WorkflowOf[x]], WorkflowOf[x] \in stored)
  /\ UNCHANGED <<editVars, callVars>>

Advance(x, from, to) ==
  /\ at[x] = from
  /\ at' = [at EXCEPT ![x] = to]
  /\ UNCHANGED <<editVars, callVars>>

\* The first announcement is awaited outside the try: its rejection leaves the row running.
Announced(x) == Advance(x, "announcing", "adapter") /\ UNCHANGED <<row, process>>
AnnouncementFails(x) ==
  <<x, "started">> \in Throws /\ Advance(x, "announcing", "rejected") /\ UNCHANGED <<row, process>>

\* Mutant: the process gets the status of the row.
SettleAlike(x, status, tracked) ==
  /\ row' = [row EXCEPT ![x] = status]
  /\ process' = [process EXCEPT ![x] = status]

Settle(x, status, tracked) ==
  /\ row' = [row EXCEPT ![x] = status]
  /\ process' = [process EXCEPT ![x] = tracked]

\* Mutant: an answer counts although the call was rejected.
AdapterAnswersAnyway(x) ==
  /\ at[x] \in {"adapter", "rejected"} /\ row[x] # "none"
  /\ Settle(x, "success", "completed")
  /\ at' = [at EXCEPT ![x] = "announcingSuccess"]
  /\ UNCHANGED <<editVars, callVars>>

AdapterAnswers(x) ==
  Advance(x, "adapter", "announcingSuccess") /\ Settle(x, "success", "completed")
AdapterFails(x) ==
  x \in Failing /\ Advance(x, "adapter", "announcingError") /\ Settle(x, "error", "failed")

SuccessAnnounced(x) == Advance(x, "announcingSuccess", "resolved") /\ UNCHANGED <<row, process>>

\* Mutant: the last announcement is outside the try, too.
SuccessAnnouncementRejects(x) ==
  /\ <<x, "success">> \in Throws
  /\ Advance(x, "announcingSuccess", "rejected")
  /\ UNCHANGED <<row, process>>

\* A listener that rejects the success is caught like the adapter.
SuccessAnnouncementFails(x) ==
  /\ <<x, "success">> \in Throws
  /\ Advance(x, "announcingSuccess", "announcingError")
  /\ Settle(x, "error", "failed")

\* Whether the listeners accept the error or not, the call rejects.
ErrorAnnounced(x) == Advance(x, "announcingError", "rejected") /\ UNCHANGED <<row, process>>

\* abortExecution asks for no status.
AbortExecution(x) ==
  /\ row[x] # "none"
  /\ Settle(x, "aborted", "aborted")
  /\ UNCHANGED <<at, editVars, callVars>>

-------------------------------------------------------------------------------
(* Calls that edit a workflow. *)

\* Another call has read this workflow and is going to write it.
Wrote(c, w) == stale' = IF Under(w) \ {c} # {} THEN stale \cup {w} ELSE stale

Save(c) ==
  LET w == WorkflowOf[c]
  IN  /\ edit[c] = "idle" /\ w \in stored
      /\ edit' = [edit EXCEPT ![c] = "done"]
      /\ UpdateTo(w, Given[c])
      /\ replaced' = replaced \cup {w}
      /\ Wrote(c, w)
      /\ UNCHANGED <<seen, messages, read, met, executionVars>>

Reads(c) ==
  /\ edit[c] = "idle" /\ WorkflowOf[c] \in stored
  /\ edit' = [edit EXCEPT ![c] = "waiting"]
  /\ seen' = [seen EXCEPT ![c] = definition[WorkflowOf[c]]]
  /\ UNCHANGED <<editVars, messages, stale, executionVars>>

Forget(c) == seen' = [seen EXCEPT ![c] = Empty]

StartImport(c) == Reads(c) /\ UNCHANGED <<read, met>>

\* Calls that need the workflow after the await: a mere conversation does not.
Needs(c) == c \in Imports \cup DOMAIN Patch \cup Executing

\* A call whose workflow was deleted meanwhile, or whose adapter rejects, changes nothing.
Rejects(c) ==
  /\ edit[c] = "waiting"
  /\ c \in Failing \/ (Needs(c) /\ WorkflowOf[c] \notin stored)
  /\ edit' = [edit EXCEPT ![c] = "rejected"]
  /\ Forget(c)
  /\ UNCHANGED <<editVars, messages, read, stale, met, executionVars>>

WithNode(d, n) == [d EXCEPT !.nodes = @ \cup {n}]

\* importNodePackageToWorkflow: the node is added to the definition that was read before.
FinishImport(c) ==
  LET w == WorkflowOf[c]
  IN  /\ edit[c] = "waiting" /\ w \in stored
      /\ edit' = [edit EXCEPT ![c] = "done"]
      /\ UpdateTo(w, WithNode(seen[c], c))
      /\ Forget(c)
      /\ Wrote(c, w)
      /\ UNCHANGED <<replaced, messages, read, met, executionVars>>

\* debugWithAI: the workflow and the session are read.
StartDebug(d) ==
  /\ Reads(d)
  /\ read' = [read EXCEPT ![d] = messages]
  /\ met' = (met \/ \E e \in Debugs : edit[e] \in {"waiting", "executing"})

\* Mutant: the patch replaces the definition.
PatchedAlone(d, p) == [nodes |-> UNION p.nodes, edges |-> UNION p.edges]

Patched(d, p) == [nodes |-> IF p.nodes = {} THEN d.nodes ELSE UNION p.nodes,
                  edges |-> IF p.edges = {} THEN d.edges ELSE UNION p.edges]

\* Mutant: every debug call counts as one message.
CountOne(d) == read[d] + 1

\* The session's messages are counted from what was read before the agent was asked.
CountMessages(d) == read[d] + 2

\* The agent's patch is laid over the definition that was read.
ApplyPatch(d) ==
  LET w == WorkflowOf[d]
  IN  \/ /\ d \in DOMAIN Patch
         /\ UpdateTo(w, Patched(seen[d], Patch[d]))
         /\ Wrote(d, w)
         /\ replaced' = IF Patch[d].nodes = {} THEN replaced ELSE replaced \cup {w}
      \/ d \notin DOMAIN Patch /\ UNCHANGED <<editVars, stale>>

\* Then the call is over, or the patched workflow executes.
AgentAnswers(d) ==
  /\ edit[d] = "waiting" /\ (Needs(d) => WorkflowOf[d] \in stored)
  /\ ApplyPatch(d)
  /\ \/ /\ d \in Executing
        /\ edit' = [edit EXCEPT ![d] = "executing"]
        /\ Start(d, definition'[WorkflowOf[d]], TRUE)
        /\ UNCHANGED messages
     \/ /\ d \notin Executing
        /\ edit' = [edit EXCEPT ![d] = "done"]
        /\ messages' = CountMessages(d)
        /\ UNCHANGED executionVars
  /\ Forget(d)
  /\ UNCHANGED <<read, met>>

FinishDebug(d) ==
  /\ edit[d] = "executing" /\ at[d] \in {"resolved", "rejected"}
  /\ edit' = [edit EXCEPT ![d] = IF at[d] = "resolved" THEN "done" ELSE "rejected"]
  /\ messages' = IF at[d] = "resolved" THEN CountMessages(d) ELSE messages
  /\ UNCHANGED <<editVars, seen, read, stale, met, executionVars>>

-------------------------------------------------------------------------------

ExecutionStep(x) ==
  \/ Announced(x) \/ AnnouncementFails(x)
  \/ AdapterAnswers(x) \/ AdapterFails(x)
  \/ SuccessAnnounced(x) \/ SuccessAnnouncementFails(x) \/ ErrorAnnounced(x)
  \/ AbortExecution(x)

Next ==
  \/ \E w \in Workflows : Create(w) \/ \E c \in Deletions : DeleteWorkflow(c, w)
  \/ \E i \in 1..Len(versions) : 
       \/ \E c \in Deletions : VersionsDelete(c, i)
       \/ \E c \in Publications : VersionsPublish(c, i)
  \/ \E c \in Saves : Save(c)
  \/ \E c \in Imports : StartImport(c) \/ FinishImport(c)
  \/ \E d \in Debugs : StartDebug(d) \/ AgentAnswers(d)
  \/ \E d \in Executing : FinishDebug(d)
  \/ \E c \in Edits : Rejects(c)
  \/ \E x \in Runs : Execute(x)
  \/ \E x \in Executions : ExecutionStep(x)

Spec == Init /\ [][Next]_vars

-------------------------------------------------------------------------------
(* Properties. *)

Places == {"idle", "announcing", "adapter", "announcingSuccess", "announcingError", "resolved",
           "rejected"}
Version == [workflow : Workflows, number : Nat, definition : Definitions, listed : BOOLEAN]

\* The type invariant.
TypeOK ==
  /\ stored \subseteq Workflows
  /\ definition \in [Workflows -> Definitions]
  /\ published \in [Workflows -> 0..Len(versions)]
  /\ versions \in Seq(Version)
  /\ edit \in [Calls -> {"idle", "waiting", "executing", "done", "rejected"}]
  /\ seen \in [Edits -> Definitions]
  /\ messages \in Nat
  /\ read \in [Debugs -> Nat]
  /\ at \in [Executions -> Places]
  /\ row \in [Executions -> {"none", "running", "success", "error", "aborted"}]
  /\ process \in [Executions -> {"none", "running", "completed", "failed", "aborted"}]
  /\ trimmed \subseteq Workflows /\ replaced \subseteq Workflows /\ stale \subseteq Workflows
  /\ met \in BOOLEAN

\* The caller of execute is told what the row and the process say, unless it is aborted: it
\* resolves with a success, and rejects with an error or with no row, or with a row that is
\* left running because a listener rejected the start.
CallerAgrees ==
  \A x \in Executions :
    /\ at[x] = "resolved" => row[x] \in {"success", "aborted"}
    /\ at[x] = "rejected" =>
         row[x] \in {"none", "error", "aborted"} \/ (row[x] = "running" /\ <<x, "started">> \in Throws)
    /\ <<row[x], process[x]>> \in
         {<<"none", "none">>, <<"running", "running">>, <<"success", "completed">>,
          <<"error", "failed">>, <<"aborted", "aborted">>}

\* An abort is overruled by an execution that is still under way, but never afterwards, and an
\* execution that is over changes by an abort only.
AbortStands ==
  [][\A x \in Executions :
       row'[x] # row[x] /\ at[x] \in {"idle", "resolved", "rejected"} /\ row[x] # "none" =>
         row'[x] = "aborted"]_vars

\* While a workflow has lost no version and the list shows them all, its versions are numbered
\* 1, 2, ... and its definition is the newest one's or the published one's.
VersionsAgree ==
  \A w \in stored \ trimmed : Len(versions) <= ListLimit + 1 =>
    LET of == {i \in 1..Len(versions) : versions[i].workflow = w}
    IN  /\ \A i \in of : versions[i].number = Cardinality({j \in of : j <= i})
        /\ \E i \in of : /\ versions[i].definition = definition[w]
                         /\ i = published[w] \/ (\A j \in of : j <= i)

\* Nodes imported into a workflow stay if no call meets another that has read it before, and
\* nobody replaces the nodes.
ImportsKept ==
  \A c \in Imports : edit[c] = "done" /\ WorkflowOf[c] \notin stale \cup replaced =>
    c \in definition[WorkflowOf[c]].nodes

\* Debug calls that do not meet count two messages each, if they succeed.
MessagesCounted == met \/ messages = 2 * Cardinality({d \in Debugs : edit[d] = "done"})
=================================================================================
