---------------------------- MODULE WorkflowVersions ----------------------------
(***************************************************************************)
(* Publishing a workflow, deleting its versions and attributing executions *)
(* to them. A publication writes the workflow's row, numbers a version     *)
(* after the greatest stored number, clears is_current on the current      *)
(* rows one by one and creates its own row as current; a deletion lists    *)
(* the requested rows, lists the executions that reference them and        *)
(* deletes the remaining rows one by one; a queued execution looks the     *)
(* newest version up and then creates its row. Every step is a database    *)
(* call of its own and nothing is transactional.                           *)
(*                                                                         *)
(* One workflow: the rows of two workflows never meet. A version is named  *)
(* by the publication that creates it. Any publications may be under way   *)
(* together, and which ones were is kept as history: what the steps leave  *)
(* consistent is what publications leave that did not meet.                *)
(***************************************************************************)
EXTENDS Naturals, FiniteSets

CONSTANTS
  Publications, \* publications of the workflow
  Deletions,    \* calls of deleteWorkflowVersions
  Executions,   \* executions that are queued
  NoVersion,    \* the absent version
  StoreFails    \* whether database calls may be rejected

ASSUME VersionsAssumption ==
  /\ NoVersion \notin Publications
  /\ StoreFails \in BOOLEAN

VARIABLES
  content,     \* the publication whose definition the workflow's row holds
  versions,    \* the stored version rows
  number,      \* their version_number, computed before the row is stored
  current,     \* the rows with is_current
  publication, \* where a publication is
  clearing,    \* the rows it has yet to clear
  deletion,    \* where a deletion is
  doomed,      \* the rows it would delete
  execution,   \* where an execution is
  attributed,  \* its workflow_version_id
  met          \* history: a publication that began and one that was under way then

publicationVars == <<content, number, publication, clearing, met>>
deletionVars == <<deletion, doomed>>
executionVars == <<execution, attributed>>
vars == <<versions, current, publicationVars, deletionVars, executionVars>>

PublicationStates == {"idle", "updated", "numbered", "clearing", "published", "failed"}

Init ==
  /\ content = NoVersion
  /\ versions = {}
  /\ number = [p \in Publications |-> 0]
  /\ current = {}
  /\ publication = [p \in Publications |-> "idle"]
  /\ clearing = [p \in Publications |-> {}]
  /\ deletion = [d \in Deletions |-> "idle"]
  /\ doomed = [d \in Deletions |-> {}]
  /\ execution = [x \in Executions |-> "idle"]
  /\ attributed = [x \in Executions |-> NoVersion]
  /\ met = {}

-------------------------------------------------------------------------------
(* Publishing. *)

Underway(p) == publication[p] \in {"updated", "numbered", "clearing"}
Newest == {v \in versions : \A w \in versions : number[w] <= number[v]}

\* updateAiWorkflowsCollectionData: the row is published before its version exists.
UpdateRow(p) ==
  /\ publication[p] = "idle"
  /\ content' = p
  /\ publication' = [publication EXCEPT ![p] = "updated"]
  /\ met' = met \cup {<<p, q>> : q \in {r \in Publications : Underway(r)}}
  /\ UNCHANGED <<versions, number, current, clearing, deletionVars, executionVars>>

\* Mutants: the number is the latest one; or the number of rows plus one.
ReadLatestNumber(p) ==
  /\ publication[p] = "updated"
  /\ \/ \E latest \in Newest : number' = [number EXCEPT ![p] = number[latest]]
     \/ versions = {} /\ UNCHANGED number
  /\ publication' = [publication EXCEPT ![p] = "numbered"]
  /\ UNCHANGED <<content, versions, current, clearing, met, deletionVars, executionVars>>
CountVersions(p) ==
  /\ publication[p] = "updated"
  /\ number' = [number EXCEPT ![p] = Cardinality(versions) + 1]
  /\ publication' = [publication EXCEPT ![p] = "numbered"]
  /\ UNCHANGED <<content, versions, current, clearing, met, deletionVars, executionVars>>

\* createOnPublish: the version after the greatest number.
ReadLatest(p) ==
  /\ publication[p] = "updated"
  /\ \/ \E latest \in Newest : number' = [number EXCEPT ![p] = number[latest] + 1]
     \/ versions = {} /\ number' = [number EXCEPT ![p] = 1]
  /\ publication' = [publication EXCEPT ![p] = "numbered"]
  /\ UNCHANGED <<content, versions, current, clearing, met, deletionVars, executionVars>>

\* Mutant: the former versions are left current.
ListNoCurrent(p) ==
  /\ publication[p] = "numbered"
  /\ publication' = [publication EXCEPT ![p] = "clearing"]
  /\ UNCHANGED <<content, versions, number, current, clearing, met, deletionVars, executionVars>>

\* clearCurrentByWorkflowId lists the current rows ...
ListCurrent(p) ==
  /\ publication[p] = "numbered"
  /\ clearing' = [clearing EXCEPT ![p] = current]
  /\ publication' = [publication EXCEPT ![p] = "clearing"]
  /\ UNCHANGED <<content, versions, number, current, met, deletionVars, executionVars>>

\* ... and updates them one by one. A row that is gone by then is not written.
ClearNext(p) ==
  /\ publication[p] = "clearing"
  /\ \E v \in clearing[p] :
       /\ current' = current \ {v}
       /\ clearing' = [clearing EXCEPT ![p] = @ \ {v}]
  /\ UNCHANGED <<content, versions, number, publication, met, deletionVars, executionVars>>

\* Mutant: the new row is not current.
CreateNotCurrent(p) ==
  /\ publication[p] = "clearing" /\ clearing[p] = {}
  /\ versions' = versions \cup {p}
  /\ publication' = [publication EXCEPT ![p] = "published"]
  /\ UNCHANGED <<content, number, current, clearing, met, deletionVars, executionVars>>

CreateVersion(p) ==
  /\ publication[p] = "clearing" /\ clearing[p] = {}
  /\ versions' = versions \cup {p}
  /\ current' = current \cup {p}
  /\ publication' = [publication EXCEPT ![p] = "published"]
  /\ UNCHANGED <<content, number, clearing, met, deletionVars, executionVars>>

\* A rejected call ends the publication where it stands.
PublicationFails(p) ==
  /\ StoreFails
  /\ publication[p] \in {"updated", "numbered", "clearing"}
  /\ publication' = [publication EXCEPT ![p] = "failed"]
  /\ UNCHANGED <<versions, current, content, number, clearing, met, deletionVars, executionVars>>

-------------------------------------------------------------------------------
(* Deleting versions. *)

\* Mutant: current rows are not blocked.
ListRequestedVersions(d) ==
  /\ deletion[d] = "idle"
  /\ \E requested \in SUBSET versions : doomed' = [doomed EXCEPT ![d] = requested]
  /\ deletion' = [deletion EXCEPT ![d] = "listed"]
  /\ UNCHANGED <<versions, current, publicationVars, executionVars>>

\* findByIds: the requested rows; the current ones and, for want of permission, any
\* other may be blocked.
ListVersions(d) ==
  /\ deletion[d] = "idle"
  /\ \E deletable \in SUBSET (versions \ current) :
       doomed' = [doomed EXCEPT ![d] = deletable]
  /\ deletion' = [deletion EXCEPT ![d] = "listed"]
  /\ UNCHANGED <<versions, current, publicationVars, executionVars>>

References(x) == IF execution[x] = "tracked" THEN {attributed[x]} ELSE {}

\* Mutant: the executions are read and not looked at.
IgnoreReferences(d) ==
  /\ deletion[d] = "listed"
  /\ deletion' = [deletion EXCEPT ![d] = "deleting"]
  /\ UNCHANGED <<versions, current, publicationVars, doomed, executionVars>>

\* listVersionIdRows: rows that an execution references are blocked.
ListReferences(d) ==
  /\ deletion[d] = "listed"
  /\ doomed' = [doomed EXCEPT ![d] = @ \ UNION {References(x) : x \in Executions}]
  /\ deletion' = [deletion EXCEPT ![d] = "deleting"]
  /\ UNCHANGED <<versions, current, publicationVars, executionVars>>

\* deleteByIds: one row after another.
DeleteNext(d) ==
  /\ deletion[d] = "deleting"
  /\ \E v \in doomed[d] :
       /\ doomed' = [doomed EXCEPT ![d] = @ \ {v}]
       /\ versions' = versions \ {v}
       /\ current' = current \ {v}
  /\ UNCHANGED <<publicationVars, deletion, executionVars>>

DeletionFails(d) ==
  /\ StoreFails
  /\ deletion[d] \in {"listed", "deleting"}
  /\ deletion' = [deletion EXCEPT ![d] = "failed"]
  /\ UNCHANGED <<versions, current, publicationVars, doomed, executionVars>>

-------------------------------------------------------------------------------
(* Queueing an execution. *)

\* resolveCurrentId: the row with the greatest number, current or not; a rejected read
\* counts as none.
ResolveCurrent(x) ==
  /\ execution[x] = "idle"
  /\ \/ \E v \in Newest : attributed' = [attributed EXCEPT ![x] = v]
     \/ /\ versions = {} \/ StoreFails
        /\ UNCHANGED attributed
  /\ execution' = [execution EXCEPT ![x] = "resolved"]
  /\ UNCHANGED <<versions, current, publicationVars, deletionVars>>

\* createTracker stores the id that was found.
Track(x) ==
  /\ execution[x] = "resolved"
  /\ execution' = [execution EXCEPT ![x] = "tracked"]
  /\ UNCHANGED <<versions, current, publicationVars, deletionVars, attributed>>

-------------------------------------------------------------------------------

Publish(p) ==
  \/ UpdateRow(p) \/ ReadLatest(p) \/ ListCurrent(p) \/ ClearNext(p)
  \/ CreateVersion(p) \/ PublicationFails(p)
Delete(d) == ListVersions(d) \/ ListReferences(d) \/ DeleteNext(d) \/ DeletionFails(d)
Queue(x) == ResolveCurrent(x) \/ Track(x)

Next ==
  \/ \E p \in Publications : Publish(p)
  \/ \E d \in Deletions : Delete(d)
  \/ \E x \in Executions : Queue(x)

Spec == Init /\ [][Next]_vars

-------------------------------------------------------------------------------
(* Properties. *)

\* The type invariant; stored rows are numbered from one and only stored rows are current.
TypeOK ==
  /\ content \in Publications \cup {NoVersion}
  /\ versions \subseteq Publications
  /\ number \in [Publications -> Nat]
  /\ current \subseteq versions
  /\ publication \in [Publications -> PublicationStates]
  /\ clearing \in [Publications -> SUBSET Publications]
  /\ deletion \in [Deletions -> {"idle", "listed", "deleting", "failed"}]
  /\ doomed \in [Deletions -> SUBSET Publications]
  /\ execution \in [Executions -> {"idle", "resolved", "tracked"}]
  /\ attributed \in [Executions -> Publications \cup {NoVersion}]
  /\ met \subseteq Publications \X Publications
  /\ \A v \in versions : number[v] > 0

\* deleteWorkflowVersions never deletes a current version, although it looked at
\* is_current several database calls earlier: whoever publishes in the meantime.
CurrentIsKept == [][current \subseteq versions']_vars

\* An execution row whose version is stored, and on which no deletion has decided yet,
\* keeps that version: what deleteWorkflowVersions blocks stays blocked.
KeepsVersion(x) ==
  /\ execution[x] = "tracked"
  /\ attributed[x] \in versions
  /\ \A d \in Deletions : deletion[d] = "deleting" => attributed[x] \notin doomed[d]
ReferencedIsKept == [][\A x \in Executions : KeepsVersion(x) => KeepsVersion(x)']_vars

\* Two publications were under way together.
Met(p, q) == <<p, q>> \in met \/ <<q, p>> \in met

\* The steps of createOnPublish leave two current versions only if their publications met,
\* even when publications stop half way and versions are deleted meanwhile.
AtMostOneCurrent == \A v, w \in current : v = w \/ Met(v, w)

\* Two stored versions carry the same number only if their publications met, although the
\* number was computed before the former rows were cleared and some of them deleted.
NumbersUnique == \A v, w \in versions : number[v] = number[w] => v = w \/ Met(v, w)

\* A completed publication that met no other, and which no other has followed, leaves the
\* version of what the workflow's row holds as the only current and the only newest one:
\* whatever publications that met or failed had left before.
PublishedIsNewest ==
  \A p \in Publications :
    /\ content = p /\ publication[p] = "published"
    /\ \A q \in Publications : ~Met(p, q)
    => current = {p} /\ Newest = {p}
=================================================================================
