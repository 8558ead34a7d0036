---------------------------- MODULE ExecutionTracker ----------------------------
(***************************************************************************)
(* The functions of history.ts that keep an execution's row: the tracker   *)
(* with its list of recorded events, the conditional transition, appending *)
(* one log, finalizing a record, what they broadcast, and the listing of   *)
(* running statuses that a client asks for. A call is two or three round   *)
(* trips to the store: some read the logs first (seed), all look the row   *)
(* up, and then write the columns of their patch; the look-up is a step    *)
(* only where it decides something, in a transition. Recording an event    *)
(* does not wait for its write, and finalizing does not wait for writes    *)
(* that are pending: the store may serve them in any order. Broadcasts are *)
(* not waited for either, and statuses that the queue or the agent writes  *)
(* are not broadcast at all. No execution is old enough here for a         *)
(* broadcast or a listing to reconcile it, which WorkflowQueue is about.   *)
(***************************************************************************)
EXTENDS Naturals, Sequences, FiniteSets

CONSTANTS
  Executions,    \* executions of one workflow
  Events,        \* recordEvent calls, each with its event
  Finals,        \* finalize calls of trackers
  Appends,       \* appendWorkflowExecutionLog calls, each with its log
  Finalizations, \* finalizeWorkflowExecutionRecord calls
  Transitions,   \* transitionWorkflowExecutionRecord calls
  Asides,        \* statuses that the queue or the agent writes: none is broadcast
  Viewers,       \* listWorkflowRunningStatuses calls of a client
  FastTracked,   \* executions created where CHAT_PARITY_FAST_WORKFLOW_TRACKER is '1'
  ExecutionOf,   \* the execution a call is about
  To,            \* the status a call sets, and the one an execution starts with
  Expected,      \* the statuses a transition expects
  Latest,        \* the latestStatus a transition is given, or "none"
  Given,         \* the logs a finalization was given
  MaxCasts,      \* bound: the broadcasts and listings that are under way at a time
  Failing        \* the calls, listings, and broadcasts of calls, that may be rejected

Calls == Events \cup Finals \cup Appends \cup Finalizations \cup Transitions \cup Asides
Seeded == Appends \cup Finalizations
Writers == Executions \cup Finals \cup Finalizations \cup Transitions
Casters == Writers \cup Viewers
Logs == Events \cup Appends
Active == {"queued", "running"}
Outcomes == {"completed", "failed"}
Statuses == Active \cup Outcomes

ASSUME TrackerAssumption ==
  /\ ExecutionOf \in [Calls -> Executions]
  /\ To \in [Writers \cup Asides -> Statuses]
  /\ \A x \in Executions : To[x] \in Active
  /\ FastTracked \subseteq Executions
  /\ \A c \in Finals \cup Finalizations : To[c] \in Outcomes
  /\ Expected \in [Transitions -> SUBSET Statuses]
  /\ Latest \in [Transitions -> Statuses \cup {"none"}]
  /\ Given \in [Finalizations -> Seq(Logs)]
  /\ MaxCasts \in Nat \ {0} /\ Failing \subseteq Calls \cup Casters
  /\ Events \cap (Finals \cup Seeded \cup Transitions) = {}
  /\ Finals \cap (Seeded \cup Transitions) = {}
  /\ Seeded \cap Transitions = {} /\ Appends \cap Finalizations = {}
  /\ Asides \cap (Events \cup Finals \cup Seeded \cup Transitions) = {}
  /\ Executions \cap Calls = {} /\ Viewers \cap (Executions \cup Calls) = {}

VARIABLES
  status,     \* the row's status, "none" before it exists
  logs,       \* the row's logs
  entries,    \* the tracker's own list of events
  at,         \* where a call is
  length,     \* how many entries a tracker's call writes
  seed,       \* the logs a call read before it built its patch
  cast,       \* where the catalog broadcast of a call, or a listing, is
  found,      \* the status it is going to show
  catalog,    \* the workflow's status as last sent, or answered, to the client
  claimed,    \* history: it is what the caller of a transition claimed
  looked,     \* history: the status a transition saw
  drained,    \* history: the finals called with no write pending
  overlapped, \* history: executions on which two seeded calls met
  stale       \* history: since the last broadcast or listing that began alone, another one
              \* began, one failed, or a status was written that is not broadcast

castVars == <<cast, found, catalog, claimed, stale>>
historyVars == <<looked, drained, overlapped>>
vars == <<status, logs, entries, at, length, seed, castVars, historyVars>>

Init ==
  /\ status = [x \in Executions |-> "none"]
  /\ logs = [x \in Executions |-> <<>>]
  /\ entries = [x \in Executions |-> <<>>]
  /\ at = [c \in Calls |-> "idle"]
  /\ length = [c \in Events \cup Finals |-> 0]
  /\ seed = [c \in Seeded |-> <<>>]
  /\ cast = [c \in Casters |-> "none"]
  /\ found = [c \in Casters |-> "none"]
  /\ catalog = "none"
  /\ claimed = FALSE
  /\ looked = [c \in Transitions |-> "none"]
  /\ drained = {}
  /\ overlapped = {}
  /\ stale = FALSE

InFlight(c) == at[c] \in {"seed", "lookup", "write"}
Entries(c) == SubSeq(entries[ExecutionOf[c]], 1, length[c])

-------------------------------------------------------------------------------
(* Broadcasts. The execution update that goes with each is not followed: it has the row *)
(* as it was written.                                                                   *)

Casting == {c \in Casters : cast[c] \in {"listing", "latest"}}

\* The row was written: a catalog status is on its way.
StartCast(c) ==
  /\ Cardinality(Casting) < MaxCasts
  /\ cast' = [cast EXCEPT ![c] = "listing"]
  /\ stale' = (Casting # {})
  /\ UNCHANGED <<found, catalog, claimed>>

\* A status was written, and nothing says so.
NoCast == stale' = TRUE /\ UNCHANGED <<cast, found, catalog, claimed>>

\* The status a broadcast is about: a transition's caller may name another one than it
\* writes. A listing is about none.
Announced(c) ==
  IF c \in Viewers THEN "idle"
  ELSE IF c \in Transitions /\ Latest[c] # "none" THEN Latest[c] ELSE To[c]

\* Mutant: the rows that are still queued do not count.
CatalogStatusOfRunning(c) ==
  IF \E x \in Executions : status[x] = "running" THEN "running"
  ELSE Announced(c)

\* The workflow's status by its active rows; without any, the status that is announced.
CatalogStatus(c) ==
  IF \E x \in Executions : status[x] = "running" THEN "running"
  ELSE IF \E x \in Executions : status[x] = "queued" THEN "queued"
  ELSE Announced(c)

\* A listing answers with the status that a broadcast would send.
ListRunningStatuses(v) ==
  /\ cast[v] = "none"
  /\ StartCast(v)
  /\ UNCHANGED <<status, logs, entries, at, length, seed, historyVars>>

\* emitCatalogStatusForReference: the active rows, then the latest rows, then the status.
ListActive(c) ==
  /\ cast[c] = "listing"
  /\ found' = [found EXCEPT ![c] = CatalogStatus(c)]
  /\ cast' = [cast EXCEPT ![c] = "latest"]
  /\ UNCHANGED <<status, logs, entries, at, length, seed, catalog, claimed, stale, historyVars>>

\* A transition to an outcome announces another status, and is about to show it.
Claims(c) == c \in Transitions /\ To[c] \in Outcomes /\ Latest[c] = found[c]

EmitCatalogStatus(c) ==
  /\ cast[c] = "latest"
  /\ catalog' = found[c]
  /\ claimed' = Claims(c)
  /\ cast' = [cast EXCEPT ![c] = "done"]
  /\ found' = [found EXCEPT ![c] = "none"]
  /\ UNCHANGED <<status, logs, entries, at, length, seed, stale, historyVars>>

\* A rejection is swallowed and nothing is sent.
CastFails(c) ==
  /\ c \in Failing /\ cast[c] \in {"listing", "latest"}
  /\ cast' = [cast EXCEPT ![c] = "done"]
  /\ found' = [found EXCEPT ![c] = "none"]
  /\ stale' = TRUE
  /\ UNCHANGED <<status, logs, entries, at, length, seed, catalog, claimed, historyVars>>

-------------------------------------------------------------------------------
(* Calls. *)

\* createWorkflowExecutionTracker: the tracker is handed out after the row exists, which
\* the fast tracker tells nobody.
CreateTracker(x) ==
  /\ status[x] = "none"
  /\ status' = [status EXCEPT ![x] = To[x]]
  /\ IF x \in FastTracked THEN NoCast ELSE StartCast(x)
  /\ UNCHANGED <<logs, entries, at, length, seed, historyVars>>

Begin(c, where) ==
  /\ at[c] = "idle" /\ status[ExecutionOf[c]] # "none"
  /\ at' = [at EXCEPT ![c] = where]
  /\ UNCHANGED <<status, logs, seed, castVars, looked>>

\* recordEvent: the patch has all the entries so far.
RecordEvent(e) ==
  LET x == ExecutionOf[e]
  IN  /\ Begin(e, "write")
      /\ entries' = [entries EXCEPT ![x] = Append(@, e)]
      /\ length' = [length EXCEPT ![e] = Len(entries[x]) + 1]
      /\ UNCHANGED <<drained, overlapped>>

PendingWrites(x) == {c \in Events \cup Finals : ExecutionOf[c] = x /\ InFlight(c)}

\* finalize: the pending writes are not waited for.
Finalize(f) ==
  LET x == ExecutionOf[f]
  IN  /\ Begin(f, "write")
      /\ length' = [length EXCEPT ![f] = Len(entries[x])]
      /\ drained' = IF PendingWrites(x) = {} THEN drained \cup {f} ELSE drained
      /\ UNCHANGED <<entries, overlapped>>

\* appendWorkflowExecutionLog and finalizeWorkflowExecutionRecord read the logs first.
BeginSeeded(c) ==
  LET x == ExecutionOf[c]
  IN  /\ Begin(c, "seed")
      /\ overlapped' = IF \E d \in Seeded : InFlight(d) /\ ExecutionOf[d] = x
                         THEN overlapped \cup {x} ELSE overlapped
      /\ UNCHANGED <<entries, length, drained>>

ReadSeed(c) ==
  /\ at[c] = "seed"
  /\ seed' = [seed EXCEPT ![c] = logs[ExecutionOf[c]]]
  /\ at' = [at EXCEPT ![c] = "write"]
  /\ UNCHANGED <<status, logs, entries, length, castVars, historyVars>>

BeginTransition(t) == Begin(t, "lookup") /\ UNCHANGED <<entries, length, drained, overlapped>>

\* A transition gives up if it sees another status than it expects.
LookupExpected(t) ==
  /\ at[t] = "lookup"
  /\ looked' = [looked EXCEPT ![t] = status[ExecutionOf[t]]]
  /\ at' = [at EXCEPT ![t] = IF Expected[t] = {} \/ status[ExecutionOf[t]] \in Expected[t]
                               THEN "write" ELSE "done"]
  /\ UNCHANGED <<status, logs, entries, length, seed, castVars, drained, overlapped>>

Write(c) ==
  /\ at[c] = "write"
  /\ at' = [at EXCEPT ![c] = "done"]
  /\ UNCHANGED <<entries, length, seed, historyVars>>

\* Mutant: the write of an event carries the status the row had when it was recorded.
WriteEventWithStatus(e) ==
  /\ Write(e)
  /\ logs' = [logs EXCEPT ![ExecutionOf[e]] = Entries(e)]
  /\ status' = [status EXCEPT ![ExecutionOf[e]] = To[ExecutionOf[e]]]
  /\ UNCHANGED castVars

\* Mutant: the patch has the event alone, not the list.
WriteEventAlone(e) ==
  /\ Write(e)
  /\ logs' = [logs EXCEPT ![ExecutionOf[e]] = e]
  /\ UNCHANGED <<status, castVars>>

WriteEvent(e) ==
  /\ Write(e)
  /\ logs' = [logs EXCEPT ![ExecutionOf[e]] = Entries(e)]
  /\ UNCHANGED <<status, castVars>>

\* Mutant: finalizing leaves the logs out of its patch.
WriteFinalWithoutLogs(f) ==
  /\ Write(f)
  /\ status' = [status EXCEPT ![ExecutionOf[f]] = To[f]]
  /\ StartCast(f)
  /\ UNCHANGED logs

WriteFinal(f) ==
  /\ Write(f)
  /\ status' = [status EXCEPT ![ExecutionOf[f]] = To[f]]
  /\ logs' = [logs EXCEPT ![ExecutionOf[f]] = Entries(f)]
  /\ StartCast(f)

WriteAppend(a) ==
  /\ Write(a)
  /\ logs' = [logs EXCEPT ![ExecutionOf[a]] = Append(seed[a], a)]
  /\ UNCHANGED <<status, castVars>>

\* Mutant: the logs that were given replace the stored ones even if there are none.
ResolveGivenLogs(z) == Given[z]

\* resolveStoredLogs
ResolveStoredLogs(z) == IF Given[z] # <<>> THEN Given[z] ELSE seed[z]

WriteFinalization(z) ==
  /\ Write(z)
  /\ status' = [status EXCEPT ![ExecutionOf[z]] = To[z]]
  /\ logs' = [logs EXCEPT ![ExecutionOf[z]] = ResolveStoredLogs(z)]
  /\ StartCast(z)

WriteTransition(t) ==
  /\ Write(t)
  /\ status' = [status EXCEPT ![ExecutionOf[t]] = To[t]]
  /\ StartCast(t)
  /\ UNCHANGED logs

\* WorkflowExecutionEntity.transition and finalize as the consumer of the queue and the
\* enqueueing call use them, and a stop by the agent, whose 'cancelled' is an outcome here.
WriteAside(q) ==
  /\ at[q] = "idle" /\ status[ExecutionOf[q]] # "none"
  /\ at' = [at EXCEPT ![q] = "done"]
  /\ status' = [status EXCEPT ![ExecutionOf[q]] = To[q]]
  /\ NoCast
  /\ UNCHANGED <<logs, entries, length, seed, historyVars>>

\* A round trip is rejected: nobody waits for a recorded event, any other call rejects.
CallFails(c) ==
  /\ c \in Failing /\ InFlight(c)
  /\ at' = [at EXCEPT ![c] = "failed"]
  /\ UNCHANGED <<status, logs, entries, length, seed, castVars, historyVars>>

-------------------------------------------------------------------------------

Cast(c) == ListActive(c) \/ EmitCatalogStatus(c) \/ CastFails(c)

Next ==
  \/ \E x \in Executions : CreateTracker(x)
  \/ \E e \in Events : RecordEvent(e) \/ WriteEvent(e)
  \/ \E f \in Finals : Finalize(f) \/ WriteFinal(f)
  \/ \E c \in Seeded : BeginSeeded(c) \/ ReadSeed(c)
  \/ \E a \in Appends : WriteAppend(a)
  \/ \E z \in Finalizations : WriteFinalization(z)
  \/ \E t \in Transitions : BeginTransition(t) \/ LookupExpected(t) \/ WriteTransition(t)
  \/ \E q \in Asides : WriteAside(q)
  \/ \E c \in Calls : CallFails(c)
  \/ \E v \in Viewers : ListRunningStatuses(v)
  \/ \E c \in Casters : Cast(c)

Spec == Init /\ [][Next]_vars

-------------------------------------------------------------------------------
(* Properties. *)

\* The type invariant: a tracker's writes have entries it recorded, in the patch and in the row.
TypeOK ==
  /\ status \in [Executions -> Statuses \cup {"none"}]
  /\ logs \in [Executions -> Seq(Logs)]
  /\ entries \in [Executions -> Seq(Events)]
  /\ at \in [Calls -> {"idle", "seed", "lookup", "write", "done", "failed"}]
  /\ length \in [Events \cup Finals -> Nat]
  /\ seed \in [Seeded -> Seq(Logs)]
  /\ cast \in [Casters -> {"none", "listing", "latest", "done"}]
  /\ found \in [Casters -> Statuses \cup {"none", "idle"}]
  /\ catalog \in Statuses \cup {"none", "idle"}
  /\ looked \in [Transitions -> Statuses \cup {"none"}]
  /\ drained \subseteq Finals
  /\ overlapped \subseteq Executions
  /\ claimed \in BOOLEAN
  /\ stale \in BOOLEAN

\* Once an execution has its outcome, a log write that lands late does not undo it; only
\* another finalization does, a status written by the queue, or a transition that had seen
\* an expected status before.
OutcomeStands ==
  [][\A x \in Executions :
       status[x] \in Outcomes /\ status'[x] # status[x] =>
         \E c \in (Writers \ Executions) \cup Asides :
           /\ at[c] # "done" /\ at'[c] = "done" /\ ExecutionOf[c] = x
           /\ c \in Transitions /\ Expected[c] # {} => looked[c] \in Expected[c]]_vars

Tracked(x) == \A c \in Seeded : ExecutionOf[c] # x
IsPrefixOfEntries(x) ==
  Len(logs[x]) <= Len(entries[x]) /\ logs[x] = SubSeq(entries[x], 1, Len(logs[x]))

\* The stored logs of a tracked execution are always a prefix of what was recorded, however
\* its writes overtake each other; and if finalize was called with no write pending, nothing
\* recorded before it is lost again. (With writes pending, it may be.)
TrackedLogsKept ==
  \A x \in Executions : Tracked(x) =>
    /\ IsPrefixOfEntries(x)
    /\ \A f \in drained : ExecutionOf[f] = x /\ at[f] = "done" => Len(logs[x]) >= length[f]

Untracked(x) ==
  /\ \A c \in Events \cup Finals : ExecutionOf[c] # x
  /\ \A z \in Finalizations : ExecutionOf[z] = x => Given[z] = <<>>

\* Logs that are appended one at a time are all kept, in an execution without a tracker and
\* through its finalization, whatever transitions do meanwhile.
AppendsKept ==
  \A x \in Executions \ overlapped : Untracked(x) =>
    \A a \in Appends : ExecutionOf[a] = x /\ at[a] = "done" =>
      \E i \in 1..Len(logs[x]) : logs[x][i] = a

\* Whatever crossed, failed or was written without a broadcast before, the next broadcast or
\* listing that begins alone puts right what the client shows: if it has ended, and since it
\* began no other did and no status was written silently, by the fast tracker, the queue or
\* the agent, then the client shows what the rows say, or what the caller of a transition
\* claimed in its latestStatus.
CatalogAgrees ==
  ~stale /\ Casting = {} =>
    /\ \A s \in Active : catalog = s => claimed \/ \E x \in Executions : status[x] = s
    /\ (\E x \in Executions : status[x] \in Active) => catalog \in Active
=================================================================================
