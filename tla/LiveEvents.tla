------------------------------- MODULE LiveEvents -------------------------------
(***************************************************************************)
(* Live log and event subscriptions of workflow executions. An appender    *)
(* stores a row and then emits the event on every topic it belongs to; the *)
(* bus calls the listeners of its own process at once. A listener is an    *)
(* asynchronous generator: nothing happens before its first next(), then   *)
(* its handler queues events, and it hands them out one per next(), asleep *)
(* for 250 ms at a time while the queue is empty. It ends when its timeout *)
(* is noticed, or when it is closed while it is suspended at a yield: a    *)
(* close that comes while a next() is pending waits for that next() to     *)
(* end. A client that has subscribed reads what was stored before, page by *)
(* page and one table after the other.                                     *)
(***************************************************************************)
EXTENDS Naturals, Sequences

CONSTANTS
  Events,       \* the events that are appended
  Kind,         \* [Events -> Kinds]: a log row or an event row
  ExecutionOf,  \* [Events -> Executions]
  WithRun,      \* the events whose appender was told the run
  WithWorkflow, \* the events whose appender was told the workflow
  Executions,
  RunOf,        \* the executions' run ids
  WorkflowOf,   \* the executions' workflows
  Listeners,
  Reference,    \* what a listener asks for: an execution, a run, a workflow
  Timed,        \* the listeners that were given a timeout
  First,        \* rows per page
  NoId,         \* an absent id
  StoreFails    \* whether inserting a row may be rejected

Kinds == {"log", "event"}
Ids == Executions \cup {RunOf[x] : x \in Executions} \cup {WorkflowOf[x] : x \in Executions}

ASSUME LiveAssumption ==
  /\ Kind \in [Events -> Kinds]
  /\ ExecutionOf \in [Events -> Executions]
  /\ WithRun \subseteq Events /\ WithWorkflow \subseteq Events
  /\ \A x, y \in Executions : RunOf[x] = RunOf[y] => x = y
  /\ NoId \notin Ids
  /\ Reference \in [Listeners -> [execution : Ids \cup {NoId}, run : Ids \cup {NoId},
                                  workflow : Ids \cup {NoId}]]
  /\ Timed \subseteq Listeners
  /\ First \in Nat \ {0}
  /\ StoreFails \in BOOLEAN

VARIABLES
  rows,       \* rows[k][x]: the stored rows of an execution, by creation time
  appender,   \* where the appending call of an event is
  emitted,    \* the number of events emitted so far
  emittedAt,  \* which of them an event is, 0 if none
  loop,       \* where a listener's generator is
  registered, \* the listeners whose handler is on the bus
  since,      \* the events emitted before it was
  queue,      \* a listener's queue
  delivered,  \* the events it has handed out
  expired,    \* its timeout has fired (done)
  closing,    \* its client has called return()
  snapshot,   \* the rows its client has read
  offset,     \* offset[l][k]: the next page of a table
  complete    \* complete[l]: the tables it has read to the end

busVars == <<rows, appender, emitted, emittedAt>>
loopVars == <<loop, registered, since>>
clientVars == <<snapshot, offset, complete>>
vars == <<busVars, loopVars, queue, delivered, expired, closing, clientVars>>

Init ==
  /\ rows = [k \in Kinds |-> [x \in Executions |-> <<>>]]
  /\ appender = [e \in Events |-> "idle"]
  /\ emitted = 0
  /\ emittedAt = [e \in Events |-> 0]
  /\ loop = [l \in Listeners |-> "new"]
  /\ registered = {}
  /\ since = [l \in Listeners |-> 0]
  /\ queue = [l \in Listeners |-> <<>>]
  /\ delivered = [l \in Listeners |-> <<>>]
  /\ expired = [l \in Listeners |-> FALSE]
  /\ closing = [l \in Listeners |-> FALSE]
  /\ snapshot = [l \in Listeners |-> {}]
  /\ offset = [l \in Listeners |-> [k \in Kinds |-> 0]]
  /\ complete = [l \in Listeners |-> {}]

-------------------------------------------------------------------------------
(* Topics. *)

AllTopic == <<"workflow", "*">>

\* workflowEventTopic: the most specific id of the reference.
WorkflowEventTopic(reference) ==
  CASE reference.execution # NoId -> <<"execution", reference.execution>>
    [] reference.execution = NoId /\ reference.run # NoId -> <<"run", reference.run>>
    [] reference.execution = NoId /\ reference.run = NoId /\ reference.workflow # NoId
         -> <<"workflow", reference.workflow>>
    [] OTHER -> AllTopic

\* candidateTopics: one topic for every id the event carries.
CandidateTopics(e) ==
  LET x == ExecutionOf[e]
  IN  {AllTopic, <<"execution", x>>}
        \cup (IF e \in WithRun THEN {<<"run", RunOf[x]>>} ELSE {})
        \cup (IF e \in WithWorkflow THEN {<<"workflow", WorkflowOf[x]>>} ELSE {})

Wants(l, e) == WorkflowEventTopic(Reference[l]) \in CandidateTopics(e)

-------------------------------------------------------------------------------
(* Appending. *)

\* appendWorkflowLogAndPublish, appendWorkflowEventAndPublish: the row is awaited; if it
\* is rejected nothing is published.
StoreRow(e) ==
  /\ appender[e] = "idle"
  /\ \/ /\ rows' = [rows EXCEPT ![Kind[e]][ExecutionOf[e]] = Append(@, e)]
        /\ appender' = [appender EXCEPT ![e] = "stored"]
     \/ /\ StoreFails
        /\ appender' = [appender EXCEPT ![e] = "rejected"]
        /\ UNCHANGED rows
  /\ UNCHANGED <<emitted, emittedAt, loopVars, queue, delivered, expired, closing, clientVars>>

\* Mutant: the event goes to the most specific topic only.
EmitMostSpecific(e) ==
  /\ appender[e] = "stored"
  /\ appender' = [appender EXCEPT ![e] = "published"]
  /\ emitted' = emitted + 1
  /\ emittedAt' = [emittedAt EXCEPT ![e] = emitted + 1]
  /\ queue' = [l \in Listeners |->
                 IF l \in registered
                      /\ WorkflowEventTopic(Reference[l]) = <<"execution", ExecutionOf[e]>>
                   THEN Append(queue[l], e) ELSE queue[l]]
  /\ UNCHANGED <<rows, loopVars, delivered, expired, closing, clientVars>>

\* publishWorkflowLiveEvent: the handlers run before the call returns. A listener has one
\* topic, so it is called at most once.
PublishWorkflowLiveEvent(e) ==
  /\ appender[e] = "stored"
  /\ appender' = [appender EXCEPT ![e] = "published"]
  /\ emitted' = emitted + 1
  /\ emittedAt' = [emittedAt EXCEPT ![e] = emitted + 1]
  /\ queue' = [l \in Listeners |->
                 IF l \in registered /\ Wants(l, e) THEN Append(queue[l], e) ELSE queue[l]]
  /\ UNCHANGED <<rows, loopVars, delivered, expired, closing, clientVars>>

-------------------------------------------------------------------------------
(* Listening. *)

\* The first next() runs the generator's head.
Listen(l) ==
  /\ loop[l] = "new" /\ ~closing[l]
  /\ loop' = [loop EXCEPT ![l] = "polling"]
  /\ registered' = registered \cup {l}
  /\ since' = [since EXCEPT ![l] = emitted]
  /\ UNCHANGED <<busVars, queue, delivered, expired, closing, clientVars>>

\* Mutant: the newest event is handed out first.
YieldNewest(l) ==
  /\ loop[l] = "polling" /\ ~expired[l]
  /\ queue[l] # <<>>
  /\ delivered' = [delivered EXCEPT ![l] = Append(@, queue[l][Len(queue[l])])]
  /\ queue' = [queue EXCEPT ![l] = SubSeq(@, 1, Len(@) - 1)]
  /\ loop' = [loop EXCEPT ![l] = "yielded"]
  /\ UNCHANGED <<busVars, registered, since, expired, closing, clientVars>>

\* The pending next() gets the head of the queue.
YieldEvent(l) ==
  /\ loop[l] = "polling" /\ ~expired[l]
  /\ queue[l] # <<>>
  /\ delivered' = [delivered EXCEPT ![l] = Append(@, Head(queue[l]))]
  /\ queue' = [queue EXCEPT ![l] = Tail(@)]
  /\ loop' = [loop EXCEPT ![l] = "yielded"]
  /\ UNCHANGED <<busVars, registered, since, expired, closing, clientVars>>

\* The client asks for the next event.
Resume(l) ==
  /\ loop[l] = "yielded" /\ ~closing[l]
  /\ loop' = [loop EXCEPT ![l] = "polling"]
  /\ UNCHANGED <<busVars, registered, since, queue, delivered, expired, closing, clientVars>>

\* The finally block.
Release(l) ==
  /\ loop' = [loop EXCEPT ![l] = "ended"]
  /\ registered' = registered \ {l}
  /\ UNCHANGED <<busVars, since, queue, delivered, expired, closing, clientVars>>

\* Mutant: the loop is left without removing the handler.
EndWithoutRelease(l) ==
  /\ loop[l] = "polling" /\ expired[l]
  /\ loop' = [loop EXCEPT ![l] = "ended"]
  /\ UNCHANGED <<busVars, registered, since, queue, delivered, expired, closing, clientVars>>

\* The loop sees that it is done, whatever is still queued.
EndExpired(l) == loop[l] = "polling" /\ expired[l] /\ Release(l)

\* return() takes effect at a yield, or before the first next().
EndClosed(l) == closing[l] /\ loop[l] \in {"new", "yielded"} /\ Release(l)

\* Mutant: closing clears the timeout.
TimerClearedOnClose(l) ==
  /\ l \in Timed /\ l \in registered
  /\ ~expired[l] /\ ~closing[l]
  /\ expired' = [expired EXCEPT ![l] = TRUE]
  /\ UNCHANGED <<busVars, loopVars, queue, delivered, closing, clientVars>>

TimerFires(l) ==
  /\ l \in Timed /\ l \in registered
  /\ ~expired[l]
  /\ expired' = [expired EXCEPT ![l] = TRUE]
  /\ UNCHANGED <<busVars, loopVars, queue, delivered, closing, clientVars>>

\* The subscription is cancelled, or its connection is gone.
Close(l) ==
  /\ loop[l] # "ended" /\ ~closing[l]
  /\ closing' = [closing EXCEPT ![l] = TRUE]
  /\ UNCHANGED <<busVars, loopVars, queue, delivered, expired, clientVars>>

-------------------------------------------------------------------------------
(* Reading what was stored before. *)

\* resolveWorkflowExecution: a workflow alone resolves to nothing.
ResolvedExecution(l) ==
  LET reference == Reference[l]
  IN  {x \in Executions : IF reference.execution # NoId
                            THEN x = reference.execution ELSE RunOf[x] = reference.run}

\* Mutant: the next page starts one row too late.
FetchPageSkipping(l, k) ==
  /\ l \in registered /\ k \notin complete[l]
  /\ \E x \in ResolvedExecution(l) :
       LET next == offset[l][k] + First
           page == {i \in 1..Len(rows[k][x]) : offset[l][k] < i /\ i <= next}
       IN  /\ snapshot' = [snapshot EXCEPT ![l] = @ \cup {rows[k][x][i] : i \in page}]
           /\ offset' = [offset EXCEPT ![l][k] = next + 1]
           /\ complete' = IF next > Len(rows[k][x])
                            THEN [complete EXCEPT ![l] = @ \cup {k}] ELSE complete
  /\ UNCHANGED <<busVars, loopVars, queue, delivered, expired, closing>>

\* fetchWorkflowLogs, fetchWorkflowEvents: the rows after the offset, oldest first. The
\* client goes on while it gets full pages.
FetchPage(l, k) ==
  /\ l \in registered /\ k \notin complete[l]
  /\ \E x \in ResolvedExecution(l) :
       LET next == offset[l][k] + First
           page == {i \in 1..Len(rows[k][x]) : offset[l][k] < i /\ i <= next}
       IN  /\ snapshot' = [snapshot EXCEPT ![l] = @ \cup {rows[k][x][i] : i \in page}]
           /\ offset' = [offset EXCEPT ![l][k] = next]
           /\ complete' = IF next > Len(rows[k][x])
                            THEN [complete EXCEPT ![l] = @ \cup {k}] ELSE complete
  /\ UNCHANGED <<busVars, loopVars, queue, delivered, expired, closing>>

-------------------------------------------------------------------------------

Appending(e) == StoreRow(e) \/ PublishWorkflowLiveEvent(e)
Generator(l) == YieldEvent(l) \/ EndExpired(l) \/ EndClosed(l)
Client(l) == Listen(l) \/ Resume(l) \/ Close(l) \/ \E k \in Kinds : FetchPage(l, k)

Next ==
  \/ \E e \in Events : Appending(e)
  \/ \E l \in Listeners : Generator(l) \/ TimerFires(l) \/ Client(l)

Spec == Init /\ [][Next]_vars

\* The event loop runs the generators and their timers; appenders and clients need not act.
FairSpec == Spec /\ \A l \in Listeners : WF_vars(Generator(l)) /\ WF_vars(TimerFires(l))

-------------------------------------------------------------------------------
(* Properties. *)

\* The type invariant; the handlers on the bus are those of the generators under way.
TypeOK ==
  /\ rows \in [Kinds -> [Executions -> Seq(Events)]]
  /\ appender \in [Events -> {"idle", "stored", "published", "rejected"}]
  /\ emitted \in Nat
  /\ emittedAt \in [Events -> Nat]
  /\ loop \in [Listeners -> {"new", "polling", "yielded", "ended"}]
  /\ registered = {l \in Listeners : loop[l] \in {"polling", "yielded"}}
  /\ since \in [Listeners -> Nat]
  /\ queue \in [Listeners -> Seq(Events)]
  /\ delivered \in [Listeners -> Seq(Events)]
  /\ expired \in [Listeners -> BOOLEAN]
  /\ closing \in [Listeners -> BOOLEAN]
  /\ snapshot \in [Listeners -> SUBSET Events]
  /\ offset \in [Listeners -> [Kinds -> Nat]]
  /\ complete \in [Listeners -> SUBSET Kinds]

\* What a registered listener was handed and has queued is what it asked for, of all that
\* was emitted since its first next(), in that order and each event once; however it is
\* scheduled against the appenders, and whichever of the event's ids it asked for.
Heard(l) == delivered[l] \o queue[l]
HeardInOrder ==
  \A l \in registered :
    /\ \A i, j \in 1..Len(Heard(l)) : i < j => emittedAt[Heard(l)[i]] < emittedAt[Heard(l)[j]]
    /\ {Heard(l)[i] : i \in 1..Len(Heard(l))} =
         {e \in Events : emittedAt[e] > since[l] /\ Wants(l, e)}

\* A client that has subscribed and then reads the stored rows to the end misses none that
\* its topic covers: each is in a page, or was handed out or queued, or is about to be
\* published, although rows are appended and published between any two of its reads.
NothingMissed ==
  \A l \in registered : \A k \in complete[l], x \in ResolvedExecution(l) :
    \A i \in 1..Len(rows[k][x]) :
      LET e == rows[k][x][i]
      IN  Wants(l, e) =>
            \/ e \in snapshot[l]
            \/ \E j \in 1..Len(Heard(l)) : Heard(l)[j] = e
            \/ appender[e] = "stored"

\* A closed listener takes its handler off the bus: with a timeout always, without one as
\* soon as an event comes. (Without both it does not: return() waits behind next().)
ClosedIsReleased ==
  \A l \in Listeners :
    closing[l] /\ (l \in Timed \/ queue[l] # <<>>) ~> l \notin registered
=================================================================================
