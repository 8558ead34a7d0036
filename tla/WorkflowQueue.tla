------------------------------ MODULE WorkflowQueue ------------------------------
(***************************************************************************)
(* The life of a queued workflow execution: the API call that creates the  *)
(* tracker row and enqueues a request, the worker that runs it and         *)
(* publishes events, the consumer that applies the events to the row, the  *)
(* readers that fail stalled rows, and the agent's stop operation.         *)
(*                                                                         *)
(* The row is one record of the executions table. Every database call of   *)
(* the code is an await, so a read and the write computed from it are two  *)
(* steps and the other processes run in between. Kafka is external: the    *)
(* event topic is one partition per user, hence a sequence per execution,  *)
(* read from a position, and re-read from the committed one after a        *)
(* restart of the consumer.                                                *)
(***************************************************************************)
EXTENDS Naturals, Sequences, FiniteSets

CONSTANTS
  Executions,   \* the executions
  Kind,         \* [Executions -> "designer" | "async" | "blocking"]: who enqueues it
  Faults,       \* what the environment may do, a subset of AllFaults
  MaxLogs,      \* bound: log events a run pushes
  MaxRestarts   \* bound: worker and consumer restarts over the whole behaviour

AllFaults ==
  { "store",      \* a database call is rejected
    "drive",      \* the organisation's workflow drive cannot be opened
    "enqueue",    \* the request producer rejects, having delivered or not
    "caller",     \* the API process dies
    "abort",      \* the webhook's client closes the connection
    "remote",     \* worker or event consumer live in another process
    "startup",    \* the worker fails before its "started" event
    "produce",    \* an event the worker publishes is lost
    "crash",      \* the worker dies and the request is not delivered again
    "rerun",      \* the request is delivered to a worker again
    "redelivery", \* the event consumer restarts from its committed offset
    "stall",      \* the execution outlives its timeout and grace period
    "stop",       \* the agent stops the execution
    "skiplog" }   \* GIGA_WORKFLOW_QUEUE_SKIP_LOG_APPEND is '1' where a consumer runs

ASSUME QueueAssumption ==
  /\ Kind \in [Executions -> {"designer", "async", "blocking"}]
  /\ Faults \subseteq AllFaults
  /\ MaxLogs \in Nat
  /\ MaxRestarts \in Nat

VARIABLES
  row,          \* the execution's database row
  call,         \* where the API call that enqueues the execution is
  merging,      \* the payload a blocking call read before it merges its answer
  run,          \* where the worker is with the request
  unsent,       \* log events whose publish is not awaited and still in flight
  topic,        \* the events of the execution, in partition order
  position,     \* events the consumer has gone past
  committed,    \* events whose offset is committed
  apply,        \* whether the consumer is between its read and its write
  applying,     \* the payload it read
  unpersisted,  \* log rows whose insert is not awaited and still in flight
  persisted,    \* log rows inserted
  emitted,      \* log events emitted to the sockets
  late,         \* the row's timing is beyond timeout and grace
  check,        \* where a reader is with failing the row as stalled
  restarts      \* restarts so far

callVars == <<call, merging>>
workerVars == <<run, unsent, topic>>
consumerVars == <<position, committed, apply, applying>>
logVars == <<unpersisted, persisted, emitted>>
readerVars == <<late, check>>
vars == <<row, callVars, workerVars, consumerVars, logVars, readerVars, restarts>>

Active == {"queued", "running"}
Outcomes == {"completed", "failed"}
Statuses == Active \cup Outcomes \cup {"absent", "cancelled"}

\* response_payload: the __workflowQueue timing metadata and whether the payload
\* carries the output of a run that completed.
Payloads ==
  [queuedAt : {"none", "call", "apply"}, startedAt : BOOLEAN, output : BOOLEAN]
NoPayload == [queuedAt |-> "none", startedAt |-> FALSE, output |-> FALSE]

\* createWorkflowQueueTimingPayload(queuedAt)
QueuedPayload == [queuedAt |-> "call", startedAt |-> FALSE, output |-> FALSE]

\* withWorkflowQueueExecutionStarted(payload, timestamp)
WithStarted(payload) == [payload EXCEPT !.startedAt = TRUE]

\* mergeWorkflowQueueTimingPayload(payload, currentPayload, fallbackQueuedAt)
MergeTiming(output, current, fallback) ==
  [ queuedAt |-> IF current.queuedAt = "none" THEN fallback ELSE current.queuedAt,
    startedAt |-> current.startedAt,
    output |-> output ]

Rows ==
  [status : Statuses, payload : Payloads, snapshot : {"prepared", "result"},
   errorMessage : BOOLEAN, completedAt : BOOLEAN]
AbsentRow ==
  [status |-> "absent", payload |-> NoPayload, snapshot |-> "prepared",
   errorMessage |-> FALSE, completedAt |-> FALSE]

CallStates ==
  {"idle", "tracked", "published", "unpublished", "returned", "errored", "waiting",
   "resolved", "merging", "answered"}
RunStates == {"none", "requested", "executing", "done", "lost"} \cup Outcomes
Events == {"started", "log"} \cup Outcomes

Init ==
  /\ row = [e \in Executions |-> AbsentRow]
  /\ call = [e \in Executions |-> "idle"]
  /\ merging = [e \in Executions |-> NoPayload]
  /\ run = [e \in Executions |-> "none"]
  /\ unsent = [e \in Executions |-> 0]
  /\ topic = [e \in Executions |-> <<>>]
  /\ position = [e \in Executions |-> 0]
  /\ committed = [e \in Executions |-> 0]
  /\ apply = [e \in Executions |-> "idle"]
  /\ applying = [e \in Executions |-> NoPayload]
  /\ unpersisted = [e \in Executions |-> 0]
  /\ persisted = [e \in Executions |-> 0]
  /\ emitted = [e \in Executions |-> 0]
  /\ late = [e \in Executions |-> FALSE]
  /\ check = [e \in Executions |-> "idle"]
  /\ restarts = 0

-------------------------------------------------------------------------------
(* The API call. *)

\* WorkflowExecutionEntity.createTracker: the row exists before the request does.
CreateTracker(e) ==
  /\ call[e] = "idle"
  /\ row' = [row EXCEPT ![e] =
               [AbsentRow EXCEPT !.status = "queued", !.payload = QueuedPayload]]
  /\ call' = [call EXCEPT ![e] = "tracked"]
  /\ UNCHANGED <<merging, workerVars, consumerVars, logVars, readerVars, restarts>>

\* The insert is rejected: nothing was persisted and nothing is enqueued.
CreateTrackerFails(e) ==
  /\ "store" \in Faults
  /\ call[e] = "idle"
  /\ call' = [call EXCEPT ![e] = "errored"]
  /\ UNCHANGED <<row, merging, workerVars, consumerVars, logVars, readerVars, restarts>>

\* A webhook opens the organisation's drive after the row exists and outside the
\* try block; the designer opens it before.
DriveFails(e) ==
  /\ "drive" \in Faults
  /\ Kind[e] # "designer"
  /\ call[e] = "tracked"
  /\ call' = [call EXCEPT ![e] = "errored"]
  /\ UNCHANGED <<row, merging, workerVars, consumerVars, logVars, readerVars, restarts>>

\* Executor.enqueue: the broker has the request, the producer's promise is pending.
Enqueue(e) ==
  /\ call[e] = "tracked"
  /\ call' = [call EXCEPT ![e] = "published"]
  /\ run' = [run EXCEPT ![e] = "requested"]
  /\ UNCHANGED <<row, merging, unsent, topic, consumerVars, logVars, readerVars, restarts>>

\* Mutant: the row is written as queued after the enqueue instead of before it.
QueuedAfterEnqueue(e) ==
  /\ call[e] = "published"
  /\ call' = [call EXCEPT ![e] = IF Kind[e] = "blocking" THEN "waiting" ELSE "returned"]
  /\ row' = [row EXCEPT ![e].status = "queued"]
  /\ UNCHANGED <<merging, workerVars, consumerVars, logVars, readerVars, restarts>>

\* The promise resolves. A blocking webhook registers its waiter only now.
EnqueueResolves(e) ==
  /\ call[e] = "published"
  /\ call' = [call EXCEPT ![e] = IF Kind[e] = "blocking" THEN "waiting" ELSE "returned"]
  /\ UNCHANGED <<row, merging, workerVars, consumerVars, logVars, readerVars, restarts>>

\* The promise is rejected: before the broker had the request, or after.
EnqueueRejects(e) ==
  /\ "enqueue" \in Faults
  /\ call[e] \in {"tracked", "published"}
  /\ call' = [call EXCEPT ![e] = "unpublished"]
  /\ UNCHANGED <<row, merging, workerVars, consumerVars, logVars, readerVars, restarts>>

\* The catch block: WorkflowExecutionEntity.finalize(status: 'failed'), then rethrow.
FinalizeUnpublished(e) ==
  /\ call[e] = "unpublished"
  /\ call' = [call EXCEPT ![e] = "errored"]
  /\ \/ row' = [row EXCEPT ![e].status = "failed",
                           ![e].payload = QueuedPayload,
                           ![e].completedAt = TRUE]
     \/ "store" \in Faults /\ UNCHANGED row
  /\ UNCHANGED <<merging, workerVars, consumerVars, logVars, readerVars, restarts>>

\* Mutant: only a completed event wakes the waiter.
ResolveCompletedOnly(e, outcome) ==
  \/ /\ call[e] = "waiting" /\ outcome = "completed"
     /\ call' = [call EXCEPT ![e] = "resolved"]
  \/ /\ call[e] # "waiting" \/ outcome = "failed" \/ "remote" \in Faults
     /\ UNCHANGED call

\* Executor.resolveWorkflowQueueCompletion: wakes the waiter if there is one in this
\* process. A failed event makes the waiting call throw.
ResolveCompletion(e, outcome) ==
  \/ /\ call[e] = "waiting"
     /\ call' = [call EXCEPT ![e] = IF outcome = "completed" THEN "resolved" ELSE "errored"]
  \/ /\ call[e] # "waiting" \/ "remote" \in Faults
     /\ UNCHANGED call

\* createAbortSignal: the waiter is removed and the call throws.
ClientAborts(e) ==
  /\ "abort" \in Faults
  /\ call[e] = "waiting"
  /\ call' = [call EXCEPT ![e] = "errored"]
  /\ UNCHANGED <<row, merging, workerVars, consumerVars, logVars, readerVars, restarts>>

\* readResponsePayloadRowById after the completed event arrived.
ReadBeforeAnswer(e) ==
  /\ call[e] = "resolved"
  /\ \/ /\ call' = [call EXCEPT ![e] = "merging"]
        /\ merging' = [merging EXCEPT ![e] = row[e].payload]
     \/ /\ "store" \in Faults
        /\ call' = [call EXCEPT ![e] = "errored"]
        /\ UNCHANGED merging
  /\ UNCHANGED <<row, workerVars, consumerVars, logVars, readerVars, restarts>>

\* Mutant: the payload that was read is written back with the answer's timing only.
WriteBackStored(e) ==
  /\ call[e] = "merging"
  /\ call' = [call EXCEPT ![e] = "answered"]
  /\ row' = [row EXCEPT ![e].payload = merging[e], ![e].snapshot = "result"]
  /\ UNCHANGED <<merging, workerVars, consumerVars, logVars, readerVars, restarts>>

\* updateRecord with the merged payload and the result's snapshot, then the response.
WriteAnswer(e) ==
  /\ call[e] = "merging"
  /\ \/ /\ call' = [call EXCEPT ![e] = "answered"]
        /\ row' = [row EXCEPT ![e].payload = MergeTiming(TRUE, merging[e], "call"),
                              ![e].snapshot = "result"]
     \/ /\ "store" \in Faults
        /\ call' = [call EXCEPT ![e] = "errored"]
        /\ UNCHANGED row
  /\ UNCHANGED <<merging, workerVars, consumerVars, logVars, readerVars, restarts>>

CallerDies(e) ==
  /\ "caller" \in Faults
  /\ call[e] \in {"tracked", "published", "unpublished", "waiting", "resolved", "merging"}
  /\ call' = [call EXCEPT ![e] = "errored"]
  /\ UNCHANGED <<row, merging, workerVars, consumerVars, logVars, readerVars, restarts>>

-------------------------------------------------------------------------------
(* The worker. Its run state "completed" or "failed" means that the run is over *)
(* and its terminal event is not published yet.                                 *)

Publish(e, event) == topic' = [topic EXCEPT ![e] = Append(@, event)]

\* safePublishEvent(started) is awaited before the workflow is executed; a rejected
\* publish is noted and the run goes on.
StartRun(e) ==
  /\ run[e] = "requested"
  /\ run' = [run EXCEPT ![e] = "executing"]
  /\ \/ Publish(e, "started")
     \/ "produce" \in Faults /\ UNCHANGED topic
  /\ UNCHANGED <<row, callVars, unsent, consumerVars, logVars, readerVars, restarts>>

LogsOf(e) == Cardinality({i \in 1..Len(topic[e]) : topic[e][i] = "log"})

\* logger.push publishes and does not wait.
PushLog(e) ==
  /\ run[e] = "executing"
  /\ LogsOf(e) + unsent[e] < MaxLogs
  /\ unsent' = [unsent EXCEPT ![e] = @ + 1]
  /\ UNCHANGED <<row, callVars, run, topic, consumerVars, logVars, readerVars, restarts>>

\* A pushed log event reaches the topic, possibly behind the terminal event.
LogPublished(e) ==
  /\ unsent[e] > 0
  /\ unsent' = [unsent EXCEPT ![e] = @ - 1]
  /\ \/ Publish(e, "log")
     \/ "produce" \in Faults /\ UNCHANGED topic
  /\ UNCHANGED <<row, callVars, run, consumerVars, logVars, readerVars, restarts>>

\* The run is over. publishEvent signals the local waiter before it publishes.
Finish(e, outcome) ==
  /\ run[e] = "executing"
  /\ run' = [run EXCEPT ![e] = outcome]
  /\ ResolveCompletion(e, outcome)
  /\ UNCHANGED <<row, merging, unsent, topic, consumerVars, logVars, readerVars, restarts>>

\* executeQueuedWorkflowRequest: the request context cannot be restored, so the
\* failed event is the only one.
StartupFails(e) ==
  /\ "startup" \in Faults
  /\ run[e] = "requested"
  /\ run' = [run EXCEPT ![e] = "failed"]
  /\ ResolveCompletion(e, "failed")
  /\ UNCHANGED <<row, merging, unsent, topic, consumerVars, logVars, readerVars, restarts>>

\* The terminal event is published; a rejected publish is swallowed.
PublishTerminal(e) ==
  /\ run[e] \in Outcomes
  /\ run' = [run EXCEPT ![e] = "done"]
  /\ \/ Publish(e, run[e])
     \/ "produce" \in Faults /\ UNCHANGED topic
  /\ UNCHANGED <<row, callVars, unsent, consumerVars, logVars, readerVars, restarts>>

\* The worker process dies with the run in memory.
WorkerCrashes(e) ==
  /\ "crash" \in Faults
  /\ run[e] \in {"requested", "executing"} \cup Outcomes
  /\ run' = [run EXCEPT ![e] = "lost"]
  /\ unsent' = [unsent EXCEPT ![e] = 0]
  /\ UNCHANGED <<row, callVars, topic, consumerVars, logVars, readerVars, restarts>>

\* The request's offset was not committed when its consumer restarted.
RequestRedelivered(e) ==
  /\ "rerun" \in Faults
  /\ restarts < MaxRestarts
  /\ run[e] \in {"executing", "done"} \cup Outcomes
  /\ run' = [run EXCEPT ![e] = "requested"]
  /\ unsent' = [unsent EXCEPT ![e] = 0]
  /\ restarts' = restarts + 1
  /\ UNCHANGED <<row, callVars, topic, consumerVars, logVars, readerVars>>

-------------------------------------------------------------------------------
(* The event consumer: one event at a time, in partition order. *)

HasEvent(e) == position[e] < Len(topic[e])
NextEvent(e) == topic[e][position[e] + 1]
\* Mutant: the handler goes past the event after the one it applied as well.
AdvanceTwice(e) == position' = [position EXCEPT ![e] = @ + 2]

\* The handler returns, or its error was handled: the consumer goes past the event.
Advance(e) == position' = [position EXCEPT ![e] = @ + 1]

\* Mutant: the handler does not go past the log event it applied.
ApplyLogAgain(e) ==
  /\ apply[e] = "idle"
  /\ HasEvent(e) /\ NextEvent(e) = "log"
  /\ emitted' = [emitted EXCEPT ![e] = @ + 1]
  /\ unpersisted' = [unpersisted EXCEPT ![e] = @ + 1]
  /\ UNCHANGED <<row, callVars, workerVars, consumerVars, persisted, readerVars, restarts>>

\* A log event: the insert is fired and not awaited, or skipped, and the sockets are told.
ApplyLog(e) ==
  /\ apply[e] = "idle"
  /\ HasEvent(e) /\ NextEvent(e) = "log"
  /\ Advance(e)
  /\ \/ unpersisted' = [unpersisted EXCEPT ![e] = @ + 1]
     \/ "skiplog" \in Faults /\ UNCHANGED unpersisted
  /\ emitted' = [emitted EXCEPT ![e] = @ + 1]
  /\ UNCHANGED <<row, callVars, workerVars, committed, apply, applying, persisted,
                 readerVars, restarts>>

\* The fired insert ends; a rejected one is only logged.
LogInsertEnds(e) ==
  /\ unpersisted[e] > 0
  /\ unpersisted' = [unpersisted EXCEPT ![e] = @ - 1]
  /\ \/ persisted' = [persisted EXCEPT ![e] = @ + 1]
     \/ "store" \in Faults /\ UNCHANGED persisted
  /\ UNCHANGED <<row, callVars, workerVars, consumerVars, emitted, readerVars, restarts>>

\* loadResponsePayload, for a started or a terminal event.
ReadForApply(e) ==
  /\ apply[e] = "idle"
  /\ HasEvent(e) /\ NextEvent(e) # "log"
  /\ apply' = [apply EXCEPT ![e] = "writing"]
  /\ applying' = [applying EXCEPT ![e] = row[e].payload]
  /\ UNCHANGED <<row, callVars, workerVars, position, committed, logVars, readerVars, restarts>>

\* The read is rejected: finalizeRecord goes on without a payload, and the started
\* event's handler throws, which drops the event.
ReadForApplyFails(e) ==
  /\ "store" \in Faults
  /\ apply[e] = "idle"
  /\ HasEvent(e) /\ NextEvent(e) # "log"
  /\ IF NextEvent(e) = "started"
       THEN Advance(e) /\ UNCHANGED <<apply, applying>>
       ELSE /\ apply' = [apply EXCEPT ![e] = "writing"]
            /\ applying' = [applying EXCEPT ![e] = NoPayload]
            /\ UNCHANGED position
  /\ UNCHANGED <<row, callVars, workerVars, committed, logVars, readerVars, restarts>>

\* transitionRecord: WorkflowExecutionEntity.transition writes status and payload
\* whatever the row's status is; the expectedStatuses it is given are not looked at.
\* The recorded start time is the event's, which may itself be old.
WriteStarted(e) ==
  /\ apply[e] = "writing"
  /\ NextEvent(e) = "started"
  /\ row' = [row EXCEPT ![e].status = "running",
                        ![e].payload = WithStarted(applying[e])]
  /\ apply' = [apply EXCEPT ![e] = "idle"]
  /\ Advance(e)
  /\ late' \in {late, [late EXCEPT ![e] = FALSE]}
  /\ UNCHANGED <<callVars, workerVars, committed, applying, logVars, check, restarts>>

\* Mutant: finalizeRecord only settles an execution whose started event was applied.
FinalizeRunningOnly(e) ==
  /\ apply[e] = "writing"
  /\ NextEvent(e) \in Outcomes
  /\ row' = IF row[e].status = "running"
              THEN [row EXCEPT ![e].status = NextEvent(e), ![e].completedAt = TRUE]
              ELSE row
  /\ ResolveCompletion(e, NextEvent(e))
  /\ apply' = [apply EXCEPT ![e] = "idle"]
  /\ Advance(e)
  /\ UNCHANGED <<merging, workerVars, committed, applying, logVars, readerVars, restarts>>

\* finalizeRecord, then resolveCompletion. The event's snapshot and logs are dropped,
\* and the error goes to error_payload, never to error_message.
WriteTerminal(e) ==
  /\ apply[e] = "writing"
  /\ NextEvent(e) \in Outcomes
  /\ row' = [row EXCEPT
               ![e].status = NextEvent(e),
               ![e].payload = MergeTiming(NextEvent(e) = "completed", applying[e], "apply"),
               ![e].completedAt = TRUE]
  /\ ResolveCompletion(e, NextEvent(e))
  /\ apply' = [apply EXCEPT ![e] = "idle"]
  /\ Advance(e)
  /\ UNCHANGED <<merging, workerVars, committed, applying, logVars, readerVars, restarts>>

\* The write is rejected: handleExecutionEventError logs, and the event is gone.
WriteFails(e) ==
  /\ "store" \in Faults
  /\ apply[e] = "writing"
  /\ apply' = [apply EXCEPT ![e] = "idle"]
  /\ Advance(e)
  /\ UNCHANGED <<row, callVars, workerVars, committed, applying, logVars, readerVars, restarts>>

\* The consumer's offset is committed now and then, not with every event.
CommitOffset(e) ==
  /\ committed[e] < position[e]
  /\ committed' = [committed EXCEPT ![e] = position[e]]
  /\ UNCHANGED <<row, callVars, workerVars, position, apply, applying, logVars,
                 readerVars, restarts>>

\* The consumer restarts: applied but uncommitted events come again, inserts in
\* flight are lost.
ConsumerRestarts(e) ==
  /\ "redelivery" \in Faults
  /\ restarts < MaxRestarts
  /\ position' = [position EXCEPT ![e] = committed[e]]
  /\ apply' = [apply EXCEPT ![e] = "idle"]
  /\ unpersisted' = [unpersisted EXCEPT ![e] = 0]
  /\ restarts' = restarts + 1
  /\ UNCHANGED <<row, callVars, workerVars, committed, applying, persisted, emitted, readerVars>>

-------------------------------------------------------------------------------
(* Readers of the history, and the agent. *)

\* isWorkflowQueueExecutionStalled becomes true of the row's timing.
TimeoutElapses(e) ==
  /\ "stall" \in Faults
  /\ row[e].status # "absent"
  /\ ~late[e]
  /\ late' = [late EXCEPT ![e] = TRUE]
  /\ UNCHANGED <<row, callVars, workerVars, consumerVars, logVars, check, restarts>>

\* reconcileTrackedExecutionRows filters a list of rows that was read before.
ListStalled(e) ==
  /\ check[e] = "idle"
  /\ late[e]
  /\ row[e].status # "absent"
  /\ check' = [check EXCEPT ![e] = "listed"]
  /\ UNCHANGED <<row, callVars, workerVars, consumerVars, logVars, late, restarts>>

\* Mutant: 'queued' is missing among the expected statuses.
CheckStalledRunning(e) ==
  /\ check[e] = "listed"
  /\ check' = [check EXCEPT ![e] = IF row[e].status = "running" THEN "active" ELSE "idle"]
  /\ UNCHANGED <<row, callVars, workerVars, consumerVars, logVars, late, restarts>>

\* updateById reads the row and compares its status with expectedStatuses ...
CheckStalled(e) ==
  /\ check[e] = "listed"
  /\ check' = [check EXCEPT ![e] = IF row[e].status \in Active THEN "active" ELSE "idle"]
  /\ UNCHANGED <<row, callVars, workerVars, consumerVars, logVars, late, restarts>>

\* ... and writes the patch after another round trip.
WriteStalled(e) ==
  /\ check[e] = "active"
  /\ check' = [check EXCEPT ![e] = "idle"]
  /\ \/ row' = [row EXCEPT ![e].status = "failed",
                           ![e].errorMessage = TRUE,
                           ![e].completedAt = TRUE]
     \/ "store" \in Faults /\ UNCHANGED row
  /\ UNCHANGED <<callVars, workerVars, consumerVars, logVars, late, restarts>>

\* stopWorkflowExecution: the row is marked, whatever its status; the worker is not told.
StopWorkflowExecution(e) ==
  /\ "stop" \in Faults
  /\ row[e].status # "absent"
  /\ row' = [row EXCEPT ![e].status = "cancelled"]
  /\ UNCHANGED <<callVars, workerVars, consumerVars, logVars, readerVars, restarts>>

-------------------------------------------------------------------------------

Caller(e) ==
  \/ CreateTracker(e) \/ CreateTrackerFails(e) \/ DriveFails(e)
  \/ Enqueue(e) \/ EnqueueResolves(e) \/ EnqueueRejects(e) \/ FinalizeUnpublished(e)
  \/ ClientAborts(e) \/ ReadBeforeAnswer(e) \/ WriteAnswer(e) \/ CallerDies(e)

Worker(e) ==
  \/ StartRun(e) \/ PushLog(e) \/ LogPublished(e)
  \/ \E outcome \in Outcomes : Finish(e, outcome)
  \/ StartupFails(e) \/ PublishTerminal(e) \/ WorkerCrashes(e) \/ RequestRedelivered(e)

Consumer(e) ==
  \/ ApplyLog(e) \/ LogInsertEnds(e)
  \/ ReadForApply(e) \/ ReadForApplyFails(e)
  \/ WriteStarted(e) \/ WriteTerminal(e) \/ WriteFails(e)
  \/ CommitOffset(e) \/ ConsumerRestarts(e)

Reader(e) ==
  \/ TimeoutElapses(e) \/ ListStalled(e) \/ CheckStalled(e) \/ WriteStalled(e)

Next ==
  \E e \in Executions :
    Caller(e) \/ Worker(e) \/ Consumer(e) \/ Reader(e) \/ StopWorkflowExecution(e)

Spec == Init /\ [][Next]_vars

\* The parts of the system that go on by themselves: an API call that is not waiting
\* for anyone, a worker (an execution is bounded by maxExecutionSeconds), and the
\* event consumer. Clients, readers and faults need not act.
CallProceeds(e) ==
  CreateTracker(e) \/ Enqueue(e) \/ EnqueueResolves(e) \/ FinalizeUnpublished(e)
    \/ ReadBeforeAnswer(e) \/ WriteAnswer(e)
RunProceeds(e) ==
  StartRun(e) \/ (\E outcome \in Outcomes : Finish(e, outcome)) \/ PublishTerminal(e)
EventsProceed(e) ==
  ApplyLog(e) \/ ReadForApply(e) \/ WriteStarted(e) \/ WriteTerminal(e)

FairSpec ==
  /\ Spec
  /\ \A e \in Executions :
       /\ WF_vars(CallProceeds(e))
       /\ WF_vars(RunProceeds(e))
       /\ WF_vars(EventsProceed(e))

\* Somebody keeps looking at the history: that, and not the queue, is what fails the
\* executions that nobody will finish. Time passes, so the timeout elapses, and the
\* database does not reject the patch for ever.
PolledSpec ==
  /\ Spec
  /\ \A e \in Executions :
       /\ WF_vars(Reader(e))
       /\ SF_vars(WriteStalled(e) /\ row'[e].status = "failed")

-------------------------------------------------------------------------------
(* Properties. *)

\* The type invariant, with the order of the two offsets.
TypeOK ==
  /\ row \in [Executions -> Rows]
  /\ call \in [Executions -> CallStates]
  /\ merging \in [Executions -> Payloads]
  /\ run \in [Executions -> RunStates]
  /\ unsent \in [Executions -> Nat]
  /\ topic \in [Executions -> Seq(Events)]
  /\ position \in [Executions -> Nat]
  /\ committed \in [Executions -> Nat]
  /\ \A e \in Executions : committed[e] <= position[e] /\ position[e] <= Len(topic[e])
  /\ apply \in [Executions -> {"idle", "writing"}]
  /\ applying \in [Executions -> Payloads]
  /\ unpersisted \in [Executions -> Nat]
  /\ persisted \in [Executions -> Nat]
  /\ emitted \in [Executions -> Nat]
  /\ late \in [Executions -> BOOLEAN]
  /\ check \in [Executions -> {"idle", "listed", "active"}]
  /\ restarts \in Nat

\* loadWorkflowWebhookExecutionStatus: what a client that polls is told. A cancelled execution
\* has no response; a failure without a message has a generic one.
NoResponse == [status |-> "none", output |-> FALSE, error |-> "none"]
StatusResponse(e) ==
  IF row[e].status \notin Active \cup Outcomes THEN NoResponse
  ELSE [ status |-> row[e].status,
         output |-> row[e].status = "completed" /\ row[e].payload.output,
         error |-> IF row[e].status # "failed" THEN "none"
                   ELSE IF row[e].errorMessage THEN "stored" ELSE "generic" ]

\* A client that is told that its execution completed is given the output of a run that did
\* complete, whatever the webhook, the consumer, a second run, a stall check and the agent
\* wrote around it: finalizeRecord, transitionRecord and the webhook's answer each write
\* back a payload they read earlier.
CompletedHasResult ==
  \A e \in Executions :
    StatusResponse(e).status = "completed" =>
      StatusResponse(e).output /\ \E i \in 1..Len(topic[e]) : topic[e][i] = "completed"

\* A log row exists only for a log event that was also emitted, and an event is emitted
\* again only if the consumer restarted.
LogsOncePerRestart ==
  \A e \in Executions :
    /\ unpersisted[e] + persisted[e] <= emitted[e]
    /\ emitted[e] <= LogsOf(e) * (restarts + 1)

\* A blocking webhook that is waiting before its run ends is woken by the run in its own
\* process, even if every event of the run is lost (publishEvent signals first).
WaiterIsWoken ==
  \A e \in Executions :
    (call[e] = "waiting" /\ run[e] \in {"requested", "executing"})
      ~> (call[e] # "waiting" \/ run[e] = "lost")

\* While someone looks at the history, every execution leaves 'queued' and 'running' for
\* good: after a dead caller, a drive that cannot be opened, a crashed worker, lost or
\* repeated events, a started event that was applied late.
EventuallySettled ==
  \A e \in Executions :
    row[e].status \in Active ~> [](row[e].status \notin Active)

\* apply-queue-event.test.ts expects the transition to 'running' to be conditional on the
\* statuses 'queued' and 'running'; transitionRecord drops the condition.
TransitionsOnlyFromActive ==
  [][\A e \in Executions :
       row'[e].status = "running" => row[e].status \in Active]_vars

\* A blocking webhook 'still returns the final workflow output after queue execution
\* completes' (workflow-webhook-live.integration.test.ts).
BlockingCallEnds ==
  \A e \in Executions : call[e] = "waiting" ~> call[e] # "waiting"

\* The status response of a failed execution tells its error
\* (webhook-execution-status.test.ts); the only place it looks is error_message.
FailedStatusTellsError ==
  \A e \in Executions : StatusResponse(e).status = "failed" => StatusResponse(e).error = "stored"
=================================================================================
