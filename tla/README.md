# Workflow driver: TLA+ models, checks and proofs

This directory specifies the concurrent and stateful parts of
`@connectingmatrix/workflow-driver`. Paths are relative to the repository root;
`P/` stands for `src/backend/modules/workflows/services/workflow/` and `E/` for
`src/entity/entities/runtime/`.

Contents: 1 the system, 2 the plan, 3 the execution queue, 4 versions and publishing,
5 live events, 6 the tracker, 7 the in-memory package API, 8 assignments, 9 requests on
workflows, 10 runs and bounds, 11 what is proved, 12 what is not modelled, 13 running it.

## 1. The system

A host application (GraphQL, REST, socket servers) calls the services of this package.
They keep their state in database rows reached through an ORM, one `await` per call and
no transactions, and hand executions to a message queue. The broker, the worker's
executor and the registry of waiters are the library `@workflow/executor`, which is not in
this repository: it is modelled from how the code uses it and marked external.

| Part | Code | State | Operations |
|---|---|---|---|
| Execution queue | `P/queue/**`, `P/runtime/setupWorkflowExecutor.ts`, `E/WorkflowExecutionEntity.ts` | one row per execution; waiters, offsets and runs in `@workflow/executor` | enqueue from the designer or from a webhook, run, publish events, apply events, wait for the outcome |
| Stalled executions | `P/read/history.ts` 111-170 | the same row | every read of the history fails the active rows that outlived their timeout |
| Stop | `P/agent/runtime/workflow-operation.ts` 134-146 | the same row | mark the row `cancelled` |
| Tracker and history | `P/read/history.ts` 410-880 | the row's logs, snapshot and payload | record an event, finalize, list, get |
| Versions | `E/WorkflowVersionEntity.ts`, `P/read/history.ts` 276-407 | version rows, one of them current | publish, list, delete |
| Assignments | `E/WorkflowAssignmentEntity.ts`, `P/integration/resolver-system.ts` | one row per slot (a scope of a user or an organization), by intention | create, update, delete, attach |
| In-memory package API | `src/index.ts`, `src/entity/repository.ts`, `src/contracts.ts` | maps of workflows, versions, executions, AI sessions, debug events | create, update, delete, validate, execute, abort, publish, build and debug with AI, import a node package |
| Live events | `P/agent/telemetry/workflow-log-events.ts` | an event bus, a queue per listener | append and publish, listen with a timeout |
| Workflow rows | `E/WorkflowEntity.ts` | one row per workflow: a draft, the definition published last, its owners | queries by id, owner and name; writes of a draft or a publication |
| Workflow node | `P/runtime/credential-host-context.ts` | the rows above | create, save, get, publish, delete, attach; by id or by name |
| Execution references | `P/contracts/execution-reference.ts` | none | list what a user may execute, resolve, check and execute |
| Credential binding | `P/runtime/bindWorkflowCredentials.ts` | a cache of promises for each publication | find a credential for each node |
| Agent operations | `P/agent/runtime/*` | none of their own | create, update, publish, execute, delete, attach, stop; launch a swarm; batches of entity operations |
| Runtime preparation | `P/runtime/*` | none | load a workflow, build the runtime workflow, validate the graph |
| Surfaces | GraphQL contracts, client loaders, sockets, agent compiler | none | delegation and prompt text |

How they interact:

- An API call creates the execution row, then enqueues a request. A worker executes it and
  publishes events. A consumer applies the events to the row and emits them to sockets. A
  *blocking* webhook call also waits for the outcome, which the worker or the consumer
  signals if it runs in the same process.
- Readers of the history, the agent's stop operation and the API call's own error path
  write the same row, and none of the writers holds a lock.
- Queueing an execution reads the workflow's newest version and stores its id in the
  execution row; deleting versions reads the execution rows to find the ones in use.
- Publishing writes the workflow's row first and its version afterwards.
- The workflow node, the node that executes by reference and agents find rows by owner and
  name in one call and read and write them by id in others, all on the same table.

What is hard, and which properties make each part correct:

| Part | Hard behaviour | Should hold |
|---|---|---|
| Execution queue | read-merge-write of the payload by three writers; redelivered and lost events; a waiter registered after the request was sent; crashes between any two steps | the outcome is written once and stays; a completed row has its output; events converge; a waiter is woken |
| Stalled executions | a conditional update that is a read and a write | nothing stays active for ever; no outcome is overwritten by a verdict |
| Tracker | writes that are not awaited | the last state of the logs is what is stored |
| Versions | numbers computed early, `is_current` cleared row by row, deletions decided early | one current version, unique numbers, nothing in use is deleted |
| Assignments | a read-then-insert upsert; updates that move rows; batches that fail half way | one row per slot; what was assigned last is assigned |
| In-memory API | an adapter that is awaited between two accesses of a map; events thrown by listeners | an abort is final; updates are not lost; the caller is told what the row says |
| Live events | a queue, a polling fallback and a timeout | no event is delivered twice or out of order |
| Requests on workflows | names resolved in one call and used in another; a draft read before credentials are awaited; batches that fail half way; confirmations item by item | what is published, executed, removed and answered is what the request was about |

## 2. The plan

| Order | Module | Models | Composes / implements | Status |
|---|---|---|---|---|
| 1 | `WorkflowQueue`, `WorkflowQueueProofs` | execution queue, stall reconciliation, stop | | done |
| 1 | `WorkflowQueuePromise`, `WorkflowQueuePromiseProofs` | the same with two history variables: whose promise the environment took back, whose row went astray | extends `WorkflowQueue`, implements `ExecutionLifecycle` | done |
| 2 | `WorkflowVersions`, `WorkflowVersionsProofs` | publishing, deletion, attribution | | done |
| 3 | `LiveEvents`, `LiveEventsProofs` | bus, generators, timeouts, paging of stored rows | a FIFO per listener, stated over history (`HeardInOrder`) | done |
| 4 | `ExecutionTracker`, `ExecutionTrackerProofs` | `createWorkflowExecutionTracker`: writes not awaited against `finalize`; lost updates of `appendWorkflowExecutionLog`; broadcasts | a log of which every stored state is a prefix (`TrackedLogsKept`) | done |
| 5 | `InMemoryWorkflows`, `InMemoryWorkflowsProofs` | the package API with its repositories, listeners and processes | no refinement of `ExecutionLifecycle`: aborts and listeners overwrite outcomes | done |
| 6 | `WorkflowAssignments`, `WorkflowAssignmentsProofs` | slot upserts in batches, moves, deletions, attachments | a map from slots to workflows, stated over history (`AssignmentTakesEffect`) | done |
| 7 | `WorkflowRows` | the rows of workflows, their queries and writes | | done |
| 8 | `WorkflowManagement` | the workflow node, execution by reference, credential binding | on `WorkflowRows` | done |
| 9 | `AgentOperations` | agents' operations, swarms and batches | on `WorkflowRows` | done |
| 10 | `WorkflowRequests`, `WorkflowRequestsProofs` | both at once | composes 8 and 9, interleaved at every await | done |

Abstract specifications: `ExecutionLifecycle` for the queue; the others state what a component
promises over history variables (what was assigned last, what a row has held since a request
arrived), because none of them is atomic.

Left: the validation of `validation.ts` and `publish-validation.ts` against reachability.

## 3. The execution queue

`WorkflowQueue` has one row per execution and five kinds of actors. Every database call is
an action of its own, so that a read and the write computed from it are two steps.

| Actor | Actions | Code |
|---|---|---|
| API call (`Caller`) | `CreateTracker`, `Enqueue`, `EnqueueResolves`, `EnqueueRejects`, `FinalizeUnpublished`, `DriveFails`, `ReadBeforeAnswer`, `WriteAnswer`, `ClientAborts`, `CallerDies` | `P/queue/write/queueDesignerWorkflowExecution.ts`, `queueWebhookWorkflowExecution.ts`, `executeQueuedWebhookWorkflow.ts` |
| Worker (`Worker`) | `StartRun`, `PushLog`, `LogPublished`, `Finish`, `PublishTerminal`, `StartupFails`, `WorkerCrashes`, `RequestRedelivered` | `executeQueuedWorkflowRequest.ts`; the rest is `@workflow/executor` (external) |
| Event consumer (`Consumer`) | `ReadForApply`, `WriteStarted`, `WriteTerminal`, `ApplyLog`, `LogInsertEnds`, `WriteFails`, `CommitOffset`, `ConsumerRestarts` | `applyWorkflowQueueEvent.ts`, `setupWorkflowQueue.ts`, `setupWorkflowExecutor.ts` |
| History readers (`Reader`) | `TimeoutElapses`, `ListStalled`, `CheckStalled`, `WriteStalled` | `P/read/history.ts` 111-157, `updateById` of the entity |
| Agent | `StopWorkflowExecution` | `P/agent/runtime/workflow-operation.ts` 134-146 |

Variables and what they stand for: `row` is the database row (status, payload, whose
snapshot, whether `error_message` and `completed_at` are set); `call` and `merging` are the
API call's program counter and the payload it read; `run`, `unsent` and `topic` are the
worker and the events in partition order; `position`, `committed`, `apply` and `applying`
are the consumer's offsets and what its handler read; `unpersisted`, `persisted` and
`emitted` count log rows and socket events; `late` and `check` are a reader's verdict.

A payload is reduced to what the properties tell apart: where its queueing time comes from,
whether it has a starting time, and whether it carries a completed run's output. `Kind`
tells the three callers apart: the designer, a webhook that answers at once (`async`), and
one that waits (`blocking`).

What the environment may do is the constant `Faults`, a subset of `AllFaults`: crashes, lost
events, rejected database calls and enqueues, redelivery, stops, verdicts of readers, a
consumer in another process, a consumer that keeps no logs (`skiplog`:
`GIGA_WORKFLOW_QUEUE_SKIP_LOG_APPEND` of `applyWorkflowQueueEvent.ts` 30).

### What the queue promises whatever the environment does

An execution does not settle exactly once in every environment: a stop, a stall verdict, an
enqueue that was rejected although the broker had the request, and a second delivery can each
write a second outcome. Instead of a property of calm environments only, `WorkflowQueuePromise`
records in two history variables, which no action reads, what the environment did:

- `disowned`: the executions whose promise of one outcome was taken back, by one of the steps of
  `TakesBack`: a status written on the side that is not a right verdict (`DecidesAside`,
  `RightVerdict`: `failed`, of an execution that nothing under way can still decide), a request
  that is run again although its row is settled or an outcome is published, a restart of the
  consumer that delivers a status event again to a settled row.
- `astray`: the executions of whose status the consumer did not have the last word: since its
  last write an event was dropped (`Drops`) or a status was written on the side.

The promises are then three, for every set of faults:

- `LifecycleSpec`: the queue implements `ExecutionLifecycle`. An execution is created active,
  settles at most once and stays settled, until it is disowned; no step disowns another
  execution. A stall verdict on an abandoned run, a failed enqueue that really failed, a
  crash before anything was published, a redelivery while the row is active do not disown.
- `DrainedRowAgrees`: past the last event that changes the status, the row of an execution
  that is not astray has the status of that event.
- `OnlyDisownedRunAgain`: the first disagreement below, a `started` event written over a row that is not
  active, happens to disowned executions only. (Proved, and not in a run.)

None of the exceptions is wider than it has to be: with any one clause of `TakesBack` left
out, TLC finds a behaviour of `queue_lifecycle` that violates `LifecycleSpec`, and with any
one of `astray`'s a behaviour that violates `DrainedRowAgrees`. Whoever changes the handlers, for
instance to pass `expectedStatuses` on, can narrow them and see what the change buys.

Assumed of the external parts: the events of one execution are in one partition and keep
their order; a publish may be lost; a run publishes its log events without waiting; a
terminal event signals a waiter of the same process before it is published; an offset is
committed behind the applied event; a restarted consumer reads from the committed offset
and a restarted worker consumer may deliver a request again.

What a client that polls is told is `StatusResponse` (`readWorkflowWebhookExecutionStatus.ts`),
a function of the row: its status, the output of a completed row and the error of a failed one.
`CompletedHasResult` and `FailedStatusTellsError` are about that answer and not about the row.

### Disagreements between the code and its tests

Each is the counterexample of a run that expects a violation.

1. `queue_expected_statuses`: `transitionRecord` (`applyWorkflowQueueEvent.ts:45`) receives
   `expectedStatuses` and drops them, so a redelivered `started` event sets a completed
   execution back to `running`. The test of the handler asserts that they are passed on.
2. `queue_lost_wakeup`: `executeQueuedWebhookWorkflow.ts:59` registers its waiter after the
   enqueue resolved. A run that is over before that wakes nobody, and the blocking call
   never answers, although the worker and the consumer are fair and nothing fails.
3. `queue_error_message`: `finalizeRecord` stores a failure in `error_payload`; the status
   response reads `error_message`.

## 4. Versions and publishing

`WorkflowVersions` models one workflow (rows of different workflows never meet). A version
is named by the publication that creates it.

| Actor | Actions | Code |
|---|---|---|
| Publication (`Publish`) | `UpdateRow`, `ReadLatest`, `ListCurrent`, `ClearNext` (once per row), `CreateVersion`, `PublicationFails` | `updateAiWorkflowsCollectionData` in `P/integration/resolver-system.ts`, `publishWorkflowRow` in `P/runtime/credential-host-context.ts`, `createOnPublish` of the entity |
| Deletion (`Delete`) | `ListVersions`, `ListReferences`, `DeleteNext` (once per row), `DeletionFails` | `deleteWorkflowVersions` in `P/read/history.ts`, `deleteByIds` |
| Execution (`Queue`) | `ResolveCurrent`, `Track` | `resolveCurrentId`, then `createTracker` |

`content` is the publication whose definition the workflow's row holds; `versions`,
`number` and `current` are the version rows; the other variables are the program counters
and local variables of the three kinds of calls. Permissions are abstracted: which of the
rows that are neither current nor in use a caller may delete is a free choice. The read of
the workflow rows between `ListReferences` and the deletion, and the second `findByIds` of
`deleteByIds`, decide nothing else and have no step.

Any publications may be under way together, from the write of the workflow's row to the
creation of the version's; `met` keeps, as history, which ones were. Publications that meet
may leave two current versions or one number twice: both read the same greatest number, and
each clears what the other has not created yet. Nothing in the code excludes that and no
document or test claims otherwise, so this is stated here and not as a finding. The three
properties say that nothing else goes wrong: two versions are current only if their
publications met (`AtMostOneCurrent`), and the same holds of equal numbers
(`NumbersUnique`), though publications stop half way, freed numbers are taken again and rows
are deleted in between; and a publication that met none and is the last one leaves the only
current and the only newest version (`PublishedIsNewest`), so it puts right whatever
those before it have left. Two facts need no such condition: deletion never removes a
current version (`CurrentIsKept`: a row once not current never becomes current again, so the
early look is as good as a late one), and a version that an execution row references stays
once no deletion has decided on it (`ReferencedIsKept`). An execution that looked its version
up before a deletion's check and stores its row after it may still be left with a reference
to a deleted version.

## 5. Live events

`LiveEvents` models the log and event stream of executions in one process.

| Actor | Actions | Code (`P/agent/telemetry/workflow-log-events.ts`) |
|---|---|---|
| Appender (`Appending`) | `StoreRow`, `PublishWorkflowLiveEvent` | `appendWorkflowLogAndPublish`, `appendWorkflowEventAndPublish`: the row is awaited, the event is emitted on all its topics |
| Generator (`Generator`) and its timer | `YieldEvent`, `EndExpired`, `EndClosed`, `TimerFires` | `listenWorkflowLiveEvents` |
| Client (`Client`) | `Listen`, `Resume`, `Close`, `FetchPage` | the subscription's next() and return(); `fetchWorkflowLogs`, `fetchWorkflowEvents` |

`rows` are the two tables by creation time; `appender`, `emitted` and `emittedAt` follow
the appending calls; `loop`, `registered`, `queue`, `delivered`, `expired` and `closing`
are a listener's generator; `snapshot`, `offset` and `complete` are what its client has read.
`since`, `delivered` and `emittedAt` are history. A wait of 250 ms is a step that may happen
at any time, since a generator that wakes to an empty queue only sleeps again.

Three things the code leaves to its callers show in the model:

- A generator registers at its **first next()**, not when the subscription is made, and
  `HeardInOrder` counts from there.
- A client misses nothing if it **subscribes first** and reads the stored rows afterwards
  (`NothingMissed`); `FetchPage` therefore needs a registered listener. `liveLogSnapshot`
  hands out the snapshot together with the subscription's text: a client that follows it
  reads first, and what is appended in between is in neither.
- An event reaches a topic only if its appender was told the id (`WithRun`,
  `WithWorkflow`): a listener by run misses the events appended without one, so the
  properties speak of what a listener's topic covers (`Wants`).

`return()` waits behind a pending `next()`. A closed listener with a timeout, or with an event
to hand out, leaves the bus (`ClosedIsReleased`); one with neither stays registered and polls
for ever.

## 6. The tracker

`ExecutionTracker` models what `P/read/history.ts` 600-880 offers to keep an execution's row.
Nothing in this repository calls it but its hosts may, from several places at once.

| Actor | Actions | Code |
|---|---|---|
| Tracker | `CreateTracker` (`NoCast` for `FastTracked`), `RecordEvent`, `WriteEvent`, `Finalize`, `WriteFinal` | `createWorkflowExecutionTracker` |
| Record calls | `BeginTransition`, `LookupExpected`, `WriteTransition`; `BeginSeeded`, `ReadSeed`, `WriteAppend`, `WriteFinalization` | `transitionWorkflowExecutionRecord`, `appendWorkflowExecutionLog`, `finalizeWorkflowExecutionRecord`, `updateById` |
| Broadcast, listing (`Viewers`) | `StartCast`, `ListRunningStatuses`; `ListActive`, `EmitCatalogStatus`, `CastFails` | `emitCatalogStatusForReference`, `listWorkflowRunningStatuses` |
| Queue, agent (`Asides`) | `WriteAside` | `WorkflowExecutionEntity.transition` and `finalize` as `applyWorkflowQueueEvent.ts` and the enqueueing calls use them; `stopWorkflowExecution`, whose `cancelled` counts as an outcome here |
| Store | `CallFails` | any rejected round trip |

`status` and `logs` are the row, `entries` the tracker's list, `at`, `length` and `seed` the
calls' program counters and what they carry, `cast`, `found` and `catalog` the broadcasts and
what the client saw last, by a broadcast or as the answer to its own listing; the rest is
history. `FastTracked` are the executions created where `CHAT_PARITY_FAST_WORKFLOW_TRACKER` is
`'1'`, of which the client is not told (line 810); `Latest` is the `latestStatus` that a
transition's caller may give, which is announced instead of the status it writes (line 674).
Assumed of the ORM: a row's update writes the columns of its patch and no others, and round
trips that are under way together may be served in any order. The look-up inside `updateById`
is a step only for transitions, where it decides something.

What the code promises and what it does not:

- However the writes of recorded events overtake each other, the row holds a prefix of what was
  recorded, and an outcome is not taken back by them. A conditional transition may still take it
  back: it looks the status up in one round trip and writes it in the next (`OutcomeStands`
  asks only that it had seen a status it expects). So may a finalization and a status that the
  queue or the agent writes, which look at nothing.
- `finalize` starts `Promise.allSettled` on the pending writes and does not await it. Only a
  `finalize` that found none pending is sure of its logs (`TrackedLogsKept`); with one pending,
  a shorter list may be stored last.
- Two calls that read the logs before they write them back lose one log if they meet, so
  `AppendsKept` leaves such executions out.
- Broadcasts are not awaited either, and some statuses are written without one: by the fast
  tracker, the queue and the agent. What the client shows may then be out of date, and when two
  broadcasts cross the older answer may be shown last. `CatalogAgrees` says that none of this
  lasts beyond the next broadcast or listing that begins alone: once that one has ended, and
  if no other began since, none failed and nothing was written silently (`stale` is false),
  the client agrees with the rows. Broadcasts and listings read the active rows alike, and say
  of a workflow without any the status that is announced, or that it is idle. A
  transition to an outcome whose caller announces an active status is believed (`claimed`): then
  the client shows what the caller said and no row does.

## 7. The in-memory package API

`InMemoryWorkflows` models the calls of `src/index.ts` on the repositories of
`src/entity/repository.ts`, which live in one single-threaded process: what runs between two
awaits is one action.

| Actor | Actions | Code (`src/index.ts`) |
|---|---|---|
| Synchronous calls | `Create`, `Save`, `DeleteWorkflow`, `VersionsDelete`, `VersionsPublish` | 54-62 |
| Execution | `Execute`, `Announced`, `AnnouncementFails`, `AdapterAnswers`, `AdapterFails`, `SuccessAnnounced`, `SuccessAnnouncementFails`, `ErrorAnnounced`, `AbortExecution` | `execute`, `abortExecution` |
| Import | `StartImport`, `FinishImport`, `Rejects` | `importNodePackageToWorkflow` |
| AI debug call | `StartDebug`, `AgentAnswers`, `FinishDebug`, `Rejects` | `debugWithAI`, around the agent's answer and the execution it may ask for |

`stored`, `definition`, `published` and `versions` are the repositories; `edit`, `seen` and
`read` are the calls' program counters and what they read before an await; `messages` is the
session's count; `at`, `row` and `process` are an `execute` call, its row and its process in
`PackageObservability`. `trimmed`, `replaced`, `stale` and `met` are history. A definition is
its set of nodes and the set of nodes its edges refer to, which is what `validate` looks at;
an imported node has the name of its import. A debug call's patch replaces the keys it has.

What the model shows:

- The caller, the row and the process tell one outcome (`CallerAgrees`), also when the
  workflow is deleted under way. The exception is in the code: the first announcement is
  awaited outside the `try`, so a listener that rejects it rejects the call and leaves the row
  and the process running. A listener that rejects the success turns it into an error.
- The answer of an adapter is written whatever the row's status, so **an abort is final only
  if the call is over** (`AbortStands`); an execution aborted while it runs ends as a success
  or as an error. Nothing documents the opposite, so this is stated and not a finding.
- `importNodePackageToWorkflow` and `debugWithAI` write what they read before an await.
  Imported nodes stay while no call meets another on the same workflow (`ImportsKept`).
- Version numbers are counts: they are 1, 2, ... while the list shows all versions and none
  was deleted (`VersionsAgree`). The list ends at 500 versions of all workflows together.
- Debug calls that do not meet count two messages each (`MessagesCounted`).

## 8. Assignments

`WorkflowAssignments` models who works on which slot: a scope of a user or of an organization.

| Actor | Actions | Code |
|---|---|---|
| Batch (`Creates`) | `StartCreate`, then per assignment `FindSlot` and `UpdateFound`, `Insert` or `InsertRefused` | `createAiWorkflowAssignmentsCollectionData`, `upsertWorkflowAssignmentSlot` in `P/integration/resolver-system.ts` |
| Update (`Updates`) | `StartUpdate`, then the same per selected row | `updateAiWorkflowAssignmentsCollectionData` |
| Attachment (`Attaches`) | `Attach`, `InsertAttached` | `attachWorkflowDefinition` in `P/runtime/credential-host-context.ts` |
| Deletion (`Deletes`) | `StartDelete`, `DeleteNext` (once per row) | `deleteAiWorkflowAssignmentsCollectionData`, `deleteByIds` of the entity |
| Store | `CallFails` | any rejected round trip or refused permission |

`stored`, `slotOf` and `workflowOf` are the table; `at`, `todo` and `found` the calls' program
counters and what they carry; `contested`, `last`, `torn` and `overtaken` are history. The
constraints of the table are those of `migrations/20260515_remove_workflow_scope_defaults.sql`,
and ids are unique; nothing makes slots unique. Each batch item that is not in order rejects the
call and leaves what was assigned before it. Of several rows in a slot any may be found, since
the time that orders them comes from the inputs.

What the model shows:

- The only way to two rows in a slot is that two calls are about to insert into it at a time
  (`OneRowPerSlot`); moves, deletions and attachments add none.
- A row that is deleted between being found and being updated is not assigned, and the call
  succeeds all the same; otherwise what a slot was given last is assigned
  (`AssignmentTakesEffect`).
- An update writes back the workflow it has listed at its start: it changes none
  (`UpdateKeepsWorkflow`) only if no other call came in between.
- An update that moves a row to a free slot inserts the id it has listed, which the table refuses
  while the row exists; if the row was deleted meanwhile, the insert brings it back in the
  other slot. A part of a slot cannot be cleared by an update.
- A slot without owner and scope is in order for a root user (the message of
  `normalizeAssignmentSlot` recommends such defaults), but the table refuses it.

## 9. Requests on workflows

`WorkflowRows` has the rows; `WorkflowManagement` and `AgentOperations` are what users'
requests and agents do with them; `WorkflowRequests` puts them together, one step of one of
them at a time. An action is what runs between two awaits.

| Actor | Actions | Code |
|---|---|---|
| Any request of the workflow node (`Requests`) | `Arrive`, `ReceiveRequest`, `FindByName`, `FindSimilar`, `LoadRow`, `SaveRow`, `InsertRow`, `DeleteRow` | `resolveWorkflowId`, `loadWorkflowRowByName`, `loadWorkflowRow`, `saveWorkflowDefinition`, `deleteWorkflowDefinition` in `P/runtime/credential-host-context.ts` |
| Its publications | `LookUp` (a scope of a service at a time), `PublishRow`, `CreateVersion` | `publishWorkflowRow`, `bindWorkflowCredentials` |
| Execution by reference | `Arrive`, `ReceiveReference`, `ListOwn`, `ListShared`, `LoadPublished`, `RunPublished` | `P/contracts/execution-reference.ts`; `loadPersistedWorkflowRecord`, `resolveExecutionWorkflow` in `P/runtime/webhook.ts` |
| Agent (`Agents`), one item at a time | `ReceiveOrder`, `RefuseItem`, `CreateItem`, `ExecuteCreated`, `UpdateItem`, `PublishItem`, `ExecuteItem`, `DeleteItem`, `ResolveChild`, `Link`, `Answer` | `P/agent/runtime/workflow-operation.ts`, `entity-operation.ts` |
| Store and others | `RequestFails`, `RejectItem`; `Deactivate` (external) | any rejected call or refused access; a credential taken out of use |

`stored` are the ids of active rows. What a row holds is the end of `held` and what it has
published the end of `published`: both are kept as histories, since the properties ask what
was there at some moment of a request. The owners of a row never change and are constants of
its id. `at`, `ask`, `target`, `used`, `listed`, `binding` and `scopeAt` are a request's
program counter and local variables, `agentAt`, `order`, `position` and `chosen` an agent's;
`began` is history. A definition is a model value, with the nodes that need a credential and
the organization its metadata name as constants; a name is a model value and being a part of
another name a relation. Creating the version is one step here and `WorkflowVersions` its
detail; executions that are started here are `WorkflowQueue`'s.

What is promised, and what the model shows is not:

- A publication publishes a draft that was the row's while the request was at work
  (`PublishedWasHeld`), and an execution by reference runs a definition that was the published
  one while it was at work (`RunsWhatWasPublished`). It need not be the last one: the credentials are
  awaited between the read of the draft and the write, and nothing compares.
- A request without an id acts on a row that bore a matching name since it arrived
  (`ActsOnNamed`), and is refused as ambiguous only if two did (`AmbiguityIsReal`), with one
  exception: rows that agents create for a user in an organization have both owners, are in
  both lists of options, and so match twice; they cannot be executed by name.
- A save that finds its row by a part of the name gives the row that part as its name.
- The nodes of one service share a promise and so a credential (`BoundAlike`); it may have been
  deactivated before it is written.
- A completed request has done what it answers (`AnswerIsTrue`): its content was written, its
  publication has a version, its row is gone. A failed one leaves what it wrote: a saved draft
  that was to be published, a published row without version. An agent's list of created
  workflows is exact whatever is refused or rejected; a swarm's cleanup goes through plain
  records that have no method to delete themselves and removes nothing.
- A row is removed only by a deletion that names it and, by an agent, only with a confirmation:
  an item of a batch that is not confirmed is passed over and the next carried out
  (`OnlyConfirmedDestroys`). Publications by agents bind no credentials.

## 10. Runs and bounds

| Run | Expect | Instance | Shows |
|---|---|---|---|
| `queue_lifecycle` | pass | `WorkflowQueuePromise`: one blocking execution, one restart, no log events, every fault in one process; fair | the queue implements `ExecutionLifecycle` but for disowned executions; a drained row that is not astray agrees with the last event; a waiter registered in time is woken |
| `queue_redelivery` | pass | one blocking execution, one log event, two restarts shared by reruns and consumer restarts, consumer possibly remote | types; a completed row has its output; a log event is emitted at most once per restart |
| `queue_settling` | pass | one async execution, all faults, one restart; readers poll | the row leaves `queued` and `running` for good |
| `queue_expected_statuses`, `queue_lost_wakeup`, `queue_error_message` | violation | one blocking execution, at most one redelivery | the three disagreements of section 3 |
| `execution_tracker` | pass | a tracked execution with two events and a finalize, whose round trips and broadcast may be rejected; a fast tracked one with a transition that fails it and announces `running`, an appended log, a finalization by record and a `running` written by the queue; a client's listing; two broadcasts at a time; the two events are symmetric | the properties of section 6 |
| `live_events` | pass | two executions of a workflow; two log rows of one, an event row of the other without run id; a listener by run with a timeout and one by workflow without; pages of one row; inserts may be rejected | the four properties of section 5 |
| `in_memory` | pass | two workflows, a save, an import, two debug calls of a session, one of which executes, an execution, a publication, a deletion; the list shows three versions; aborts at any time, one execution's listeners and adapter may reject | the properties of section 7 |
| `assignments` | pass | a batch of three assignments, the last one refused; an update of metadata, an update that moves a row, a deletion and an attachment, on three slots; the batch's round trips may be rejected | the properties of section 8 |
| `workflow_requests` | pass | two requests of eleven kinds by two users and an agent's order of seven kinds, on a row of the user's, one of an organization's and three to come; two definitions, one with two nodes of one service; two credentials, of which the user's may be deactivated; any call may be rejected | the properties of section 9 |
| `versions_publish` | pass | three publications that may meet, two deletions, one execution, any call may be rejected | the six properties of section 4 |

Why the bounds are enough. Executions share nothing but the bound on restarts (each has its
row, its call, its run and its part of the topic), so one execution has every interleaving
that matters; the proofs cover any number. Two restarts allow a rerun whose events are
themselves redelivered, and a restart in the middle of the replay of another. `queue_lifecycle`
needs no log event, since logs change no status, and its one restart is a rerun or a restart of
the consumer at any point; `queue_redelivery` has the log events. Three publications let a version be
older than the newest by two, let a freed number be taken again, and let two that met be
followed by one that did not; two deletions can want
the same row while the third publication runs. In `live_events` a page of one row puts an
append between any two reads, and three events put one before, between and after the
client's steps on both topics and in both tables; proofs cover any number. In
`execution_tracker` two events overtake each other and the finalize; `MaxCasts` lets two
broadcasts, or one and the client's listing, cross, which `stale` records, and a third begin
alone afterwards; both kinds of silent writes are on one execution, next to every kind of
broadcast. A rejected write of an event differs from one that is never served only in
that `finalize` does not find it pending, so only the finalize may be rejected in
the run; the proofs let any call be.
In `in_memory` the import and both debug calls are on one workflow, so that each may meet
each, and the second workflow's versions push the list to its limit; an execution is written
by its call and by aborts only, so one of each kind has every interleaving.
In `assignments` the batch and the attachment want the same slot, both updates and the deletion
the same row, so that an inserter meets an inserter and a writer meets a writer; a row whose
move follows its deletion comes back.
In `workflow_requests` two requests are enough for one to rename, save, publish or delete what
the other has found, and the agent can do so between them; the orders contain a batch whose
destructive items are confirmed and not confirmed, a swarm whose second member fails, and a row
with both owners. The user's credential may be deactivated at any time (`Retiring`), before,
between and after the look-ups of a publication, and everybody's is what is left then. The two
requests are interchangeable, which the run uses as a symmetry.

`CHECK_DEADLOCK FALSE` everywhere: every execution, publication, deletion and subscription
ends.

Fairness. `FairSpec` (`queue_lost_wakeup`) and `FairPromiseSpec` (`queue_lifecycle`) assume weak fairness of
what goes on by itself in a live process: an API call that waits for no one, a worker's run
(bounded by `maxExecutionSeconds`), and the consumer's loop. Clients, readers and faults
need not act, and a crashed worker is not revived. `PolledSpec` (`queue_settling`) assumes
nothing of callers, workers or the consumer: only that somebody reads the history again and
again, which is what runs the reconciliation, that time passes, and that the database does
not reject the verdict's write for ever (strong fairness, since rejections may alternate with
successes). `FairSpec` of `LiveEvents` assumes that the event loop runs each generator and
each timer; appenders and clients need not act.

Each checked property comes with a mutant, a definition next to the one it replaces in the
same module and named as such by its comment: a plausible mistake in that handler, under
which the property fails in the same run.

## 11. What is proved

The theorems of `WorkflowQueueProofs`, `WorkflowQueuePromiseProofs`, `WorkflowVersionsProofs`, `LiveEventsProofs`,
`ExecutionTrackerProofs`, `InMemoryWorkflowsProofs`, `WorkflowAssignmentsProofs` and
`WorkflowRequestsProofs` hold for every value of the constants that satisfies the modules'
assumptions (`QueueAssumption`, `VersionsAssumption`, `LiveAssumption`, `TrackerAssumption`,
`InMemoryAssumption`, `AssignmentsAssumption`, and for the requests `RowsAssumption`,
`ManagementAssumption`, `AgentAssumption`, `ActorsAssumption`).

| Theorem | States | Assumes besides |
|---|---|---|
| `TypeCorrect` (queue) | `TypeOK` | nothing |
| `CompletedResult` | `CompletedHasResult` | nothing: every fault |
| `LogsAreCounted` | `LogsOncePerRestart` | nothing: any faults and bounds |
| `OrderedInvariant` | `OrderedInv`: requests, events and verdicts come after what they are about | nothing: every fault |
| `SettlesOnce` | `LifecycleSpec`, the refinement of `ExecutionLifecycle` | nothing: every fault |
| `RedeliveryConverges` | `DrainedRowAgrees` | nothing: every fault |
| `OthersNeverRunAgain` | `OnlyDisownedRunAgain` | nothing: every fault |
| `NothingTakenBack` | no execution is ever disowned | no `enqueue`, `rerun`, `redelivery`, `stall`, `stop` |
| `NothingAstray` | no execution ever goes astray | no `store`, `enqueue`, `stall`, `stop` |
| `TypeCorrect` (versions) | `TypeOK` | nothing |
| `CurrentSurvives` | `CurrentIsKept` | nothing: any publications, any failures |
| `ReferenceSurvives` | `ReferencedIsKept` | nothing |
| `OneCurrentVersion`, `NumbersStayUnique` | `AtMostOneCurrent`, `NumbersUnique` | nothing: any publications under way together |
| `UndisturbedPublicationPrevails` | `PublishedIsNewest` | nothing |
| `SerialPublications` | stored numbers differ and at most one version is current | publications never met |
| `TypeCorrect` (live events) | `TypeOK` | nothing |
| `OrderIsKept` | `HeardInOrder` | nothing: any listeners, appenders, topics |
| `SubscribingFirstMissesNothing` | `NothingMissed` | nothing: any page size |
| `TypeCorrect` (tracker) | `TypeOK` | nothing |
| `PrefixIsStored` | `TrackedLogsKept` | nothing: any number of events, finalizes and rejections |
| `OutcomeIsKept` | `OutcomeStands` | nothing |
| `AppendsAreKept` | `AppendsKept` | nothing |
| `ClientAgrees` | `CatalogAgrees` | nothing: any viewers, broadcasts, fast trackers and silent writes |
| `TypeCorrect` (in memory) | `TypeOK` | nothing |
| `CallersAgree` | `CallerAgrees` | nothing: any listeners, adapters and aborts |
| `AbortIsFinal` | `AbortStands` | nothing |
| `VersionsStayInStep` | `VersionsAgree` | nothing: any limit of the list |
| `ImportsStay` | `ImportsKept` | nothing |
| `MessagesAreCounted` | `MessagesCounted` | nothing |
| `TypeCorrect` (assignments) | `TypeOK` | nothing |
| `SlotsStaySingle` | `OneRowPerSlot` | nothing: any calls, slots and rejections |
| `AssignmentsTakeEffect` | `AssignmentTakesEffect` | nothing |
| `UpdatesKeepWorkflows` | `UpdateKeepsWorkflow` | nothing |
| `TypeCorrect` (requests) | `TypeOK` | nothing |
| `PublishesWhatWasHeld` | `PublishedWasHeld` | nothing: any requests, orders and rejections |
| `ExecutesWhatWasPublished` | `RunsWhatWasPublished` | nothing |
| `NamesResolve` | `ActsOnNamed` | nothing |
| `AmbiguityFollows` | `AmbiguityIsReal` | nothing |
| `BindsAlike` | `BoundAlike` | nothing: any services, scopes and deactivations |
| `AnswersAreTrue` | `AnswerIsTrue` | nothing |
| `RemovalsAreConfirmed` | `OnlyConfirmedDestroys` | nothing |

The arguments:

- `QueueInv` strengthens the types by `EventPending`: between the consumer's read and its
  write, the event it read for is still the next one of the topic. Without it a write could
  be applied for an event that is not there. It holds because publishing only extends the
  topic (`PublishExtends`) and nobody but the consumer moves `position`.
- `CompletedHasResult` is inductive together with `QueueInv`: of the steps that write a row
  (`RowWritten`), the ones that leave it `completed` either write the output themselves
  or keep a payload that already had it.
- `OrderedInv` orders the stages of an execution: its row exists before there is a request, a
  run, an event or a verdict, and nobody runs what was not enqueued. It takes `StepTouchesOne`,
  that a step of one execution changes nothing of another, which all later proofs reuse.
- `OneOutcomeInv`, of every execution that is not disowned: nothing but logs follows a
  published outcome, none is published while a worker still has the request, and if the row is
  settled then `NothingToCome`: the call is past its enqueue, no
  worker has the request, and the consumer has only logs before it. So a write to a settled row is
  a step of `TakesBack`, and every other step maps to a step or a stutter of
  `ExecutionLifecycle`. A published outcome is not taken back by a crash, since the topic only
  grows; a restart that brings back only logs keeps `NothingToCome`.
- `OnlyDisownedRunAgain` follows: the consumer's write of `started` has its event before it
  (`EventPending`), which `NothingToCome` excludes for a settled row.
- `DrainedRowAgrees` is inductive with the types: a status event is the last one only if it
  was just appended, beyond `position`, or the consumer wrote its status and later events
  are logs; the consumer's other ways past an event that is due a write (`WriteIsDue`) are those
  of `Drops`. A restart moves `position` back, which only weakens the claim.
- `NothingTakenBack` and `NothingAstray` give the calm environments back: without the faults
  named there, the exceptions are empty, and the two promises hold of every execution for good.
  For the verdicts this needs that no reader and no call ever is about to write `failed`
  (`Unjudged`).
- `CountInv` bounds what was emitted by the log events the consumer is past (`Past`) plus all of
  them once per restart: applying a log moves both sides by one, a restart gives up what it was
  past, which is at most all, and no other step lowers the bound (`BoundsRise`).
- `KeepInv` (versions): a version is stored, or wanted by a deletion, only when its publication
  is over, and what a deletion wants is not current. `CurrentIsKept` needs the last part and
  `ReferencedIsKept` only the deletion's own steps.
- `OverlapInv` adds that publications under way together have met (`Together`), that what the
  workflow's row holds was written by the one under way or by one that met it (`Writing`), that a
  number is ahead of all stored ones and all that is current is on the list to clear, but for
  what publications it met have stored (`Ahead`, `Clearing`). The row that is created is then
  alone but for those, and whoever clears a row while the workflow's row holds what a completed
  publication wrote has met that one. No publication is assumed to wait for another.
- `StreamInv` (live events): events are numbered by emission and a listener's start lies within
  that numbering (`Numbering`), a generator that was never started has nothing (`Fresh`), and a
  client that is still reading a table has all rows before its offset (`ReadSoFar`). What is
  handed out and queued is one sequence (`Heard`): publishing extends it (`HeardGrows`),
  handing out leaves it alone (`HeardKept`). `ReadSoFar` says nothing of tables read to the
  end, whose offset may lie beyond their rows; for these `NothingMissed` takes over.
- `TrackerInv`: no call writes more entries than there are (`LengthsHold`), and after a finalize
  that found no write pending every write under way has at least its entries
  (`LaterHaveMore`), since a call begun later has a longer list. So no later write can
  truncate what that finalize stored. `SeenExpected` carries what a transition saw to its write.
- `AppendsInv`: of an untracked execution on which no two calls that read the logs first have
  met, one such call is in flight at most (`OneSeeded`) and what it has read is what is stored
  (`SeedIsStored`), so its write keeps everything that was appended before.
- `CastInv`: while nothing is stale, one broadcast or listing is under way at most, no row is
  written until it ends, and the status it has computed is one that the rows bear out
  (`BorneOut`) or that it claims itself; when it ends the client shows that status. Writing a row
  either starts the next one, which finds nothing under way or makes the client's status
  stale, or is silent and makes it stale.
- `ExecutionInv` (in memory) adds to what callers are told what the row is while the call is
  under way (`RowFollows`), and that a debug call without an answer has not executed
  (`NotYetExecuting`): without it a second start could overwrite a settled row. A step leaves
  all executions alone, starts an idle one or advances one (`StepCases`).
- `ImportInv` (in memory): what a waiting call has read is what its workflow still is, unless
  another call wrote meanwhile (`SeenNow`), so the import that is finished, or the patch without
  nodes, writes at least the nodes that are there.
- `MessageInv`: of debug calls that never met, one is busy at most and has read the number of
  messages there is. The debug calls that are done are finitely many at any time, which lets
  them be counted although any number may come.
- `VersionInv`: a workflow that lost no version has all of them listed (`AllListed`), so the next
  number is their count plus one while the list shows them (`NextNumberCounts`).
- `SlotInv` (assignments): a call that is about to insert into a slot that is not contested is
  alone with it (`Alone`) and the slot is still empty (`SlotFree`): whoever else wants to
  insert makes it contested, and no update changes a row's slot. A step inserts nothing
  (`QuietStep`), sees an empty slot (`EmptySeen`) or inserts (`Inserted`). `RowInv` gives the
  lists of rows their types, which needs that only finitely many rows are stored and that
  every one has a workflow.
- `EffectInv`: a call about to update has found its row in the slot it is about, unless a row was
  deleted from there (`FoundInPlace`), so its write assigns what it was given last.
- `ReadInv`: what an update that sets nothing has read is what its slots hold while each has one
  row and nobody else has written it (`AgreesWithRows`), so it writes back what is there.
- `TypeInv` (requests) adds to the types what a step relies on: the operation fits the program
  counter (`StepFitsOperation`), a request about to publish or execute has a row and a
  definition, a stored row holds something (`StoredIsHeld`), an agent past its order's
  confirmation has it, and one that is linking a detached child had a confirmed item
  (`AgentInv`). `OnlyConfirmedDestroys` follows from it, with `GivenIsNamed`: the row an item is
  about is one that it or an earlier result names.
- Rows are histories that only grow (`RowsGrow`) and a request keeps what it is about
  (`RequestsKept`), so what was seen since it arrived stays seen (`SeenSince`), and what is there
  now has been seen since it arrived (`SeenNow`, from `BeganInv`). The properties of publications,
  executions and names are inductive with the same claim about what a request carries:
  the definition it is about to publish (`PublishInv`) or to execute (`ExecuteInv`), the rows it
  has listed (`NameInv`). A request changes by its own steps only (`OwnSteps`).
- `BindInv`: while a request binds, nodes of one service are without credential together or have
  the same (`Alike`), which a look-up keeps because it serves all of them or none.
- `AnswerInv` carries what was written to the answer: the content (`SavedInv`), the publication
  between the row's write and the version's (`VersionInv`), and for a deletion that the row has held
  something (`DeleteInv`), so that its id is not given to a new row.

Every safety invariant, every action property and the refinement of the passing runs are proved. Model-checked
only is liveness (`WaiterIsWoken`, `EventuallySettled`, `ClosedIsReleased`): the proof system
handles neither fairness nor ENABLED. It cannot instantiate induction theorems over data either,
which is why `LogsOf` counts positions of a topic and `DrainedRowAgrees` quantifies over them.

## 12. What is not modelled

- In the queue: node tests and agent node tests, which go through the same consumer to other
  handlers; the contents of logs, snapshots and requests; the emission of socket events
  beyond their number; retries inside `@workflow/executor`.
- In versions: `deleteManyForWorkflow`, which nothing here calls; listing; cache
  invalidation, which has no effect on rows.
- In live events: other processes, whose appends are stored and never emitted here; the queries
  behind the catalog and the list of running executions.
- In the tracker: the execution update that goes with each catalog status (it carries the row
  as written); payloads, snapshots and durations; the cache of queries;
  a broadcast or listing that reconciles what it lists (section 3 has the verdict, not what it
  makes clients show); the deletion of execution rows; clients of other channels; the lists of versions,
  executions and logs, one read each; `updateWorkflowExecutionRecord`, a write without a condition.
- In memory: tenancy (one context owns every record), `buildWithAI`, debug events, searches,
  slash commands and health; the log ring of `PackageObservability` and the flag `published` of a
  version, which is only ever set; monitors of processes (`processMonitoring`, `trackProcess`)
  that throw, which would end a call or an abort between its writes.
- In assignments: `metadata`, times and which permission a call lacks; the type of a scope is part of
  its name; `upsertScopedWorkflow`, which nothing calls.
- In the requests on workflows: callers with root access, global rows, organizations that are
  inactive, single permissions of members (membership stands for all of them); drive folders,
  ids in a definition's metadata, cypher, descriptions and times; the list operation, which only
  reads; the organizations' lists of options, which are read
  one after the other and here as one. The ORM's `publish`, `execute` and `delete` of a workflow are taken
  to be those of their names, each one call. Entities other than workflows have no part in it.
  `updateWorkflowExecutionRecord`, `deleteManyForWorkflow` and `upsertScopedWorkflow` are called
  by nobody.
- Validation and the preparation of a runtime workflow (`validation.ts`, `publish-validation.ts`,
  `service.ts`, `workflow-identity.ts`): functions of one definition, without state or await;
  what they refuse is a free choice here (`RefuseItem`, `RequestFails`).
- GraphQL and REST resolvers, client loaders, sockets: delegation and I/O without state.
- The agent's prompts and generated catalogs: text.

## 13. Running it

`tlc -config <run>.cfg MCWorkflowQueue.tla` (or the MC module of another
component) for a run, `tlapm WorkflowQueueProofs.tla` (or another `...Proofs`) for the proofs.
