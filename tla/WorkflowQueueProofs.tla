--------------------------- MODULE WorkflowQueueProofs ---------------------------
(***************************************************************************)
(* Proofs about WorkflowQueue, for every set of executions, every bound    *)
(* and every set of faults.                                                *)
(***************************************************************************)
EXTENDS WorkflowQueue, FiniteSetTheorems, TLAPS

\* Between the consumer's read and its write the event it read for is the next one of
\* the topic, and it is one whose handler writes the row.
EventPending ==
  \A e \in Executions :
    apply[e] = "writing" => HasEvent(e) /\ NextEvent(e) # "log"

QueueInv == TypeOK /\ EventPending

\* The sets of control states are enumerations: the provers may always see them.
USE DEF CallStates, RunStates, Outcomes

-------------------------------------------------------------------------------
(* Types of the helpers. *)

LEMMA MergeTimingType ==
  ASSUME NEW output \in BOOLEAN, NEW current \in Payloads,
         NEW fallback \in {"none", "call", "apply"}
  PROVE  MergeTiming(output, current, fallback) \in Payloads
  BY DEF MergeTiming, Payloads

LEMMA StartedPayloadType ==
  ASSUME NEW payload \in Payloads
  PROVE  WithStarted(payload) \in Payloads
  BY DEF WithStarted, Payloads

LEMMA ConstantPayloadType == QueuedPayload \in Payloads /\ NoPayload \in Payloads
  BY DEF QueuedPayload, NoPayload, Payloads

\* Every patch the code applies to a row leaves a row.
LEMMA PatchedRowType ==
  ASSUME NEW r \in Rows, NEW status \in Statuses, NEW payload \in Payloads
  PROVE  /\ [r EXCEPT !.status = status] \in Rows
         /\ [r EXCEPT !.status = status, !.payload = payload] \in Rows
         /\ [r EXCEPT !.status = status, !.payload = payload, !.completedAt = TRUE] \in Rows
         /\ [r EXCEPT !.payload = payload, !.snapshot = "result"] \in Rows
         /\ [r EXCEPT !.status = status, !.errorMessage = TRUE, !.completedAt = TRUE] \in Rows
  BY DEF Rows

LEMMA ResolveCompletionType ==
  ASSUME QueueInv, NEW e \in Executions, NEW outcome, ResolveCompletion(e, outcome)
  PROVE  call' \in [Executions -> CallStates]
  BY DEF QueueInv, TypeOK, ResolveCompletion

LEMMA AbsentRowType == AbsentRow \in Rows
  BY ConstantPayloadType DEF AbsentRow, Rows, Statuses

-------------------------------------------------------------------------------
(* Publishing only extends a topic. *)

TopicExtended ==
  /\ topic' \in [Executions -> Seq(Events)]
  /\ \A e \in Executions :
       /\ Len(topic[e]) <= Len(topic'[e])
       /\ \A i \in 1..Len(topic[e]) : topic'[e][i] = topic[e][i]

LEMMA PublishExtends ==
  ASSUME QueueInv, NEW e \in Executions, NEW event \in Events,
         Publish(e, event) \/ UNCHANGED topic
  PROVE  TopicExtended
<1>1. topic \in [Executions -> Seq(Events)]
  BY DEF QueueInv, TypeOK, Events
<1>2. CASE Publish(e, event)
  <2>1. /\ topic' \in [Executions -> Seq(Events)]
        /\ topic'[e] = Append(topic[e], event)
        /\ \A f \in Executions \ {e} : topic'[f] = topic[f]
    BY <1>1, <1>2 DEF Publish
  <2>2. /\ Len(topic'[e]) = Len(topic[e]) + 1
        /\ \A i \in 1..Len(topic[e]) : topic'[e][i] = topic[e][i]
    BY <1>1, <2>1
  <2> QED
    BY <1>1, <2>1, <2>2 DEF TopicExtended
<1>3. CASE UNCHANGED topic
  BY <1>1, <1>3 DEF TopicExtended
<1> QED
  BY <1>2, <1>3

LEMMA ExtendedTopicKeepsQueueInv ==
  ASSUME QueueInv, TopicExtended,
         run' \in [Executions -> RunStates],
         unsent' \in [Executions -> Nat],
         UNCHANGED <<row, callVars, consumerVars, logVars, readerVars, restarts>>
  PROVE  QueueInv'
<1>1. \A e \in Executions : committed'[e] <= position'[e] /\ position'[e] <= Len(topic'[e])
  BY DEF QueueInv, TypeOK, TopicExtended, consumerVars
<1>2. TypeOK'
  BY <1>1 DEF QueueInv, TypeOK, TopicExtended, Events, callVars, consumerVars, logVars, readerVars
<1>3. EventPending'
  <2> SUFFICES ASSUME NEW e \in Executions, apply[e] = "writing"
               PROVE  (HasEvent(e) /\ NextEvent(e) # "log")'
    BY DEF EventPending, consumerVars
  <2>1. /\ position[e] \in Nat /\ position[e] < Len(topic[e])
        /\ topic[e][position[e] + 1] # "log" /\ Len(topic[e]) \in Nat
    BY DEF QueueInv, TypeOK, EventPending, HasEvent, NextEvent
  <2>2. position[e] + 1 \in 1..Len(topic[e])
    BY <2>1
  <2> QED
    BY <2>1, <2>2, <1>2 DEF TopicExtended, HasEvent, NextEvent, consumerVars, TypeOK
<1> QED
  BY <1>2, <1>3 DEF QueueInv

-------------------------------------------------------------------------------
(* The type invariant, one lemma per process. *)

LEMMA InitQueueInv == Init => QueueInv
  BY AbsentRowType, ConstantPayloadType DEF Init, QueueInv, TypeOK, EventPending

LEMMA CallerKeepsQueueInv ==
  ASSUME QueueInv, NEW e \in Executions, Caller(e)
  PROVE  QueueInv'
<1>1. CASE CreateTracker(e)
  BY <1>1, ConstantPayloadType, AbsentRowType DEF QueueInv, TypeOK, EventPending, HasEvent, NextEvent,
     CreateTracker, callVars, workerVars, consumerVars, logVars, readerVars, Statuses, Active, Rows, AbsentRow
<1>2. CASE CreateTrackerFails(e)
  BY <1>2 DEF QueueInv, TypeOK, EventPending, HasEvent, NextEvent,
     CreateTrackerFails, callVars, workerVars, consumerVars, logVars, readerVars
<1>3. CASE DriveFails(e)
  BY <1>3 DEF QueueInv, TypeOK, EventPending, HasEvent, NextEvent,
     DriveFails, callVars, workerVars, consumerVars, logVars, readerVars
<1>4. CASE Enqueue(e)
  BY <1>4 DEF QueueInv, TypeOK, EventPending, HasEvent, NextEvent,
     Enqueue, callVars, workerVars, consumerVars, logVars, readerVars
<1>5. CASE EnqueueResolves(e)
  BY <1>5 DEF QueueInv, TypeOK, EventPending, HasEvent, NextEvent,
     EnqueueResolves, callVars, workerVars, consumerVars, logVars, readerVars
<1>6. CASE EnqueueRejects(e)
  BY <1>6 DEF QueueInv, TypeOK, EventPending, HasEvent, NextEvent,
     EnqueueRejects, callVars, workerVars, consumerVars, logVars, readerVars
<1>7. CASE FinalizeUnpublished(e)
  <2>1. row' \in [Executions -> Rows]
    <3>1. [row[e] EXCEPT !.status = "failed", !.payload = QueuedPayload,
                         !.completedAt = TRUE] \in Rows
      BY ConstantPayloadType, PatchedRowType DEF QueueInv, TypeOK, Statuses, Outcomes
    <3> QED
      BY <1>7, <3>1 DEF FinalizeUnpublished, QueueInv, TypeOK
  <2>2. /\ call' = [call EXCEPT ![e] = "errored"]
        /\ UNCHANGED <<merging, workerVars, consumerVars, logVars, readerVars, restarts>>
    BY <1>7 DEF FinalizeUnpublished
  <2> QED
    BY <2>1, <2>2 DEF QueueInv, TypeOK, EventPending, HasEvent, NextEvent,
       workerVars, consumerVars, logVars, readerVars
<1>8. CASE ClientAborts(e)
  BY <1>8 DEF QueueInv, TypeOK, EventPending, HasEvent, NextEvent,
     ClientAborts, callVars, workerVars, consumerVars, logVars, readerVars
<1>9. CASE ReadBeforeAnswer(e)
  <2>1. merging' \in [Executions -> Payloads]
    <3>1. row[e].payload \in Payloads /\ merging \in [Executions -> Payloads]
      BY DEF QueueInv, TypeOK, Rows
    <3> QED
      BY <1>9, <3>1 DEF ReadBeforeAnswer
  <2>2. /\ call' \in {[call EXCEPT ![e] = "merging"], [call EXCEPT ![e] = "errored"]}
        /\ UNCHANGED <<row, workerVars, consumerVars, logVars, readerVars, restarts>>
    BY <1>9 DEF ReadBeforeAnswer
  <2> QED
    BY <2>1, <2>2 DEF QueueInv, TypeOK, EventPending, HasEvent, NextEvent,
       workerVars, consumerVars, logVars, readerVars
<1>10. CASE WriteAnswer(e)
  <2>1. row' \in [Executions -> Rows]
    <3> DEFINE payload == MergeTiming(TRUE, merging[e], "call")
    <3>1. payload \in Payloads
      BY MergeTimingType DEF QueueInv, TypeOK
    <3>2. row' = [row EXCEPT ![e] = [row[e] EXCEPT !.payload = payload, !.snapshot = "result"]]
            \/ row' = row
      BY <1>10 DEF WriteAnswer
    <3> HIDE DEF payload
    <3>3. row[e] \in Rows /\ row[e].status \in Statuses
      BY DEF QueueInv, TypeOK, Rows
    <3>4. [row[e] EXCEPT !.payload = payload, !.snapshot = "result"] \in Rows
      BY <3>1, <3>3, PatchedRowType
    <3> QED
      BY <3>2, <3>4 DEF QueueInv, TypeOK
  <2>2. /\ call' \in {[call EXCEPT ![e] = "answered"], [call EXCEPT ![e] = "errored"]}
        /\ UNCHANGED <<merging, workerVars, consumerVars, logVars, readerVars, restarts>>
    BY <1>10 DEF WriteAnswer
  <2> QED
    BY <2>1, <2>2 DEF QueueInv, TypeOK, EventPending, HasEvent, NextEvent,
       workerVars, consumerVars, logVars, readerVars
<1>11. CASE CallerDies(e)
  BY <1>11 DEF QueueInv, TypeOK, EventPending, HasEvent, NextEvent,
     CallerDies, callVars, workerVars, consumerVars, logVars, readerVars
<1> QED
  BY <1>1, <1>2, <1>3, <1>4, <1>5, <1>6, <1>7, <1>8, <1>9, <1>10, <1>11 DEF Caller

LEMMA WorkerKeepsQueueInv ==
  ASSUME QueueInv, NEW e \in Executions, Worker(e)
  PROVE  QueueInv'
<1>1. CASE StartRun(e)
  <2>1. TopicExtended
    BY <1>1, PublishExtends DEF StartRun, Events
  <2>2. /\ run' \in [Executions -> RunStates]
        /\ unsent' \in [Executions -> Nat]
    BY <1>1 DEF StartRun, QueueInv, TypeOK
  <2>3. UNCHANGED <<row, callVars, consumerVars, logVars, readerVars, restarts>>
    BY <1>1 DEF StartRun
  <2> QED
    BY <2>1, <2>2, <2>3, ExtendedTopicKeepsQueueInv
<1>2. CASE PushLog(e)
  BY <1>2 DEF QueueInv, TypeOK, EventPending, HasEvent, NextEvent,
     PushLog, callVars, workerVars, consumerVars, logVars, readerVars
<1>3. CASE LogPublished(e)
  <2>1. TopicExtended
    BY <1>3, PublishExtends DEF LogPublished, Events
  <2>2. /\ run' \in [Executions -> RunStates]
        /\ unsent' \in [Executions -> Nat]
    BY <1>3 DEF LogPublished, QueueInv, TypeOK
  <2>3. UNCHANGED <<row, callVars, consumerVars, logVars, readerVars, restarts>>
    BY <1>3 DEF LogPublished
  <2> QED
    BY <2>1, <2>2, <2>3, ExtendedTopicKeepsQueueInv
<1>4. CASE \E outcome \in Outcomes : Finish(e, outcome)
  <2>1. \E outcome \in Outcomes : ResolveCompletion(e, outcome) /\ run' = [run EXCEPT ![e] = outcome]
    BY <1>4 DEF Finish
  <2>2. UNCHANGED <<row, merging, unsent, topic, consumerVars, logVars, readerVars, restarts>>
    BY <1>4 DEF Finish
  <2>3. call' \in [Executions -> CallStates]
    BY <2>1, ResolveCompletionType
  <2>4. run' \in [Executions -> RunStates]
    BY <2>1 DEF QueueInv, TypeOK
  <2>5. TypeOK'
    BY <2>2, <2>3, <2>4 DEF QueueInv, TypeOK, consumerVars, logVars, readerVars
  <2>6. EventPending'
    BY <2>2 DEF QueueInv, EventPending, HasEvent, NextEvent, consumerVars
  <2> QED
    BY <2>5, <2>6 DEF QueueInv
<1>5. CASE StartupFails(e)
  <2>1. \E outcome \in Outcomes : ResolveCompletion(e, outcome) /\ run' = [run EXCEPT ![e] = outcome]
    BY <1>5 DEF StartupFails
  <2>2. UNCHANGED <<row, merging, unsent, topic, consumerVars, logVars, readerVars, restarts>>
    BY <1>5 DEF StartupFails
  <2>3. call' \in [Executions -> CallStates]
    BY <2>1, ResolveCompletionType
  <2>4. run' \in [Executions -> RunStates]
    BY <2>1 DEF QueueInv, TypeOK
  <2>5. TypeOK'
    BY <2>2, <2>3, <2>4 DEF QueueInv, TypeOK, consumerVars, logVars, readerVars
  <2>6. EventPending'
    BY <2>2 DEF QueueInv, EventPending, HasEvent, NextEvent, consumerVars
  <2> QED
    BY <2>5, <2>6 DEF QueueInv
<1>6. CASE PublishTerminal(e)
  <2>1. TopicExtended
    BY <1>6, PublishExtends DEF PublishTerminal, Events, Outcomes
  <2>2. /\ run' \in [Executions -> RunStates]
        /\ unsent' \in [Executions -> Nat]
    BY <1>6 DEF PublishTerminal, QueueInv, TypeOK
  <2>3. UNCHANGED <<row, callVars, consumerVars, logVars, readerVars, restarts>>
    BY <1>6 DEF PublishTerminal
  <2> QED
    BY <2>1, <2>2, <2>3, ExtendedTopicKeepsQueueInv
<1>7. CASE WorkerCrashes(e)
  BY <1>7 DEF QueueInv, TypeOK, EventPending, HasEvent, NextEvent,
     WorkerCrashes, callVars, workerVars, consumerVars, logVars, readerVars
<1>8. CASE RequestRedelivered(e)
  BY <1>8 DEF QueueInv, TypeOK, EventPending, HasEvent, NextEvent,
     RequestRedelivered, callVars, workerVars, consumerVars, logVars, readerVars
<1> QED
  BY <1>1, <1>2, <1>3, <1>4, <1>5, <1>6, <1>7, <1>8 DEF Worker

\* Going past an event outside a handler's read and write.
LEMMA IdleAdvanceKeepsQueueInv ==
  ASSUME QueueInv, NEW e \in Executions, HasEvent(e), apply[e] = "idle",
         position' = [position EXCEPT ![e] = @ + 1],
         UNCHANGED <<row, callVars, workerVars, committed, apply, applying, readerVars, restarts>>,
         unpersisted' \in [Executions -> Nat] \/ UNCHANGED unpersisted,
         persisted' \in [Executions -> Nat] \/ UNCHANGED persisted,
         emitted' \in [Executions -> Nat] \/ UNCHANGED emitted
  PROVE  QueueInv'
<1>1. unpersisted' \in [Executions -> Nat] /\ persisted' \in [Executions -> Nat]
        /\ emitted' \in [Executions -> Nat]
  BY DEF QueueInv, TypeOK
<1>2. \A f \in Executions : committed'[f] <= position'[f] /\ position'[f] <= Len(topic'[f])
  BY DEF QueueInv, TypeOK, HasEvent, workerVars
<1>3. TypeOK'
  <2>1. position' \in [Executions -> Nat]
    BY DEF QueueInv, TypeOK
  <2> QED
    BY <1>1, <1>2, <2>1 DEF QueueInv, TypeOK, callVars, workerVars, readerVars
<1>4. EventPending'
  BY DEF QueueInv, TypeOK, EventPending, HasEvent, NextEvent, workerVars
<1> QED
  BY <1>3, <1>4 DEF QueueInv

LEMMA ConsumerKeepsQueueInv ==
  ASSUME QueueInv, NEW e \in Executions, Consumer(e)
  PROVE  QueueInv'
<1>1. CASE ApplyLog(e)
  <2>1. /\ unpersisted' \in [Executions -> Nat] /\ emitted' \in [Executions -> Nat]
        /\ UNCHANGED persisted
    <3>1. /\ unpersisted \in [Executions -> Nat] /\ emitted \in [Executions -> Nat]
      BY DEF QueueInv, TypeOK
    <3>2. /\ \/ unpersisted' = [unpersisted EXCEPT ![e] = @ + 1]
             \/ unpersisted' = unpersisted
          /\ emitted' = [emitted EXCEPT ![e] = @ + 1]
          /\ UNCHANGED persisted
      BY <1>1 DEF ApplyLog
    <3> QED
      BY <3>1, <3>2
  <2>2. /\ HasEvent(e) /\ apply[e] = "idle" /\ position' = [position EXCEPT ![e] = @ + 1]
        /\ UNCHANGED <<row, callVars, workerVars, committed, apply, applying, readerVars, restarts>>
    BY <1>1 DEF ApplyLog, Advance
  <2>3. persisted' \in [Executions -> Nat]
    BY <2>1 DEF QueueInv, TypeOK
  <2> QED
    BY <2>1, <2>2, <2>3, IdleAdvanceKeepsQueueInv
<1>2. CASE LogInsertEnds(e)
  <2>1. unpersisted' \in [Executions -> Nat] /\ persisted' \in [Executions -> Nat]
    <3>1. /\ unpersisted \in [Executions -> Nat] /\ persisted \in [Executions -> Nat]
          /\ unpersisted[e] > 0
      BY <1>2 DEF LogInsertEnds, QueueInv, TypeOK
    <3>2. /\ unpersisted' = [unpersisted EXCEPT ![e] = @ - 1]
          /\ persisted' = [persisted EXCEPT ![e] = @ + 1] \/ persisted' = persisted
      BY <1>2 DEF LogInsertEnds
    <3> QED
      BY <3>1, <3>2
  <2>2. UNCHANGED <<row, callVars, workerVars, consumerVars, emitted, readerVars, restarts>>
    BY <1>2 DEF LogInsertEnds
  <2> QED
    BY <2>1, <2>2 DEF QueueInv, TypeOK, EventPending, HasEvent, NextEvent,
       callVars, workerVars, consumerVars, readerVars
<1>3. CASE ReadForApply(e)
  BY <1>3 DEF QueueInv, TypeOK, EventPending, HasEvent, NextEvent,
     ReadForApply, callVars, workerVars, consumerVars, logVars, readerVars, Rows
<1>4. CASE ReadForApplyFails(e)
  <2>1. CASE NextEvent(e) = "started"
    <3>1. /\ HasEvent(e) /\ apply[e] = "idle" /\ position' = [position EXCEPT ![e] = @ + 1]
          /\ UNCHANGED <<row, callVars, workerVars, committed, apply, applying, logVars,
                         readerVars, restarts>>
      BY <1>4, <2>1 DEF ReadForApplyFails, Advance
    <3> QED
      BY <3>1, IdleAdvanceKeepsQueueInv DEF logVars
  <2>2. CASE NextEvent(e) # "started"
    <3>1. /\ apply' = [apply EXCEPT ![e] = "writing"] /\ HasEvent(e) /\ NextEvent(e) # "log"
          /\ applying' = [applying EXCEPT ![e] = NoPayload]
          /\ UNCHANGED <<row, callVars, workerVars, position, committed, logVars, readerVars,
                         restarts>>
      BY <1>4, <2>2 DEF ReadForApplyFails
    <3> QED
      BY <3>1, ConstantPayloadType DEF QueueInv, TypeOK, EventPending, HasEvent, NextEvent,
         callVars, workerVars, logVars, readerVars
  <2> QED
    BY <2>1, <2>2
<1>5. CASE WriteStarted(e)
  <2>1. HasEvent(e) /\ position[e] \in Nat
    BY <1>5 DEF WriteStarted, QueueInv, TypeOK, EventPending
  <2>2. row' \in [Executions -> Rows]
    <3> DEFINE payload == WithStarted(applying[e])
    <3>1. payload \in Payloads /\ "running" \in Statuses /\ row[e] \in Rows
      BY <1>5, StartedPayloadType
         DEF WriteStarted, QueueInv, TypeOK, Statuses, Active
    <3>2. row' = [row EXCEPT ![e] =
                    [row[e] EXCEPT !.status = "running", !.payload = payload]]
      BY <1>5 DEF WriteStarted
    <3> HIDE DEF payload
    <3>3. [row[e] EXCEPT !.status = "running", !.payload = payload] \in Rows
      BY <3>1, PatchedRowType
    <3> QED
      BY <3>2, <3>3 DEF QueueInv, TypeOK
  <2>3. call' \in [Executions -> CallStates]
    BY <1>5 DEF WriteStarted, callVars, QueueInv, TypeOK
  <2>4. /\ apply' = [apply EXCEPT ![e] = "idle"]
        /\ position' = [position EXCEPT ![e] = @ + 1]
        /\ late' \in {late, [late EXCEPT ![e] = FALSE]}
        /\ UNCHANGED <<merging, workerVars, committed, applying, logVars, check, restarts>>
    BY <1>5 DEF WriteStarted, Advance, callVars, readerVars
  <2>5. TypeOK'
    <3>1. \A f \in Executions : committed'[f] <= position'[f] /\ position'[f] <= Len(topic'[f])
      BY <2>1, <2>4 DEF HasEvent, QueueInv, TypeOK, workerVars
    <3>2. position' \in [Executions -> Nat]
      BY <2>4 DEF QueueInv, TypeOK
    <3>3. late' \in [Executions -> BOOLEAN] /\ apply' \in [Executions -> {"idle", "writing"}]
      BY <2>4 DEF QueueInv, TypeOK
    <3> QED
      BY <2>2, <2>3, <2>4, <3>1, <3>2, <3>3 DEF QueueInv, TypeOK, workerVars, logVars
  <2>6. EventPending'
    BY <2>1, <2>4 DEF QueueInv, TypeOK, EventPending, HasEvent, NextEvent, workerVars
  <2> QED
    BY <2>5, <2>6 DEF QueueInv
<1>6. CASE WriteTerminal(e)
  <2>1. HasEvent(e) /\ position[e] \in Nat
    BY <1>6 DEF WriteTerminal, QueueInv, TypeOK, EventPending
  <2>2. row' \in [Executions -> Rows]
    <3> DEFINE payload == MergeTiming(NextEvent(e) = "completed", applying[e], "apply")
    <3>1. payload \in Payloads /\ NextEvent(e) \in Statuses /\ row[e] \in Rows
      BY <1>6, MergeTimingType
         DEF WriteTerminal, QueueInv, TypeOK, Statuses, Active, Outcomes
    <3>2. row' = [row EXCEPT ![e] =
                    [row[e] EXCEPT !.status = NextEvent(e), !.payload = payload, !.completedAt = TRUE]]
      BY <1>6 DEF WriteTerminal
    <3> HIDE DEF payload
    <3>3. [row[e] EXCEPT !.status = NextEvent(e), !.payload = payload, !.completedAt = TRUE] \in Rows
      BY <3>1, PatchedRowType
    <3> QED
      BY <3>2, <3>3 DEF QueueInv, TypeOK
  <2>3. call' \in [Executions -> CallStates]
    BY <1>6, <2>1, ResolveCompletionType DEF WriteTerminal
  <2>4. /\ apply' = [apply EXCEPT ![e] = "idle"]
        /\ position' = [position EXCEPT ![e] = @ + 1]
        /\ late' \in {late, [late EXCEPT ![e] = FALSE]}
        /\ UNCHANGED <<merging, workerVars, committed, applying, logVars, check, restarts>>
    BY <1>6 DEF WriteTerminal, Advance, callVars, readerVars
  <2>5. TypeOK'
    <3>1. \A f \in Executions : committed'[f] <= position'[f] /\ position'[f] <= Len(topic'[f])
      BY <2>1, <2>4 DEF HasEvent, QueueInv, TypeOK, workerVars
    <3>2. position' \in [Executions -> Nat]
      BY <2>4 DEF QueueInv, TypeOK
    <3>3. late' \in [Executions -> BOOLEAN] /\ apply' \in [Executions -> {"idle", "writing"}]
      BY <2>4 DEF QueueInv, TypeOK
    <3> QED
      BY <2>2, <2>3, <2>4, <3>1, <3>2, <3>3 DEF QueueInv, TypeOK, workerVars, logVars
  <2>6. EventPending'
    BY <2>1, <2>4 DEF QueueInv, TypeOK, EventPending, HasEvent, NextEvent, workerVars
  <2> QED
    BY <2>5, <2>6 DEF QueueInv
<1>7. CASE WriteFails(e)
  BY <1>7 DEF QueueInv, TypeOK, EventPending, HasEvent, NextEvent,
     WriteFails, callVars, workerVars, consumerVars, logVars, readerVars, Advance
<1>8. CASE CommitOffset(e)
  BY <1>8 DEF QueueInv, TypeOK, EventPending, HasEvent, NextEvent,
     CommitOffset, callVars, workerVars, consumerVars, logVars, readerVars
<1>9. CASE ConsumerRestarts(e)
  BY <1>9 DEF QueueInv, TypeOK, EventPending, HasEvent, NextEvent,
     ConsumerRestarts, callVars, workerVars, consumerVars, logVars, readerVars
<1> QED
  BY <1>1, <1>2, <1>3, <1>4, <1>5, <1>6, <1>7, <1>8, <1>9 DEF Consumer

LEMMA ReaderKeepsQueueInv ==
  ASSUME QueueInv, NEW e \in Executions, Reader(e) \/ StopWorkflowExecution(e)
  PROVE  QueueInv'
<1>1. CASE TimeoutElapses(e)
  BY <1>1 DEF QueueInv, TypeOK, EventPending, HasEvent, NextEvent,
     TimeoutElapses, callVars, workerVars, consumerVars, logVars, readerVars
<1>2. CASE ListStalled(e)
  BY <1>2 DEF QueueInv, TypeOK, EventPending, HasEvent, NextEvent,
     ListStalled, callVars, workerVars, consumerVars, logVars, readerVars
<1>3. CASE CheckStalled(e)
  BY <1>3 DEF QueueInv, TypeOK, EventPending, HasEvent, NextEvent,
     CheckStalled, callVars, workerVars, consumerVars, logVars, readerVars
<1>4. CASE WriteStalled(e)
  <2>1. row' \in [Executions -> Rows]
    <3>1. [row[e] EXCEPT !.status = "failed", !.errorMessage = TRUE, !.completedAt = TRUE] \in Rows
      BY ConstantPayloadType, PatchedRowType DEF QueueInv, TypeOK, Statuses, Outcomes
    <3> QED
      BY <1>4, <3>1 DEF WriteStalled, QueueInv, TypeOK
  <2>2. /\ check' \in {check, [check EXCEPT ![e] = "idle"]}
        /\ UNCHANGED <<callVars, workerVars, consumerVars, logVars, late, restarts>>
    BY <1>4 DEF WriteStalled, readerVars
  <2> QED
    BY <2>1, <2>2 DEF QueueInv, TypeOK, EventPending, HasEvent, NextEvent,
       callVars, workerVars, consumerVars, logVars
<1>5. CASE StopWorkflowExecution(e)
  <2>1. row' \in [Executions -> Rows]
    <3>1. [row[e] EXCEPT !.status = "cancelled"] \in Rows
      BY ConstantPayloadType, PatchedRowType DEF QueueInv, TypeOK, Statuses, Outcomes
    <3> QED
      BY <1>5, <3>1 DEF StopWorkflowExecution, QueueInv, TypeOK
  <2>2. /\ check' \in {check, [check EXCEPT ![e] = "idle"]}
        /\ UNCHANGED <<callVars, workerVars, consumerVars, logVars, late, restarts>>
    BY <1>5 DEF StopWorkflowExecution, readerVars
  <2> QED
    BY <2>1, <2>2 DEF QueueInv, TypeOK, EventPending, HasEvent, NextEvent,
       callVars, workerVars, consumerVars, logVars
<1> QED
  BY <1>1, <1>2, <1>3, <1>4, <1>5 DEF Reader

LEMMA QueueInvStep ==
  ASSUME QueueInv, NEW e \in Executions,
         Caller(e) \/ Worker(e) \/ Consumer(e) \/ Reader(e) \/ StopWorkflowExecution(e)
  PROVE  QueueInv'
  BY CallerKeepsQueueInv, WorkerKeepsQueueInv, ConsumerKeepsQueueInv, ReaderKeepsQueueInv

LEMMA StutterKeepsQueueInv == QueueInv /\ UNCHANGED vars => QueueInv'
  BY DEF QueueInv, TypeOK, EventPending, HasEvent, NextEvent, vars, callVars, workerVars,
         consumerVars, logVars, readerVars

\* The type invariant, for every set of faults.
THEOREM QueueInvariant == Spec => []QueueInv
<1>1. QueueInv /\ [Next]_vars => QueueInv'
  BY QueueInvStep, StutterKeepsQueueInv DEF Next
<1> QED
  BY InitQueueInv, <1>1, PTL DEF Spec

\* Every variable has its type and the consumer's offsets are in order: it commits only
\* what it has applied, and applies only what was published.
THEOREM TypeCorrect == Spec => []TypeOK
<1>1. QueueInv => TypeOK
  BY DEF QueueInv
<1> QED
  BY QueueInvariant, <1>1, PTL

-------------------------------------------------------------------------------
(* Who writes what. *)

\* The steps that write a row, and what the row says afterwards.
RowWritten(e) ==
  \/ /\ CreateTracker(e)
     /\ row'[e].status = "queued"
  \/ /\ FinalizeUnpublished(e)
     /\ row'[e].status = "failed"
  \/ /\ WriteAnswer(e)
     /\ row'[e].status = row[e].status /\ row'[e].payload.output
  \/ /\ WriteStarted(e)
     /\ NextEvent(e) = "started" /\ row'[e].status = "running"
  \/ /\ WriteTerminal(e)
     /\ row'[e].status = NextEvent(e)
     /\ row'[e].payload.output = (NextEvent(e) = "completed")
  \/ /\ WriteStalled(e)
     /\ row'[e].status = "failed"
  \/ /\ StopWorkflowExecution(e)
     /\ row'[e].status = "cancelled"

LEMMA PatchedRowFields ==
  ASSUME NEW r \in Rows, NEW status \in Statuses, NEW payload \in Payloads
  PROVE  /\ [r EXCEPT !.status = status].status = status
         /\ [r EXCEPT !.status = status, !.payload = payload].status = status
         /\ [r EXCEPT !.status = status, !.payload = payload, !.completedAt = TRUE].status = status
         /\ [r EXCEPT !.status = status, !.payload = payload, !.completedAt = TRUE].payload = payload
         /\ [r EXCEPT !.payload = payload, !.snapshot = "result"].status = r.status
         /\ [r EXCEPT !.payload = payload, !.snapshot = "result"].payload = payload
         /\ [r EXCEPT !.status = status, !.errorMessage = TRUE,
                      !.completedAt = TRUE].status = status
  BY DEF Rows

LEMMA MergedOutput ==
  ASSUME NEW output, NEW current, NEW fallback
  PROVE  MergeTiming(output, current, fallback).output = output
  BY DEF MergeTiming

LEMMA CreateTrackerStatus ==
  ASSUME QueueInv, NEW e \in Executions, CreateTracker(e)
  PROVE  row'[e].status = "queued"
<1>1. row' = [row EXCEPT ![e] =
                [AbsentRow EXCEPT !.status = "queued", !.payload = QueuedPayload]]
  BY DEF CreateTracker
<1>2. [AbsentRow EXCEPT !.status = "queued", !.payload = QueuedPayload].status = "queued"
  BY AbsentRowType, ConstantPayloadType, PatchedRowFields DEF Statuses, Active
<1> QED
  BY <1>1, <1>2 DEF QueueInv, TypeOK

LEMMA WriteStartedStatus ==
  ASSUME QueueInv, NEW e \in Executions, WriteStarted(e)
  PROVE  NextEvent(e) = "started" /\ row'[e].status = "running"
<1>0. /\ row \in [Executions -> Rows] /\ row[e] \in Rows /\ applying[e] \in Payloads
  BY DEF QueueInv, TypeOK
<1> DEFINE payload == WithStarted(applying[e])
<1>1. row' = [row EXCEPT ![e] = [row[e] EXCEPT !.status = "running", !.payload = payload]]
  BY DEF WriteStarted
<1>2. payload \in Payloads
  BY <1>0, StartedPayloadType
<1> HIDE DEF payload
<1>3. [row[e] EXCEPT !.status = "running", !.payload = payload].status = "running"
  BY <1>0, <1>2, PatchedRowFields DEF Statuses, Active
<1>4. NextEvent(e) = "started"
  BY DEF WriteStarted
<1> QED
  BY <1>0, <1>1, <1>3, <1>4

LEMMA WriteTerminalStatus ==
  ASSUME QueueInv, NEW e \in Executions, WriteTerminal(e)
  PROVE  /\ NextEvent(e) \in Outcomes /\ row'[e].status = NextEvent(e)
         /\ row'[e].payload.output = (NextEvent(e) = "completed")
<1>0. /\ row \in [Executions -> Rows] /\ row[e] \in Rows /\ applying[e] \in Payloads
  BY DEF QueueInv, TypeOK
<1> DEFINE payload == MergeTiming(NextEvent(e) = "completed", applying[e], "apply")
<1>1. row' = [row EXCEPT ![e] = [row[e] EXCEPT !.status = NextEvent(e), !.payload = payload,
                                               !.completedAt = TRUE]]
  BY DEF WriteTerminal
<1>2. payload \in Payloads /\ payload.output = (NextEvent(e) = "completed")
  BY <1>0, MergeTimingType, MergedOutput
<1>3. NextEvent(e) \in Outcomes /\ NextEvent(e) \in Statuses
  BY DEF WriteTerminal, Statuses
<1> HIDE DEF payload
<1>4. /\ [row[e] EXCEPT !.status = NextEvent(e), !.payload = payload,
                        !.completedAt = TRUE].status = NextEvent(e)
      /\ [row[e] EXCEPT !.status = NextEvent(e), !.payload = payload,
                        !.completedAt = TRUE].payload = payload
  BY <1>0, <1>2, <1>3, PatchedRowFields
<1> QED
  BY <1>0, <1>1, <1>2, <1>3, <1>4

LEMMA RowStep ==
  ASSUME QueueInv, NEW e \in Executions,
         Caller(e) \/ Worker(e) \/ Consumer(e) \/ Reader(e) \/ StopWorkflowExecution(e)
  PROVE  /\ \A f \in Executions \ {e} : row'[f] = row[f]
         /\ row'[e] = row[e] \/ RowWritten(e)
<1>0. /\ row \in [Executions -> Rows] /\ row[e] \in Rows /\ row[e].status \in Statuses
      /\ applying[e] \in Payloads /\ merging[e] \in Payloads
  BY DEF QueueInv, TypeOK, Rows
<1>1. CASE CreateTracker(e)
  BY <1>1, CreateTrackerStatus DEF CreateTracker, RowWritten
<1>2. CASE FinalizeUnpublished(e)
  <2>1. row' = row \/ row' = [row EXCEPT ![e] =
                  [row[e] EXCEPT !.status = "failed", !.payload = QueuedPayload,
                                 !.completedAt = TRUE]]
    BY <1>2 DEF FinalizeUnpublished
  <2>2. [row[e] EXCEPT !.status = "failed", !.payload = QueuedPayload,
                       !.completedAt = TRUE].status = "failed"
    BY <1>0, ConstantPayloadType, PatchedRowFields DEF Statuses
  <2> QED
    BY <1>0, <1>2, <2>1, <2>2 DEF RowWritten
<1>3. CASE WriteAnswer(e)
  <2> DEFINE payload == MergeTiming(TRUE, merging[e], "call")
  <2>1. row' = row \/ row' = [row EXCEPT ![e] =
                  [row[e] EXCEPT !.payload = payload, !.snapshot = "result"]]
    BY <1>3 DEF WriteAnswer
  <2>2. payload \in Payloads /\ payload.output
    BY <1>0, MergeTimingType, MergedOutput
  <2> HIDE DEF payload
  <2>3. /\ [row[e] EXCEPT !.payload = payload, !.snapshot = "result"].status = row[e].status
        /\ [row[e] EXCEPT !.payload = payload, !.snapshot = "result"].payload = payload
    BY <1>0, <2>2, PatchedRowFields
  <2> QED
    BY <1>0, <1>3, <2>1, <2>2, <2>3 DEF RowWritten
<1>0a. WriteStarted(e) \/ WriteTerminal(e) => \A f \in Executions \ {e} : row'[f] = row[f]
  BY <1>0 DEF WriteStarted, WriteTerminal
<1>4. CASE WriteStarted(e)
  BY <1>0, <1>4, <1>0a, WriteStartedStatus DEF RowWritten
<1>5. CASE WriteTerminal(e)
  BY <1>0, <1>5, <1>0a, WriteTerminalStatus DEF RowWritten
<1>6. CASE WriteStalled(e)
  <2>1. row' = row \/ row' = [row EXCEPT ![e] =
                  [row[e] EXCEPT !.status = "failed", !.errorMessage = TRUE, !.completedAt = TRUE]]
    BY <1>6 DEF WriteStalled
  <2>2. [row[e] EXCEPT !.status = "failed", !.errorMessage = TRUE,
                       !.completedAt = TRUE].status = "failed"
    BY <1>0, ConstantPayloadType, PatchedRowFields DEF Statuses
  <2> QED
    BY <1>0, <1>6, <2>1, <2>2 DEF RowWritten
<1>7. CASE StopWorkflowExecution(e)
  <2>1. row' = [row EXCEPT ![e] = [row[e] EXCEPT !.status = "cancelled"]]
    BY <1>7 DEF StopWorkflowExecution
  <2>2. [row[e] EXCEPT !.status = "cancelled"].status = "cancelled"
    BY <1>0, ConstantPayloadType, PatchedRowFields DEF Statuses
  <2> QED
    BY <1>0, <1>7, <2>1, <2>2 DEF RowWritten
<1>8. CASE CreateTrackerFails(e) \/ DriveFails(e) \/ Enqueue(e) \/ EnqueueResolves(e)
             \/ EnqueueRejects(e) \/ ClientAborts(e) \/ ReadBeforeAnswer(e) \/ CallerDies(e)
  BY <1>8 DEF CreateTrackerFails, DriveFails, Enqueue, EnqueueResolves, EnqueueRejects,
     ClientAborts, ReadBeforeAnswer, CallerDies
<1>9. CASE Worker(e)
  BY <1>9 DEF Worker, StartRun, PushLog, LogPublished, Finish, StartupFails, PublishTerminal,
     WorkerCrashes, RequestRedelivered
<1>10. CASE ApplyLog(e) \/ LogInsertEnds(e) \/ ReadForApply(e) \/ ReadForApplyFails(e)
              \/ WriteFails(e) \/ CommitOffset(e) \/ ConsumerRestarts(e)
  BY <1>10 DEF ApplyLog, LogInsertEnds, ReadForApply, ReadForApplyFails, WriteFails,
     CommitOffset, ConsumerRestarts
<1>11. CASE TimeoutElapses(e) \/ ListStalled(e) \/ CheckStalled(e)
  BY <1>11 DEF TimeoutElapses, ListStalled, CheckStalled
<1> QED
  BY <1>1, <1>2, <1>3, <1>4, <1>5, <1>6, <1>7, <1>8, <1>9, <1>10, <1>11
     DEF Caller, Consumer, Reader

\* No step takes a published event back.
LEMMA TopicStep ==
  ASSUME QueueInv, NEW e \in Executions,
         Caller(e) \/ Worker(e) \/ Consumer(e) \/ Reader(e) \/ StopWorkflowExecution(e)
  PROVE  TopicExtended
<1>1. CASE StartRun(e) \/ LogPublished(e) \/ PublishTerminal(e)
  BY <1>1, PublishExtends DEF StartRun, LogPublished, PublishTerminal, Events
<1>2. UNCHANGED topic => TopicExtended
  BY DEF QueueInv, TypeOK, TopicExtended
<1>3. CASE Caller(e)
  BY <1>2, <1>3 DEF Caller, CreateTracker, CreateTrackerFails, DriveFails, Enqueue,
     EnqueueResolves, EnqueueRejects, FinalizeUnpublished, ClientAborts, ReadBeforeAnswer,
     WriteAnswer, CallerDies, workerVars
<1>4. CASE PushLog(e) \/ (\E outcome \in Outcomes : Finish(e, outcome)) \/ StartupFails(e)
             \/ WorkerCrashes(e) \/ RequestRedelivered(e)
  BY <1>2, <1>4 DEF PushLog, Finish, StartupFails, WorkerCrashes, RequestRedelivered
<1>5. CASE Consumer(e)
  BY <1>2, <1>5 DEF Consumer, ApplyLog, LogInsertEnds, ReadForApply, ReadForApplyFails,
     WriteStarted, WriteTerminal, WriteFails, CommitOffset, ConsumerRestarts, workerVars
<1>6. CASE Reader(e) \/ StopWorkflowExecution(e)
  BY <1>2, <1>6 DEF Reader, TimeoutElapses, ListStalled, CheckStalled, WriteStalled,
     StopWorkflowExecution, workerVars
<1> QED
  BY <1>1, <1>3, <1>4, <1>5, <1>6 DEF Worker

-------------------------------------------------------------------------------
(* A completed row has its result. *)

LEMMA CompletedResponse ==
  CompletedHasResult <=>
    \A e \in Executions :
      row[e].status = "completed" =>
        row[e].payload.output /\ \E i \in 1..Len(topic[e]) : topic[e][i] = "completed"
  BY DEF CompletedHasResult, StatusResponse, NoResponse, Active, Outcomes

LEMMA StepKeepsCompletedHasResult ==
  ASSUME QueueInv, CompletedHasResult, NEW e \in Executions,
         Caller(e) \/ Worker(e) \/ Consumer(e) \/ Reader(e) \/ StopWorkflowExecution(e)
  PROVE  CompletedHasResult'
<1> SUFFICES ASSUME NEW f \in Executions, row'[f].status = "completed"
             PROVE  /\ row'[f].payload.output
                    /\ \E i \in 1..Len(topic'[f]) : topic'[f][i] = "completed"
  BY DEF CompletedHasResult, StatusResponse, NoResponse, Active, Outcomes
<1>1. TopicExtended
  BY TopicStep
<1>2. ASSUME NEW i \in 1..Len(topic[f]), topic[f][i] = "completed"
      PROVE  \E j \in 1..Len(topic'[f]) : topic'[f][j] = "completed"
  <2>1. Len(topic[f]) \in Nat /\ Len(topic'[f]) \in Nat
    BY <1>1 DEF QueueInv, TypeOK, TopicExtended
  <2>2. i \in 1..Len(topic'[f]) /\ topic'[f][i] = topic[f][i]
    BY <1>1, <2>1 DEF TopicExtended
  <2> QED
    BY <1>2, <2>2
<1>3. CASE row'[f] = row[f]
  BY <1>2, <1>3, CompletedResponse
<1>4. CASE f = e /\ RowWritten(e)
  <2>1. CASE WriteAnswer(e) /\ row'[e].status = row[e].status /\ row'[e].payload.output
    BY <1>2, <1>4, <2>1, CompletedResponse
  <2>2. CASE /\ WriteTerminal(e)
             /\ row'[e].status = NextEvent(e)
             /\ row'[e].payload.output = (NextEvent(e) = "completed")
    <3>1. position[e] + 1 \in 1..Len(topic[e]) /\ NextEvent(e) = "completed"
      BY <1>4, <2>2 DEF WriteTerminal, QueueInv, TypeOK, EventPending, HasEvent
    <3> QED
      BY <1>2, <1>4, <2>2, <3>1 DEF NextEvent
  <2> QED
    BY <1>4, <2>1, <2>2 DEF RowWritten
<1> QED
  BY <1>3, <1>4, RowStep

\* For every set of faults: a completed row carries the output of a run that completed,
\* although three writers put back payloads they read earlier.
THEOREM CompletedResult == Spec => []CompletedHasResult
<1>1. Init => CompletedHasResult
  BY CompletedResponse DEF Init, AbsentRow
<1>2. QueueInv /\ CompletedHasResult /\ [Next]_vars => CompletedHasResult'
  <2>1. QueueInv /\ CompletedHasResult /\ Next => CompletedHasResult'
    BY StepKeepsCompletedHasResult DEF Next
  <2>2. CompletedHasResult /\ UNCHANGED vars => CompletedHasResult'
    BY DEF CompletedHasResult, StatusResponse, vars, workerVars
  <2> QED
    BY <2>1, <2>2
<1> QED
  BY QueueInvariant, <1>1, <1>2, PTL DEF Spec

-------------------------------------------------------------------------------
(* The order in which an execution comes about. *)

\* The row exists before the request, and the request before its events; only a row that
\* exists is judged.
Ordered(e) ==
  /\ call[e] = "idle" => row[e].status = "absent"
  /\ row[e].status = "absent" =>
       call[e] \in {"idle", "errored"} /\ run[e] = "none" /\ check[e] = "idle"
  /\ call[e] \in {"idle", "tracked"} => run[e] = "none"
  /\ run[e] = "none" => topic[e] = <<>> /\ unsent[e] = 0

OrderedInv == \A e \in Executions : Ordered(e)

\* A step of one execution leaves the others alone.
Untouched(f) ==
  /\ row'[f] = row[f] /\ call'[f] = call[f] /\ run'[f] = run[f] /\ unsent'[f] = unsent[f]
  /\ topic'[f] = topic[f] /\ position'[f] = position[f]
  /\ late'[f] = late[f] /\ check'[f] = check[f]

LEMMA StepTouchesOne ==
  ASSUME QueueInv, NEW e \in Executions, NEW f \in Executions \ {e},
         Caller(e) \/ Worker(e) \/ Consumer(e) \/ Reader(e) \/ StopWorkflowExecution(e)
  PROVE  Untouched(f)
<1>0. row'[f] = row[f]
  BY RowStep
<1>1. CASE Caller(e)
  <2>1. call'[f] = call[f]
    BY <1>1 DEF Caller, CreateTracker, CreateTrackerFails, DriveFails, Enqueue,
       EnqueueResolves, EnqueueRejects, FinalizeUnpublished, ClientAborts, ReadBeforeAnswer,
       WriteAnswer, CallerDies, QueueInv, TypeOK
  <2>2. run'[f] = run[f]
    BY <1>1 DEF Caller, CreateTracker, CreateTrackerFails, DriveFails, Enqueue,
       EnqueueResolves, EnqueueRejects, FinalizeUnpublished, ClientAborts, ReadBeforeAnswer,
       WriteAnswer, CallerDies, QueueInv, TypeOK, workerVars
  <2>3. UNCHANGED <<unsent, topic, position, late, check>>
    BY <1>1 DEF Caller, CreateTracker, CreateTrackerFails, DriveFails, Enqueue,
       EnqueueResolves, EnqueueRejects, FinalizeUnpublished, ClientAborts, ReadBeforeAnswer,
       WriteAnswer, CallerDies, workerVars, consumerVars, readerVars
  <2> QED
    BY <1>0, <2>1, <2>2, <2>3 DEF Untouched
<1>2. CASE Worker(e)
  <2>1. call'[f] = call[f]
    BY <1>2 DEF Worker, StartRun, PushLog, LogPublished, Finish, StartupFails, PublishTerminal,
       WorkerCrashes, RequestRedelivered, ResolveCompletion, QueueInv, TypeOK, callVars
  <2>2. run'[f] = run[f] /\ unsent'[f] = unsent[f]
    BY <1>2 DEF Worker, StartRun, PushLog, LogPublished, Finish, StartupFails, PublishTerminal,
       WorkerCrashes, RequestRedelivered, QueueInv, TypeOK
  <2>3. topic'[f] = topic[f]
    BY <1>2 DEF Worker, StartRun, PushLog, LogPublished, Finish, StartupFails, PublishTerminal,
       WorkerCrashes, RequestRedelivered, Publish, QueueInv, TypeOK
  <2>4. UNCHANGED <<position, late, check>>
    BY <1>2 DEF Worker, StartRun, PushLog, LogPublished, Finish, StartupFails, PublishTerminal,
       WorkerCrashes, RequestRedelivered, consumerVars, readerVars
  <2> QED
    BY <1>0, <2>1, <2>2, <2>3, <2>4 DEF Untouched
<1>3. CASE Consumer(e)
  <2>1. call'[f] = call[f]
    BY <1>3 DEF Consumer, ApplyLog, LogInsertEnds, ReadForApply, ReadForApplyFails,
       WriteStarted, WriteTerminal, WriteFails, CommitOffset, ConsumerRestarts,
       ResolveCompletion, QueueInv, TypeOK, callVars
  <2>2. position'[f] = position[f]
    BY <1>3 DEF Consumer, ApplyLog, LogInsertEnds, ReadForApply, ReadForApplyFails,
       WriteStarted, WriteTerminal, WriteFails, CommitOffset, ConsumerRestarts,
       Advance, QueueInv, TypeOK, consumerVars
  <2>3. late'[f] = late[f] /\ check' = check
    BY <1>3 DEF Consumer, ApplyLog, LogInsertEnds, ReadForApply, ReadForApplyFails,
       WriteStarted, WriteTerminal, WriteFails, CommitOffset, ConsumerRestarts,
       QueueInv, TypeOK, readerVars
  <2>4. UNCHANGED <<run, unsent, topic>>
    BY <1>3 DEF Consumer, ApplyLog, LogInsertEnds, ReadForApply, ReadForApplyFails,
       WriteStarted, WriteTerminal, WriteFails, CommitOffset, ConsumerRestarts, workerVars
  <2> QED
    BY <1>0, <2>1, <2>2, <2>3, <2>4 DEF Untouched
<1>4. CASE Reader(e) \/ StopWorkflowExecution(e)
  <2>1. late'[f] = late[f] /\ check'[f] = check[f]
    BY <1>4 DEF Reader, TimeoutElapses, ListStalled, CheckStalled, WriteStalled,
       StopWorkflowExecution, QueueInv, TypeOK, readerVars
  <2>2. UNCHANGED <<call, run, unsent, topic, position>>
    BY <1>4 DEF Reader, TimeoutElapses, ListStalled, CheckStalled, WriteStalled,
       StopWorkflowExecution, callVars, workerVars, consumerVars
  <2> QED
    BY <1>0, <2>1, <2>2 DEF Untouched
<1> QED
  BY <1>0, <1>1, <1>2, <1>3, <1>4 DEF Untouched

LEMMA StepKeepsOrdered ==
  ASSUME QueueInv, OrderedInv, NEW e \in Executions,
         Caller(e) \/ Worker(e) \/ Consumer(e) \/ Reader(e) \/ StopWorkflowExecution(e)
  PROVE  OrderedInv'
<1>1. \A f \in Executions \ {e} : Ordered(f)'
  BY StepTouchesOne DEF Untouched, OrderedInv, Ordered
<1>2. /\ Ordered(e) /\ call[e] \in CallStates /\ run[e] \in RunStates
      /\ call \in [Executions -> CallStates] /\ run \in [Executions -> RunStates]
      /\ check \in [Executions -> {"idle", "listed", "active"}]
  BY DEF OrderedInv, QueueInv, TypeOK
<1>3. row'[e].status = "absent" => row[e].status = "absent"
  BY RowStep DEF RowWritten, WriteTerminal
<1>4. CASE Caller(e)
  <2>1. /\ run' = run \/ (call[e] = "tracked" /\ run' = [run EXCEPT ![e] = "requested"]
                            /\ call' = [call EXCEPT ![e] = "published"])
        /\ UNCHANGED <<unsent, topic, check>>
    BY <1>4 DEF Caller, CreateTracker, CreateTrackerFails, DriveFails, Enqueue,
       EnqueueResolves, EnqueueRejects, FinalizeUnpublished, ClientAborts, ReadBeforeAnswer,
       WriteAnswer, CallerDies, workerVars, readerVars
  <2>2. /\ call'[e] # "idle"
        /\ call'[e] = "tracked" => CreateTracker(e)
        /\ call[e] \in {"idle", "errored"} => CreateTracker(e) \/ CreateTrackerFails(e)
    BY <1>2, <1>4 DEF Caller, CreateTracker, CreateTrackerFails, DriveFails, Enqueue,
       EnqueueResolves, EnqueueRejects, FinalizeUnpublished, ClientAborts, ReadBeforeAnswer,
       WriteAnswer, CallerDies
  <2>3. CreateTracker(e) => row'[e].status = "queued" /\ call[e] = "idle" /\ run' = run
    BY CreateTrackerStatus DEF CreateTracker, workerVars
  <2>4. CreateTrackerFails(e) => call'[e] = "errored" /\ call[e] = "idle" /\ run' = run
    BY <1>2 DEF CreateTrackerFails, workerVars
  <2> QED
    BY <1>1, <1>2, <1>3, <2>1, <2>2, <2>3, <2>4 DEF Ordered, OrderedInv
<1>5. CASE Worker(e)
  <2>1. row' = row /\ check' = check
    BY <1>5 DEF Worker, StartRun, PushLog, LogPublished, Finish, StartupFails, PublishTerminal,
       WorkerCrashes, RequestRedelivered, readerVars
  <2>2. call'[e] = call[e] \/ call'[e] \in {"resolved", "errored"}
    BY <1>5 DEF Worker, StartRun, PushLog, LogPublished, Finish, StartupFails, PublishTerminal,
       WorkerCrashes, RequestRedelivered, ResolveCompletion, QueueInv, TypeOK, callVars
  <2>3. run[e] # "none" /\ run'[e] # "none"
    <3>1. LogPublished(e) => run[e] # "none"
      BY <1>2 DEF LogPublished, Ordered
    <3> QED
      BY <1>5, <3>1 DEF Worker, StartRun, PushLog, LogPublished, Finish, StartupFails,
         PublishTerminal, WorkerCrashes, RequestRedelivered, QueueInv, TypeOK
  <2> QED
    BY <1>1, <1>2, <2>1, <2>2, <2>3 DEF Ordered, OrderedInv
<1>6. CASE Consumer(e)
  <2>1. UNCHANGED <<run, unsent, topic, check>>
    BY <1>6 DEF Consumer, ApplyLog, LogInsertEnds, ReadForApply, ReadForApplyFails,
       WriteStarted, WriteTerminal, WriteFails, CommitOffset, ConsumerRestarts, workerVars,
       readerVars
  <2>2. \/ call'[e] = call[e]
        \/ call[e] = "waiting" /\ call'[e] \in {"resolved", "errored"}
    BY <1>6 DEF Consumer, ApplyLog, LogInsertEnds, ReadForApply, ReadForApplyFails,
       WriteStarted, WriteTerminal, WriteFails, CommitOffset, ConsumerRestarts,
       ResolveCompletion, QueueInv, TypeOK, callVars
  <2>3. WriteStarted(e) \/ WriteTerminal(e) => run[e] # "none"
    <3> SUFFICES ASSUME apply[e] = "writing" PROVE run[e] # "none"
      BY DEF WriteStarted, WriteTerminal
    <3>1. position[e] \in Nat /\ position[e] < Len(topic[e])
      BY DEF QueueInv, TypeOK, EventPending, HasEvent
    <3>2. topic[e] # <<>>
      BY <3>1
    <3> QED
      BY <1>2, <3>2 DEF Ordered
  <2>4. row'[e] = row[e] \/ WriteStarted(e) \/ WriteTerminal(e)
    BY <1>6 DEF Consumer, ApplyLog, LogInsertEnds, ReadForApply, ReadForApplyFails,
       WriteFails, CommitOffset, ConsumerRestarts
  <2>5. CASE row'[e] = row[e]
    BY <1>1, <1>2, <2>1, <2>2, <2>5 DEF Ordered, OrderedInv
  <2>6. CASE WriteStarted(e) \/ WriteTerminal(e)
    BY <1>1, <1>2, <1>3, <2>1, <2>2, <2>3, <2>6 DEF Ordered, OrderedInv
  <2> QED
    BY <2>4, <2>5, <2>6
<1>7. CASE Reader(e) \/ StopWorkflowExecution(e)
  <2>1. /\ UNCHANGED <<call, run, unsent, topic>>
        /\ check'[e] # check[e] => row[e].status # "absent"
        /\ row' # row => row[e].status # "absent"
    <3>1. UNCHANGED <<call, run, unsent, topic>>
      BY <1>7 DEF Reader, TimeoutElapses, ListStalled, CheckStalled, WriteStalled,
         StopWorkflowExecution, callVars, workerVars
    <3>2. CASE TimeoutElapses(e) \/ ListStalled(e) \/ StopWorkflowExecution(e)
      BY <3>1, <3>2 DEF TimeoutElapses, ListStalled, StopWorkflowExecution, readerVars
    <3>3. CASE CheckStalled(e) \/ WriteStalled(e)
      <4>1. check[e] # "idle"
        BY <3>3 DEF CheckStalled, WriteStalled
      <4> QED
        BY <1>2, <3>1, <4>1 DEF Ordered
    <3> QED
      BY <1>7, <3>2, <3>3 DEF Reader
  <2> QED
    BY <1>1, <1>2, <1>3, <2>1 DEF Ordered, OrderedInv
<1> QED
  BY <1>4, <1>5, <1>6, <1>7

\* For every set of faults: no request is enqueued for a row that does not exist, no event
\* precedes its request, and only an existing row is judged stalled.
THEOREM OrderedInvariant == Spec => [](QueueInv /\ OrderedInv)
<1>1. Init => OrderedInv
  <2> SUFFICES ASSUME Init, NEW e \in Executions PROVE Ordered(e)
    BY DEF OrderedInv
  <2>1. row[e].status = "absent"
    BY DEF Init, AbsentRow
  <2>2. /\ call[e] = "idle" /\ run[e] = "none" /\ topic[e] = <<>> /\ unsent[e] = 0
        /\ check[e] = "idle"
    BY DEF Init
  <2> QED
    BY <2>1, <2>2 DEF Ordered
<1>2. QueueInv /\ OrderedInv /\ [Next]_vars => OrderedInv'
  <2>1. QueueInv /\ OrderedInv /\ Next => OrderedInv'
    BY StepKeepsOrdered DEF Next
  <2>2. OrderedInv /\ UNCHANGED vars => OrderedInv'
    BY DEF OrderedInv, Ordered, vars, callVars, workerVars, readerVars
  <2> QED
    BY <2>1, <2>2
<1> QED
  BY QueueInvariant, <1>1, <1>2, PTL DEF Spec

-------------------------------------------------------------------------------
(* Log events are counted. *)

\* The log events the consumer is past.
Past(e) == {i \in 1..position[e] : topic[e][i] = "log"}

\* Each restart lets the consumer emit the topic's log events once more, and since the last
\* one it has emitted those it is past.
Counted(e) ==
  /\ unpersisted[e] + persisted[e] <= emitted[e]
  /\ emitted[e] <= LogsOf(e) * restarts + Cardinality(Past(e))

CountInv == \A e \in Executions : Counted(e)

LEMMA ProductsGrow ==
  ASSUME NEW a \in Nat, NEW b \in Nat, NEW c \in Nat, NEW d \in Nat, a <= b, c <= d
  PROVE  a * c <= b * d
<1>1. \A k \in Nat : (a + k) * c = a * c + k * c /\ k * c >= 0
  OBVIOUS
<1>2. PICK k \in Nat : b = a + k
  <2>1. b - a \in Nat /\ b = a + (b - a)
    OBVIOUS
  <2> QED
    BY <2>1
<1>3. a * c <= b * c
  BY <1>1, <1>2
<1>4. \A j \in Nat : b * (c + j) = b * c + b * j /\ b * j >= 0
  OBVIOUS
<1>5. PICK j \in Nat : d = c + j
  <2>1. d - c \in Nat /\ d = c + (d - c)
    OBVIOUS
  <2> QED
    BY <2>1
<1>6. b * c <= b * d
  BY <1>4, <1>5
<1> QED
  BY <1>3, <1>6

\* What is counted is finite, and the consumer is past events of the topic only.
LEMMA CountsAreNumbers ==
  ASSUME QueueInv, NEW e \in Executions
  PROVE  /\ IsFiniteSet(Past(e)) /\ Cardinality(Past(e)) \in Nat
         /\ IsFiniteSet({i \in 1..Len(topic[e]) : topic[e][i] = "log"}) /\ LogsOf(e) \in Nat
         /\ Cardinality(Past(e)) <= LogsOf(e)
<1> DEFINE L == {i \in 1..Len(topic[e]) : topic[e][i] = "log"}
<1>1. Len(topic[e]) \in Nat /\ position[e] \in Nat /\ position[e] <= Len(topic[e])
  BY DEF QueueInv, TypeOK
<1>2. IsFiniteSet(1..Len(topic[e]))
  BY <1>1, FS_Interval
<1>3. IsFiniteSet(L) /\ Cardinality(L) \in Nat
  BY <1>2, FS_Subset, FS_CardinalityType
<1>4. Past(e) \in SUBSET L
  BY <1>1 DEF Past
<1>5. IsFiniteSet(Past(e)) /\ Cardinality(Past(e)) \in Nat /\ Cardinality(Past(e)) <= Cardinality(L)
  BY <1>3, <1>4, FS_Subset, FS_CardinalityType
<1> QED
  BY <1>3, <1>5 DEF LogsOf

\* While topics grow, no consumer goes back and restarts are counted, the bounds only rise.
LEMMA BoundsRise ==
  ASSUME QueueInv, QueueInv', TopicExtended, NEW f \in Executions, position[f] <= position'[f]
  PROVE  /\ LogsOf(f)' \in Nat /\ LogsOf(f) <= LogsOf(f)'
         /\ Cardinality(Past(f)') \in Nat /\ Cardinality(Past(f)) <= Cardinality(Past(f)')
<1> DEFINE L == {i \in 1..Len(topic[f]) : topic[f][i] = "log"}
           M == {i \in 1..Len(topic'[f]) : topic'[f][i] = "log"}
           N == {i \in 1..position'[f] : topic'[f][i] = "log"}
<1>1. /\ Len(topic[f]) \in Nat /\ Len(topic'[f]) \in Nat /\ Len(topic[f]) <= Len(topic'[f])
      /\ position[f] \in Nat /\ position'[f] \in Nat /\ position[f] <= Len(topic[f])
      /\ position'[f] <= Len(topic'[f])
      /\ \A i \in 1..Len(topic[f]) : topic'[f][i] = topic[f][i]
  BY DEF QueueInv, TypeOK, TopicExtended
<1>2. IsFiniteSet(M)
  <2>1. \A b \in Nat : IsFiniteSet(1..b)
    BY FS_Interval
  <2>2. IsFiniteSet(1..Len(topic'[f]))
    BY <1>1, <2>1
  <2>3. M \in SUBSET (1..Len(topic'[f]))
    OBVIOUS
  <2> QED
    BY <2>2, <2>3, FS_Subset
<1>3. N \in SUBSET M /\ L \in SUBSET M /\ Past(f) \in SUBSET N
  BY <1>1 DEF Past
<1>4. IsFiniteSet(N) /\ Cardinality(N) \in Nat /\ Cardinality(M) \in Nat
  BY <1>2, <1>3, FS_Subset, FS_CardinalityType
<1>5. Cardinality(L) <= Cardinality(M) /\ Cardinality(Past(f)) <= Cardinality(N)
  BY <1>2, <1>3, <1>4, FS_Subset
<1>6. LogsOf(f) = Cardinality(L) /\ LogsOf(f)' = Cardinality(M) /\ Past(f)' = N
  BY DEF LogsOf, Past
<1> QED
  BY <1>4, <1>5, <1>6

\* An execution of which nothing is emitted, and whose consumer does not go back.
LEMMA QuietKeepsCount ==
  ASSUME QueueInv, QueueInv', TopicExtended, NEW f \in Executions, Counted(f),
         position[f] <= position'[f], restarts <= restarts', emitted'[f] = emitted[f],
         unpersisted'[f] + persisted'[f] <= unpersisted[f] + persisted[f]
  PROVE  Counted(f)'
<1>1. /\ LogsOf(f) \in Nat /\ Cardinality(Past(f)) \in Nat
      /\ LogsOf(f)' \in Nat /\ Cardinality(Past(f)') \in Nat
  BY CountsAreNumbers, BoundsRise
<1>2. LogsOf(f) <= LogsOf(f)' /\ Cardinality(Past(f)) <= Cardinality(Past(f)')
  BY BoundsRise
<1>3. /\ restarts \in Nat /\ restarts' \in Nat /\ emitted[f] \in Nat /\ unpersisted[f] \in Nat
      /\ persisted[f] \in Nat /\ unpersisted'[f] \in Nat /\ persisted'[f] \in Nat
  BY DEF QueueInv, TypeOK
<1>4. /\ LogsOf(f) * restarts <= LogsOf(f)' * restarts'
      /\ LogsOf(f) * restarts \in Nat /\ LogsOf(f)' * restarts' \in Nat
  BY <1>1, <1>2, <1>3, ProductsGrow
<1>5. /\ unpersisted[f] + persisted[f] <= emitted[f]
      /\ emitted[f] <= LogsOf(f) * restarts + Cardinality(Past(f))
  BY DEF Counted
<1>6. unpersisted'[f] + persisted'[f] <= emitted'[f]
  BY <1>3, <1>5
<1>7. emitted'[f] <= LogsOf(f)' * restarts' + Cardinality(Past(f)')
  BY <1>1, <1>2, <1>3, <1>4, <1>5
<1> QED
  BY <1>6, <1>7 DEF Counted

\* A log event is applied: the consumer is past one more, and emits and inserts one more.
LEMMA ApplyLogKeepsCount ==
  ASSUME QueueInv, NEW e \in Executions, Counted(e), ApplyLog(e)
  PROVE  Counted(e)'
<1>1. /\ position[e] \in Nat /\ Len(topic[e]) \in Nat /\ position[e] < Len(topic[e])
      /\ topic[e][position[e] + 1] = "log"
  BY DEF ApplyLog, HasEvent, NextEvent, QueueInv, TypeOK
<1>2. /\ topic' = topic /\ restarts' = restarts /\ persisted' = persisted
      /\ position'[e] = position[e] + 1 /\ emitted'[e] = emitted[e] + 1
      /\ unpersisted'[e] \in {unpersisted[e], unpersisted[e] + 1}
  BY DEF ApplyLog, Advance, QueueInv, TypeOK, workerVars
<1>3. IsFiniteSet(Past(e)) /\ Cardinality(Past(e)) \in Nat /\ LogsOf(e) \in Nat
  BY CountsAreNumbers
<1>4. /\ {i \in 1..(position[e] + 1) : topic[e][i] = "log"} = Past(e) \cup {position[e] + 1}
      /\ position[e] + 1 \notin Past(e)
  BY <1>1 DEF Past
<1>5. Cardinality(Past(e)') = Cardinality(Past(e)) + 1
  <2>1. Past(e)' = Past(e) \cup {position[e] + 1}
    BY <1>2, <1>4 DEF Past
  <2>2. Cardinality(Past(e) \cup {position[e] + 1}) = Cardinality(Past(e)) + 1
    BY <1>3, <1>4, FS_AddElement
  <2> QED
    BY <2>1, <2>2
<1>6. LogsOf(e)' = LogsOf(e)
  BY <1>2 DEF LogsOf
<1>7. restarts \in Nat /\ emitted[e] \in Nat /\ unpersisted[e] \in Nat /\ persisted[e] \in Nat
  BY DEF QueueInv, TypeOK
<1>8. LogsOf(e) * restarts \in Nat
  BY <1>3, <1>7
<1>9. /\ unpersisted[e] + persisted[e] <= emitted[e]
      /\ emitted[e] <= LogsOf(e) * restarts + Cardinality(Past(e))
  BY DEF Counted
<1>10. unpersisted'[e] + persisted'[e] <= emitted'[e]
  BY <1>2, <1>7, <1>9
<1>11. emitted'[e] <= LogsOf(e)' * restarts' + Cardinality(Past(e)')
  BY <1>2, <1>3, <1>5, <1>6, <1>7, <1>8, <1>9
<1> QED
  BY <1>10, <1>11 DEF Counted

\* The consumer restarts: whatever it is past may be emitted again, and is at most all logs.
LEMMA RestartKeepsCount ==
  ASSUME QueueInv, QueueInv', NEW e \in Executions, Counted(e), ConsumerRestarts(e)
  PROVE  Counted(e)'
<1>1. /\ topic' = topic /\ restarts' = restarts + 1 /\ persisted' = persisted
      /\ emitted' = emitted /\ unpersisted'[e] = 0
      /\ position'[e] \in Nat /\ position'[e] <= Len(topic[e])
  BY DEF ConsumerRestarts, QueueInv, TypeOK, workerVars
<1>2. LogsOf(e) \in Nat /\ Cardinality(Past(e)) \in Nat /\ Cardinality(Past(e)) <= LogsOf(e)
  BY CountsAreNumbers
<1>3. LogsOf(e)' = LogsOf(e)
  BY <1>1 DEF LogsOf
<1>4. Cardinality(Past(e)') \in Nat
  <2>1. IsFiniteSet(1..position'[e]) /\ Past(e)' \in SUBSET (1..position'[e])
    BY <1>1, FS_Interval DEF Past
  <2> QED
    BY <2>1, FS_Subset, FS_CardinalityType
<1>5. restarts \in Nat /\ emitted[e] \in Nat /\ unpersisted[e] \in Nat /\ persisted[e] \in Nat
  BY DEF QueueInv, TypeOK
<1>6. /\ LogsOf(e) * (restarts + 1) = LogsOf(e) * restarts + LogsOf(e)
      /\ LogsOf(e) * restarts \in Nat
  BY <1>2, <1>5
<1>7. /\ unpersisted[e] + persisted[e] <= emitted[e]
      /\ emitted[e] <= LogsOf(e) * restarts + Cardinality(Past(e))
  BY DEF Counted
<1>8. unpersisted'[e] + persisted'[e] <= emitted'[e]
  BY <1>1, <1>5, <1>7
<1>9. emitted'[e] <= LogsOf(e)' * restarts' + Cardinality(Past(e)')
  BY <1>1, <1>2, <1>3, <1>4, <1>5, <1>6, <1>7
<1> QED
  BY <1>8, <1>9 DEF Counted

\* Steps that are not about the logs of an execution, and do not take its consumer back.
LEMMA CountsUntouched ==
  ASSUME QueueInv, NEW e \in Executions, NEW f \in Executions,
         Caller(e) \/ Worker(e) \/ Consumer(e) \/ Reader(e) \/ StopWorkflowExecution(e),
         f = e => ~ApplyLog(e) /\ ~ConsumerRestarts(e)
  PROVE  /\ position[f] <= position'[f]
         /\ restarts <= restarts'
         /\ emitted'[f] = emitted[f]
         /\ unpersisted'[f] + persisted'[f] <= unpersisted[f] + persisted[f]
<1>t. /\ position \in [Executions -> Nat] /\ restarts \in Nat
      /\ emitted \in [Executions -> Nat] /\ unpersisted \in [Executions -> Nat]
      /\ persisted \in [Executions -> Nat]
  BY DEF QueueInv, TypeOK
<1>1. CASE Caller(e)
  <2>1. UNCHANGED <<position, restarts, logVars>>
    BY <1>1 DEF Caller, CreateTracker, CreateTrackerFails, DriveFails, Enqueue,
       EnqueueResolves, EnqueueRejects, FinalizeUnpublished, ClientAborts, ReadBeforeAnswer,
       WriteAnswer, CallerDies, consumerVars
  <2> QED
    BY <1>t, <2>1 DEF logVars
<1>2. CASE Worker(e)
  <2>1. UNCHANGED <<position, logVars>> /\ restarts' \in {restarts, restarts + 1}
    BY <1>2 DEF Worker, StartRun, PushLog, LogPublished, Finish, StartupFails, PublishTerminal,
       WorkerCrashes, RequestRedelivered, consumerVars
  <2> QED
    BY <1>t, <2>1 DEF logVars
<1>3. CASE Reader(e) \/ StopWorkflowExecution(e)
  <2>1. UNCHANGED <<position, restarts, logVars>>
    BY <1>3 DEF Reader, TimeoutElapses, ListStalled, CheckStalled, WriteStalled,
       StopWorkflowExecution, consumerVars
  <2> QED
    BY <1>t, <2>1 DEF logVars
<1>4. CASE ReadForApply(e) \/ ReadForApplyFails(e) \/ WriteStarted(e) \/ WriteTerminal(e)
             \/ WriteFails(e) \/ CommitOffset(e)
  <2>1. UNCHANGED <<restarts, logVars>>
    BY <1>4 DEF ReadForApply, ReadForApplyFails, WriteStarted, WriteTerminal, WriteFails,
       CommitOffset
  <2>2. position' \in {position, [position EXCEPT ![e] = @ + 1]}
    BY <1>4 DEF ReadForApply, ReadForApplyFails, WriteStarted, WriteTerminal, WriteFails,
       CommitOffset, Advance
  <2> QED
    BY <1>t, <2>1, <2>2 DEF logVars
<1>5. CASE LogInsertEnds(e)
  BY <1>t, <1>5 DEF LogInsertEnds, consumerVars
<1>6. CASE ApplyLog(e)
  BY <1>t, <1>6 DEF ApplyLog, Advance
<1>7. CASE ConsumerRestarts(e)
  BY <1>t, <1>7 DEF ConsumerRestarts
<1> QED
  BY <1>1, <1>2, <1>3, <1>4, <1>5, <1>6, <1>7 DEF Consumer

\* A log event has at most one log row per emission, and one emission per restart.
THEOREM LogsAreCounted == Spec => []LogsOncePerRestart
<1>1. Init => CountInv
  <2> SUFFICES ASSUME Init, NEW e \in Executions PROVE Counted(e)
    BY DEF CountInv
  <2>1. QueueInv
    BY InitQueueInv
  <2>2. LogsOf(e) \in Nat /\ Cardinality(Past(e)) \in Nat
    BY <2>1, CountsAreNumbers
  <2>3. restarts = 0 /\ emitted[e] = 0 /\ unpersisted[e] = 0 /\ persisted[e] = 0
    BY DEF Init
  <2> QED
    BY <2>2, <2>3 DEF Counted
<1>2. QueueInv /\ CountInv /\ [Next]_vars => CountInv'
  <2>1. ASSUME QueueInv, CountInv, NEW e \in Executions, NEW f \in Executions,
               Caller(e) \/ Worker(e) \/ Consumer(e) \/ Reader(e) \/ StopWorkflowExecution(e)
        PROVE  Counted(f)'
    <3>1. QueueInv' /\ TopicExtended
      BY <2>1, QueueInvStep, TopicStep
    <3>2. Counted(f)
      BY <2>1 DEF CountInv
    <3>3. CASE f = e /\ ApplyLog(e)
      BY <2>1, <3>2, <3>3, ApplyLogKeepsCount
    <3>4. CASE f = e /\ ConsumerRestarts(e)
      BY <2>1, <3>1, <3>2, <3>4, RestartKeepsCount
    <3>5. CASE f = e => ~ApplyLog(e) /\ ~ConsumerRestarts(e)
      BY <2>1, <3>1, <3>2, <3>5, CountsUntouched, QuietKeepsCount
    <3> QED
      BY <3>3, <3>4, <3>5
  <2>2. CountInv /\ UNCHANGED vars => CountInv'
    BY DEF CountInv, Counted, LogsOf, Past, vars, workerVars, consumerVars, logVars
  <2> QED
    BY <2>1, <2>2 DEF CountInv, Next
<1>3. QueueInv /\ CountInv => LogsOncePerRestart
  <2> SUFFICES ASSUME QueueInv, CountInv, NEW e \in Executions
               PROVE  /\ unpersisted[e] + persisted[e] <= emitted[e]
                      /\ emitted[e] <= LogsOf(e) * (restarts + 1)
    BY DEF LogsOncePerRestart
  <2>1. LogsOf(e) \in Nat /\ Cardinality(Past(e)) \in Nat /\ Cardinality(Past(e)) <= LogsOf(e)
    BY CountsAreNumbers
  <2>2. restarts \in Nat /\ emitted[e] \in Nat
    BY DEF QueueInv, TypeOK
  <2>3. /\ LogsOf(e) * (restarts + 1) = LogsOf(e) * restarts + LogsOf(e)
        /\ LogsOf(e) * restarts \in Nat
    BY <2>1, <2>2
  <2> QED
    BY <2>1, <2>2, <2>3 DEF CountInv, Counted
<1> QED
  BY <1>1, <1>2, <1>3, QueueInvariant, PTL DEF Spec
==================================================================================
