----------------------- MODULE WorkflowQueuePromiseProofs -----------------------
(***************************************************************************)
(* Proofs about WorkflowQueuePromise: what the queue keeps to for every    *)
(* set of executions, every bound and every set of faults, and the sets of *)
(* faults under which it never takes a promise back.                       *)
(***************************************************************************)
EXTENDS WorkflowQueuePromise, WorkflowQueueProofs

\* The sets of control states are enumerations: the provers may always see them.
USE DEF CallStates, RunStates, Outcomes

-------------------------------------------------------------------------------
(* The history variables are only history: what holds of the queue holds here. *)

LEMMA PromiseStepIsQueueStep ==
  [PromiseNext]_promiseVars => [Next]_vars
  BY DEF PromiseNext, Step, Next, promiseVars

\* The behaviours of the queue with its history are behaviours of the queue, so that its
\* invariants hold in them.
THEOREM HistoryAddsNothing == PromiseSpec => Spec /\ [](QueueInv /\ OrderedInv)
<1>1. PromiseInit => Init
  BY DEF PromiseInit
<1> QED
  BY <1>1, PromiseStepIsQueueStep, OrderedInvariant, PTL DEF PromiseSpec, Spec

-------------------------------------------------------------------------------
(* One outcome. *)

\* While the promise stands: at most one outcome is published, the last event but for logs
\* and not before the run is over; a settled row has nothing more to come; and no row is
\* cancelled.
OneOutcome(e) ==
  /\ run[e] \notin {"done", "lost"} => \A i \in 1..Len(topic[e]) : topic[e][i] \notin Outcomes
  /\ \A i, j \in 1..Len(topic[e]) :
       i < j /\ topic[e][i] \in Outcomes => topic[e][j] = "log"
  /\ row[e].status \in Outcomes => NothingToCome(e)
  /\ row[e].status # "cancelled"

OneOutcomeInv == \A e \in Executions \ disowned : OneOutcome(e)

LEMMA AppendedTopic ==
  ASSUME QueueInv, NEW e \in Executions, NEW event \in Events, Publish(e, event)
  PROVE  /\ Len(topic[e]) \in Nat /\ Len(topic'[e]) = Len(topic[e]) + 1
         /\ topic'[e][Len(topic[e]) + 1] = event
         /\ \A i \in 1..Len(topic[e]) : topic'[e][i] = topic[e][i]
<1>1. topic \in [Executions -> Seq(Events)]
  BY DEF QueueInv, TypeOK
<1>2. topic'[e] = Append(topic[e], event) /\ topic[e] \in Seq(Events)
  BY <1>1 DEF Publish
<1> QED
  BY <1>2

LEMMA PublishKeepsOneOutcome ==
  ASSUME QueueInv, NEW e \in Executions, OneOutcome(e), NEW event \in Events,
         Publish(e, event) \/ UNCHANGED topic,
         UNCHANGED <<row, call, position>>, run' \in [Executions -> RunStates],
         \/ event = "log" /\ run'[e] = run[e]
         \/ event = "started" /\ run[e] = "requested" /\ run'[e] = "executing"
         \/ event \in Outcomes /\ run[e] \in Outcomes /\ run'[e] = "done"
  PROVE  OneOutcome(e)'
<1>1. CASE Publish(e, event)
  <2>1. /\ Len(topic[e]) \in Nat /\ Len(topic'[e]) = Len(topic[e]) + 1
        /\ topic'[e][Len(topic[e]) + 1] = event
        /\ \A i \in 1..Len(topic[e]) : topic'[e][i] = topic[e][i]
    BY <1>1, AppendedTopic
  <2>2. position[e] \in Nat /\ position[e] <= Len(topic[e])
    BY DEF QueueInv, TypeOK
  <2>3. ASSUME run'[e] \notin {"done", "lost"}, NEW i \in 1..Len(topic'[e])
        PROVE  topic'[e][i] \notin Outcomes
    <3>1. run[e] \notin {"done", "lost"} /\ event \notin Outcomes
      BY <2>3
    <3>2. i \in 1..Len(topic[e]) \/ i = Len(topic[e]) + 1
      BY <2>1
    <3> QED
      BY <2>1, <3>1, <3>2 DEF OneOutcome
  <2>4. ASSUME NEW i \in 1..Len(topic'[e]), NEW j \in 1..Len(topic'[e]), i < j,
               topic'[e][i] \in Outcomes
        PROVE  topic'[e][j] = "log"
    <3>1. i \in 1..Len(topic[e]) /\ topic[e][i] \in Outcomes
      BY <2>1, <2>4
    <3>2. CASE j \in 1..Len(topic[e])
      BY <2>1, <2>4, <3>1, <3>2 DEF OneOutcome
    <3>3. CASE j = Len(topic[e]) + 1
      <4>1. run[e] \in {"done", "lost"}
        BY <3>1 DEF OneOutcome
      <4> QED
        BY <2>1, <3>3, <4>1
    <3> QED
      BY <2>1, <3>2, <3>3
  <2>5. row'[e].status \in Outcomes => NothingToCome(e)'
    <3> SUFFICES ASSUME row[e].status \in Outcomes PROVE NothingToCome(e)'
      OBVIOUS
    <3>1. /\ call[e] # "tracked" /\ run[e] \in {"none", "done", "lost"}
          /\ \A i \in (position[e] + 1)..Len(topic[e]) : topic[e][i] = "log"
      BY DEF OneOutcome, NothingToCome
    <3>2. event = "log" /\ run'[e] = run[e]
      BY <3>1
    <3>3. ASSUME NEW i \in (position[e] + 1)..Len(topic'[e]) PROVE topic'[e][i] = "log"
      <4>1. i \in (position[e] + 1)..Len(topic[e]) \/ i = Len(topic[e]) + 1
        BY <2>1, <2>2
      <4>2. CASE i \in (position[e] + 1)..Len(topic[e])
        <5>1. i \in 1..Len(topic[e])
          BY <2>2, <4>2
        <5> QED
          BY <2>1, <3>1, <4>2, <5>1
      <4> QED
        BY <2>1, <3>2, <4>1, <4>2
    <3> QED
      BY <3>1, <3>2, <3>3 DEF NothingToCome
  <2>6. row'[e].status # "cancelled"
    BY DEF OneOutcome
  <2> QED
    BY <2>3, <2>4, <2>5, <2>6 DEF OneOutcome
<1>2. CASE UNCHANGED topic
  <2>1. run[e] \in {"done", "lost"} \/ run'[e] \notin {"done", "lost"} \/ run[e] \in Outcomes
    OBVIOUS
  <2>2. run'[e] \notin {"done", "lost"} => run[e] \notin {"done", "lost"}
    OBVIOUS
  <2>3. run[e] \in {"none", "done", "lost"} => run'[e] = run[e]
    OBVIOUS
  <2> QED
    BY <1>2, <2>2, <2>3 DEF OneOutcome, NothingToCome
<1> QED
  BY <1>1, <1>2

\* An aside decision, when it takes nothing back, finds nothing to come and fails the row.
LEMMA AsideIsVerdict ==
  ASSUME NEW e \in Executions, row' # row, ~TakesBack(e),
         FinalizeUnpublished(e) \/ WriteStalled(e) \/ StopWorkflowExecution(e)
  PROVE  /\ NothingToCome(e) /\ row[e].status \in Active \cup {"failed"}
         /\ row'[e].status = "failed"
  BY DEF TakesBack, DecidesAside, RightVerdict

\* A stop of an execution that is not cancelled takes the promise back.
LEMMA StopTakesBack ==
  ASSUME QueueInv, NEW e \in Executions, OneOutcome(e), StopWorkflowExecution(e)
  PROVE  TakesBack(e)
<1>1. row' = [row EXCEPT ![e] = [row[e] EXCEPT !.status = "cancelled"]]
        /\ row \in [Executions -> Rows]
  BY DEF StopWorkflowExecution, QueueInv, TypeOK
<1>2. row'[e].status = "cancelled"
  BY <1>1 DEF Rows
<1>3. row' # row
  BY <1>2 DEF OneOutcome
<1> QED
  BY <1>2, <1>3 DEF TakesBack, DecidesAside, RightVerdict

LEMMA CallerKeepsOneOutcome ==
  ASSUME QueueInv, OrderedInv, NEW e \in Executions, OneOutcome(e), ~TakesBack(e), Caller(e)
  PROVE  OneOutcome(e)'
<1>1. UNCHANGED <<topic, position>>
  BY DEF Caller, CreateTracker, CreateTrackerFails, DriveFails, Enqueue,
     EnqueueResolves, EnqueueRejects, FinalizeUnpublished, ClientAborts, ReadBeforeAnswer,
     WriteAnswer, CallerDies, workerVars, consumerVars
<1>2. /\ Ordered(e) /\ call \in [Executions -> CallStates] /\ run \in [Executions -> RunStates]
  BY DEF OrderedInv, QueueInv, TypeOK
<1>3. CASE CreateTracker(e)
  <2>1. run' = run /\ topic[e] = <<>> /\ row'[e].status = "queued"
    BY <1>2, <1>3, CreateTrackerStatus DEF CreateTracker, Ordered, workerVars
  <2> QED
    BY <1>1, <2>1 DEF OneOutcome
<1>4. CASE Enqueue(e)
  <2>1. topic[e] = <<>> /\ call[e] = "tracked" /\ row' = row
    BY <1>2, <1>4 DEF Enqueue, Ordered
  <2>2. row[e].status \notin Outcomes
    BY <2>1 DEF OneOutcome, NothingToCome
  <2> QED
    BY <1>1, <2>1, <2>2 DEF OneOutcome
<1>5. CASE FinalizeUnpublished(e)
  <2>1. run' = run /\ call'[e] = "errored"
    BY <1>2, <1>5 DEF FinalizeUnpublished, workerVars
  <2>2. NothingToCome(e) => NothingToCome(e)'
    BY <1>1, <2>1 DEF NothingToCome
  <2>3. CASE row' = row
    BY <1>1, <2>1, <2>2, <2>3 DEF OneOutcome
  <2>4. CASE row' # row
    <3>1. NothingToCome(e) /\ row'[e].status = "failed"
      BY <1>5, <2>4, AsideIsVerdict
    <3> QED
      BY <1>1, <2>1, <2>2, <3>1 DEF OneOutcome
  <2> QED
    BY <2>3, <2>4
<1>6. CASE ~CreateTracker(e) /\ ~Enqueue(e) /\ ~FinalizeUnpublished(e)
  <2>1. run' = run /\ call'[e] # "tracked"
    BY <1>2, <1>6 DEF Caller, CreateTrackerFails, DriveFails, EnqueueResolves, EnqueueRejects,
       ClientAborts, ReadBeforeAnswer, WriteAnswer, CallerDies, workerVars
  <2>2. row'[e].status = row[e].status
    <3>1. ~WriteStarted(e) /\ ~WriteTerminal(e)
      BY <1>1 DEF WriteStarted, WriteTerminal, Advance, QueueInv, TypeOK
    <3>2. (~WriteStalled(e) /\ ~StopWorkflowExecution(e)) \/ row' = row
      <4>1. CASE WriteAnswer(e)
        <5>1. call' # call
          BY <1>2, <4>1 DEF WriteAnswer
        <5> QED
          BY <5>1 DEF WriteStalled, StopWorkflowExecution, callVars
      <4>2. CASE ~WriteAnswer(e)
        BY <1>6, <4>2 DEF Caller, CreateTrackerFails, DriveFails, EnqueueResolves,
           EnqueueRejects, ClientAborts, ReadBeforeAnswer, CallerDies
      <4> QED
        BY <4>1, <4>2
    <3> QED
      BY <1>6, <3>1, <3>2, RowStep DEF RowWritten
  <2>3. NothingToCome(e) => NothingToCome(e)'
    BY <1>1, <2>1 DEF NothingToCome
  <2> QED
    BY <1>1, <2>1, <2>2, <2>3 DEF OneOutcome
<1> QED
  BY <1>3, <1>4, <1>5, <1>6

LEMMA WorkerKeepsOneOutcome ==
  ASSUME QueueInv, NEW e \in Executions, OneOutcome(e), ~TakesBack(e), Worker(e)
  PROVE  OneOutcome(e)'
<1>1. UNCHANGED <<row, position>>
  BY DEF Worker, StartRun, PushLog, LogPublished, Finish, StartupFails, PublishTerminal,
     WorkerCrashes, RequestRedelivered, consumerVars
<1>2. run \in [Executions -> RunStates] /\ run' \in [Executions -> RunStates]
  BY QueueInvStep DEF QueueInv, TypeOK
<1>3. CASE StartRun(e)
  <2>1. (Publish(e, "started") \/ UNCHANGED topic) /\ run[e] = "requested"
          /\ run'[e] = "executing" /\ call' = call
    BY <1>2, <1>3 DEF StartRun, callVars
  <2> QED
    BY <1>1, <1>2, <2>1, PublishKeepsOneOutcome DEF Events
<1>4. CASE LogPublished(e)
  <2>1. (Publish(e, "log") \/ UNCHANGED topic) /\ run'[e] = run[e] /\ call' = call
    BY <1>4 DEF LogPublished, callVars
  <2> QED
    BY <1>1, <1>2, <2>1, PublishKeepsOneOutcome DEF Events
<1>5. CASE PublishTerminal(e)
  <2>1. (Publish(e, run[e]) \/ UNCHANGED topic) /\ run[e] \in Outcomes /\ run'[e] = "done"
          /\ call' = call
    BY <1>2, <1>5 DEF PublishTerminal, callVars
  <2> QED
    BY <1>1, <1>2, <2>1, PublishKeepsOneOutcome DEF Events
<1>6. CASE PushLog(e)
  <2>1. UNCHANGED <<run, topic, call>>
    BY <1>6 DEF PushLog, callVars
  <2> QED
    BY <1>1, <2>1 DEF OneOutcome, NothingToCome
<1>7. CASE (\E outcome \in Outcomes : Finish(e, outcome)) \/ StartupFails(e) \/ WorkerCrashes(e)
  <2>1. /\ topic' = topic /\ run[e] \notin {"none", "done", "lost"}
        /\ run'[e] \in Outcomes \cup {"lost"}
    BY <1>2, <1>7 DEF Finish, StartupFails, WorkerCrashes
  <2>2. row[e].status \notin Outcomes
    BY <2>1 DEF OneOutcome, NothingToCome
  <2> QED
    BY <1>1, <2>1, <2>2 DEF OneOutcome
<1>8. CASE RequestRedelivered(e)
  <2>1. topic' = topic
    BY <1>8 DEF RequestRedelivered
  <2>2. row[e].status \in Active /\ Published(e) \cap Outcomes = {}
    BY <1>8 DEF TakesBack
  <2>3. \A i \in 1..Len(topic[e]) : topic[e][i] \notin Outcomes
    BY <2>2 DEF Published
  <2> QED
    BY <1>1, <2>1, <2>2, <2>3 DEF OneOutcome, Active
<1> QED
  BY <1>3, <1>4, <1>5, <1>6, <1>7, <1>8 DEF Worker

LEMMA ConsumerKeepsOneOutcome ==
  ASSUME QueueInv, OrderedInv, NEW e \in Executions, OneOutcome(e), ~TakesBack(e), Consumer(e)
  PROVE  OneOutcome(e)'
<1>1. UNCHANGED <<run, topic>>
  BY DEF Consumer, ApplyLog, LogInsertEnds, ReadForApply, ReadForApplyFails,
     WriteStarted, WriteTerminal, WriteFails, CommitOffset, ConsumerRestarts, workerVars
<1>2. call[e] # "tracked" => call'[e] # "tracked"
  BY DEF Consumer, ApplyLog, LogInsertEnds, ReadForApply, ReadForApplyFails,
     WriteStarted, WriteTerminal, WriteFails, CommitOffset, ConsumerRestarts,
     ResolveCompletion, QueueInv, TypeOK, callVars
<1>3. /\ position[e] \in Nat /\ position[e] <= Len(topic[e]) /\ Len(topic[e]) \in Nat
      /\ committed[e] \in Nat /\ committed[e] <= position[e]
  BY DEF QueueInv, TypeOK
<1>4. SUFFICES /\ row'[e].status \in Outcomes => NothingToCome(e)'
               /\ row'[e].status # "cancelled"
  BY <1>1 DEF OneOutcome
<1>5. CASE WriteStarted(e)
  BY <1>5, WriteStartedStatus
<1>6. CASE WriteTerminal(e)
  <2>1. /\ position'[e] = position[e] + 1 /\ position[e] + 1 \in 1..Len(topic[e])
        /\ topic[e][position[e] + 1] \in Outcomes /\ row'[e].status \in Outcomes
    <3>1. apply[e] = "writing" /\ position' = [position EXCEPT ![e] = @ + 1]
      BY <1>6 DEF WriteTerminal, Advance
    <3>2. position[e] < Len(topic[e]) /\ position'[e] = position[e] + 1
      BY <3>1 DEF QueueInv, TypeOK, EventPending, HasEvent
    <3>3. NextEvent(e) \in Outcomes /\ row'[e].status = NextEvent(e)
      BY <1>6, WriteTerminalStatus
    <3> QED
      BY <1>3, <3>2, <3>3 DEF NextEvent
  <2>2. run[e] \in {"done", "lost"}
    BY <2>1 DEF OneOutcome
  <2>3. call[e] # "tracked"
    BY <2>2 DEF OrderedInv, Ordered
  <2>4. \A i \in (position[e] + 2)..Len(topic[e]) : topic[e][i] = "log"
    <3> SUFFICES ASSUME NEW i \in (position[e] + 2)..Len(topic[e]) PROVE topic[e][i] = "log"
      OBVIOUS
    <3>1. i \in 1..Len(topic[e]) /\ position[e] + 1 < i
      BY <1>3
    <3> QED
      BY <2>1, <3>1 DEF OneOutcome
  <2>5. NothingToCome(e)'
    BY <1>1, <1>2, <1>3, <2>1, <2>2, <2>3, <2>4 DEF NothingToCome
  <2> QED
    BY <2>1, <2>5
<1>7. CASE ConsumerRestarts(e)
  <2>1. row' = row /\ position'[e] = committed[e]
    BY <1>7 DEF ConsumerRestarts, QueueInv, TypeOK
  <2>2. CASE row[e].status \in Outcomes
    <3>1. Uncommitted(e) \ {"log"} = {}
      BY <1>7, <2>2 DEF TakesBack, Active
    <3>2. ASSUME NEW i \in (committed[e] + 1)..Len(topic[e]) PROVE topic[e][i] = "log"
      <4>1. i \in (committed[e] + 1)..position[e] \/ i \in (position[e] + 1)..Len(topic[e])
        BY <1>3
      <4>2. i \in (position[e] + 1)..Len(topic[e]) => topic[e][i] = "log"
        BY <2>2 DEF OneOutcome, NothingToCome
      <4>3. i \in (committed[e] + 1)..position[e] => topic[e][i] \in Uncommitted(e)
        BY DEF Uncommitted
      <4> QED
        BY <3>1, <4>1, <4>2, <4>3
    <3>3. call[e] # "tracked" /\ run[e] \in {"none", "done", "lost"}
      BY <2>2 DEF OneOutcome, NothingToCome
    <3> QED
      BY <1>1, <1>2, <2>1, <2>2, <3>2, <3>3 DEF NothingToCome
  <2> QED
    BY <2>1, <2>2 DEF OneOutcome
<1>8. CASE ~WriteStarted(e) /\ ~WriteTerminal(e) /\ ~ConsumerRestarts(e)
  <2>1. row' = row /\ position' \in {position, [position EXCEPT ![e] = @ + 1]}
    BY <1>8 DEF Consumer, ApplyLog, LogInsertEnds, ReadForApply, ReadForApplyFails,
       WriteFails, CommitOffset, Advance, consumerVars
  <2>2. \A i \in (position'[e] + 1)..Len(topic[e]) : i \in (position[e] + 1)..Len(topic[e])
    <3>1. position'[e] \in {position[e], position[e] + 1}
      BY <2>1 DEF QueueInv, TypeOK
    <3> QED
      BY <1>3, <3>1
  <2>3. NothingToCome(e) => NothingToCome(e)'
    BY <1>1, <1>2, <2>2 DEF NothingToCome
  <2> QED
    BY <2>1, <2>3 DEF OneOutcome
<1> QED
  BY <1>5, <1>6, <1>7, <1>8

LEMMA ReaderKeepsOneOutcome ==
  ASSUME QueueInv, NEW e \in Executions, OneOutcome(e), ~TakesBack(e),
         Reader(e) \/ StopWorkflowExecution(e)
  PROVE  OneOutcome(e)'
<1>1. UNCHANGED <<call, run, topic, position>>
  BY DEF Reader, TimeoutElapses, ListStalled, CheckStalled, WriteStalled,
     StopWorkflowExecution, callVars, workerVars, consumerVars
<1>2. NothingToCome(e)' <=> NothingToCome(e)
  BY <1>1 DEF NothingToCome
<1>3. CASE row' = row
  BY <1>1, <1>2, <1>3 DEF OneOutcome
<1>4. CASE row' # row
  <2>1. WriteStalled(e) \/ StopWorkflowExecution(e)
    BY <1>4 DEF Reader, TimeoutElapses, ListStalled, CheckStalled
  <2>2. NothingToCome(e) /\ row'[e].status = "failed"
    BY <1>4, <2>1, AsideIsVerdict
  <2> QED
    BY <1>1, <1>2, <2>2 DEF OneOutcome
<1> QED
  BY <1>3, <1>4

LEMMA StepKeepsOneOutcome ==
  ASSUME QueueInv, OrderedInv, NEW e \in Executions, OneOutcome(e), ~TakesBack(e), Step(e)
  PROVE  OneOutcome(e)'
  BY CallerKeepsOneOutcome, WorkerKeepsOneOutcome, ConsumerKeepsOneOutcome,
     ReaderKeepsOneOutcome DEF Step

\* For every set of faults, of every execution whose promise was not taken back.
THEOREM OneOutcomeInvariant == PromiseSpec => []OneOutcomeInv
<1>1. PromiseInit => OneOutcomeInv
  <2> SUFFICES ASSUME PromiseInit, NEW e \in Executions PROVE OneOutcome(e)
    BY DEF OneOutcomeInv
  <2>1. row[e].status = "absent" /\ topic[e] = <<>>
    BY DEF PromiseInit, Init, AbsentRow
  <2> QED
    BY <2>1 DEF OneOutcome
<1>2. QueueInv /\ OrderedInv /\ OneOutcomeInv /\ [PromiseNext]_promiseVars => OneOutcomeInv'
  <2>1. ASSUME QueueInv, OrderedInv, OneOutcomeInv, NEW e \in Executions, Step(e), Record(e)
        PROVE  OneOutcomeInv'
    <3> SUFFICES ASSUME NEW f \in Executions, f \notin disowned' PROVE OneOutcome(f)'
      BY DEF OneOutcomeInv
    <3>1. f \notin disowned /\ (f = e => ~TakesBack(e))
      BY <2>1 DEF Record
    <3>2. OneOutcome(f)
      BY <2>1, <3>1 DEF OneOutcomeInv
    <3>3. CASE f = e
      BY <2>1, <3>1, <3>2, <3>3, StepKeepsOneOutcome
    <3>4. CASE f # e
      <4>1. Untouched(f)
        BY <2>1, <3>4, StepTouchesOne DEF Step
      <4> QED
        BY <3>2, <4>1 DEF Untouched, OneOutcome, NothingToCome
    <3> QED
      BY <3>3, <3>4
  <2>2. OneOutcomeInv /\ UNCHANGED promiseVars => OneOutcomeInv'
    BY DEF OneOutcomeInv, OneOutcome, NothingToCome, promiseVars, vars, callVars, workerVars,
       consumerVars
  <2> QED
    BY <2>1, <2>2 DEF PromiseNext
<1> QED
  BY HistoryAddsNothing, <1>1, <1>2, PTL DEF PromiseSpec

-------------------------------------------------------------------------------
(* Settling once: the queue implements ExecutionLifecycle. *)

\* A step that does not take the promise back is a step of the lifecycle, or none.
LEMMA StepIsLifecycleStep ==
  ASSUME QueueInv, OrderedInv, NEW e \in Executions, OneOutcome(e), ~TakesBack(e), Step(e)
  PROVE  \/ Outcome(e)' = Outcome(e)
         \/ Outcome(e) = "absent" /\ Outcome(e)' = "active"
         \/ Outcome(e) = "active" /\ Outcome(e)' \in Outcomes
<1>1. Ordered(e) /\ row[e].status \in Statuses
  BY DEF OrderedInv, QueueInv, TypeOK, Rows
<1>2. CASE row'[e].status = row[e].status
  BY <1>2 DEF Outcome
<1>3. CASE CreateTracker(e)
  <2>1. row[e].status = "absent" /\ row'[e].status = "queued"
    BY <1>1, <1>3, CreateTrackerStatus DEF CreateTracker, Ordered
  <2> QED
    BY <2>1 DEF Outcome, Active
<1>4. CASE row' # row /\ (FinalizeUnpublished(e) \/ WriteStalled(e) \/ StopWorkflowExecution(e))
  <2>1. row[e].status \in Active \cup {"failed"} /\ row'[e].status = "failed"
    BY <1>4, AsideIsVerdict
  <2> QED
    BY <2>1 DEF Outcome, Active
<1>5. CASE WriteStarted(e) \/ WriteTerminal(e)
  <2>1. /\ position[e] \in Nat /\ Len(topic[e]) \in Nat /\ position[e] < Len(topic[e])
        /\ topic[e][position[e] + 1] # "log"
    BY <1>5 DEF WriteStarted, WriteTerminal, QueueInv, TypeOK, EventPending, HasEvent, NextEvent
  <2>2. row[e].status \notin Outcomes
    <3>1. position[e] + 1 \in (position[e] + 1)..Len(topic[e])
      BY <2>1
    <3>2. ~NothingToCome(e)
      BY <2>1, <3>1 DEF NothingToCome
    <3> QED
      BY <3>2 DEF OneOutcome
  <2>3. row[e].status # "absent"
    <3>1. topic[e] # <<>>
      BY <2>1
    <3> QED
      BY <1>1, <3>1 DEF Ordered
  <2>4. row[e].status \in Active
    BY <1>1, <2>2, <2>3 DEF Statuses, OneOutcome
  <2>5. row'[e].status = "running" \/ row'[e].status \in Outcomes
    BY <1>5, WriteStartedStatus, WriteTerminalStatus
  <2> QED
    BY <2>4, <2>5 DEF Outcome, Active
<1> QED
  BY <1>2, <1>3, <1>4, <1>5, RowStep DEF RowWritten, Step

\* The queue implements ExecutionLifecycle for every set of faults: an execution settles at
\* most once and stays settled, until a step takes its promise back, and no other
\* execution's.
THEOREM SettlesOnce == PromiseSpec => LifecycleSpec
<1> DEFINE state == [e \in Executions |-> PromisedOutcome(e)]
<1>1. PromiseInit => Lifecycle!Init
  BY DEF PromiseInit, Init, Lifecycle!Init, PromisedOutcome, Outcome, AbsentRow, Active
<1>2. QueueInv /\ OrderedInv /\ OneOutcomeInv /\ [PromiseNext]_promiseVars
        => [Lifecycle!Next]_state
  <2> SUFFICES ASSUME QueueInv, OrderedInv, OneOutcomeInv, [PromiseNext]_promiseVars
               PROVE  [Lifecycle!Next]_state
    OBVIOUS
  <2>1. CASE UNCHANGED promiseVars
    BY <2>1 DEF promiseVars, vars, PromisedOutcome, Outcome
  <2>2. CASE PromiseNext
    <3>1. PICK e \in Executions : Step(e) /\ Record(e)
      BY <2>2 DEF PromiseNext
    <3>2. disowned' = IF TakesBack(e) THEN disowned \cup {e} ELSE disowned
      BY <3>1 DEF Record
    <3>3. \A f \in Executions \ {e} : PromisedOutcome(f)' = PromisedOutcome(f)
      BY <3>1, <3>2, RowStep DEF PromisedOutcome, Outcome, Step
    <3>4. state' = [state EXCEPT ![e] = PromisedOutcome(e)'] /\ state[e] = PromisedOutcome(e)
      BY <3>3
    <3>5. CASE e \in disowned
      <4>1. PromisedOutcome(e)' = PromisedOutcome(e)
        BY <3>2, <3>5 DEF PromisedOutcome
      <4> QED
        BY <3>4, <4>1
    <3>6. CASE e \notin disowned /\ TakesBack(e)
      <4>1. PromisedOutcome(e)' = "disowned"
        BY <3>2, <3>6 DEF PromisedOutcome
      <4>2. CASE PromisedOutcome(e) = "disowned"
        BY <3>4, <4>1, <4>2
      <4>3. CASE PromisedOutcome(e) # "disowned"
        <5>1. Lifecycle!Disown(e)
          BY <3>4, <4>1, <4>3 DEF Lifecycle!Disown
        <5> QED
          BY <5>1 DEF Lifecycle!Next
      <4> QED
        BY <4>2, <4>3
    <3>7. CASE e \notin disowned /\ ~TakesBack(e)
      <4>1. PromisedOutcome(e) = Outcome(e) /\ PromisedOutcome(e)' = Outcome(e)'
        BY <3>2, <3>7 DEF PromisedOutcome
      <4>2. OneOutcome(e)
        BY <3>7 DEF OneOutcomeInv
      <4>3. CASE Outcome(e)' = Outcome(e)
        BY <3>4, <4>1, <4>3
      <4>4. CASE Outcome(e) = "absent" /\ Outcome(e)' = "active"
        <5>1. Lifecycle!Create(e)
          BY <3>4, <4>1, <4>4 DEF Lifecycle!Create
        <5> QED
          BY <5>1 DEF Lifecycle!Next
      <4>5. CASE Outcome(e) = "active" /\ Outcome(e)' \in Outcomes
        <5>1. Lifecycle!Settle(e, Outcome(e)')
          BY <3>4, <4>1, <4>5 DEF Lifecycle!Settle
        <5> QED
          BY <4>5, <5>1 DEF Lifecycle!Next
      <4> QED
        BY <3>1, <3>7, <4>2, <4>3, <4>4, <4>5, StepIsLifecycleStep
    <3> QED
      BY <3>5, <3>6, <3>7
  <2> QED
    BY <2>1, <2>2
<1> QED
  BY HistoryAddsNothing, OneOutcomeInvariant, <1>1, <1>2, PTL
     DEF PromiseSpec, LifecycleSpec, Lifecycle!Spec

\* Only the consumer's started event makes a row run that was not active, and that takes
\* nothing back by itself.
LEMMA RunsAgain ==
  ASSUME QueueInv, NEW e \in Executions, Step(e),
         row'[e].status = "running", row[e].status \notin Active
  PROVE  WriteStarted(e) /\ ~TakesBack(e)
<1>1. WriteStarted(e)
  <2>1. row'[e].status # row[e].status
    BY DEF Active
  <2>2. ~WriteTerminal(e)
    BY WriteTerminalStatus
  <2> QED
    BY <2>1, <2>2, RowStep DEF RowWritten, Step
<1>2. position'[e] # position[e]
  BY <1>1 DEF WriteStarted, Advance, QueueInv, TypeOK
<1>3. row' # row
  BY DEF Active
<1>4. ~RequestRedelivered(e) /\ ~ConsumerRestarts(e)
  BY <1>3 DEF RequestRedelivered, ConsumerRestarts
<1>5. ~FinalizeUnpublished(e) /\ ~WriteStalled(e) /\ ~StopWorkflowExecution(e)
  BY <1>2 DEF FinalizeUnpublished, WriteStalled, StopWorkflowExecution, consumerVars
<1> QED
  BY <1>1, <1>4, <1>5 DEF TakesBack, DecidesAside

\* The dropped expectedStatuses of transitionRecord matter to disowned executions only: a
\* started event is written over a row that is not active for no other.
THEOREM OthersNeverRunAgain == PromiseSpec => OnlyDisownedRunAgain
<1>1. QueueInv /\ OrderedInv /\ OneOutcomeInv /\ [PromiseNext]_promiseVars =>
        [\A e \in Executions :
           row'[e].status = "running" /\ row[e].status \notin Active
             => e \in disowned]_promiseVars
  <2> SUFFICES ASSUME QueueInv, OrderedInv, OneOutcomeInv, PromiseNext, NEW f \in Executions,
                      row'[f].status = "running", row[f].status \notin Active,
                      f \notin disowned
               PROVE  FALSE
    OBVIOUS
  <2>1. PICK e \in Executions : Step(e)
    BY DEF PromiseNext
  <2>2. f = e
    BY <2>1, RowStep DEF Step, Active
  <2>3. WriteStarted(e) /\ ~TakesBack(e)
    BY <2>1, <2>2, RunsAgain
  <2>4. OneOutcome(e)
    BY <2>2 DEF OneOutcomeInv
  <2>5. row[e].status \in Statuses /\ row[e].status # "active"
    BY DEF QueueInv, TypeOK, Rows, Statuses, Active
  <2>6. Outcome(e) # "active" /\ Outcome(e) = row[e].status /\ Outcome(e)' = "active"
    BY <2>2, <2>5 DEF Outcome, Active
  <2>7. row[e].status = "absent"
    BY <2>1, <2>3, <2>4, <2>6, StepIsLifecycleStep
  <2>8. topic[e] = <<>>
    BY <2>7 DEF OrderedInv, Ordered
  <2> QED
    BY <2>3, <2>8 DEF WriteStarted, QueueInv, TypeOK, EventPending, HasEvent
<1> QED
  BY HistoryAddsNothing, OneOutcomeInvariant, <1>1, PTL DEF PromiseSpec, OnlyDisownedRunAgain

-------------------------------------------------------------------------------
(* Redelivery converges. *)

\* Where the consumer is after a step: past a log event, past the event it wrote the row
\* for, past an event it dropped, or further back.
LEMMA PositionStep ==
  ASSUME QueueInv, NEW e \in Executions, Step(e)
  PROVE  /\ position'[e] <= position[e] + 1
         /\ position'[e] = position[e] + 1 =>
              \/ WriteStarted(e) \/ WriteTerminal(e) \/ Drops(e)
              \/ NextEvent(e) = "log" /\ row'[e] = row[e]
         /\ position'[e] = position[e] + 1 => topic' = topic
<1>0. position \in [Executions -> Nat] /\ committed[e] \in Nat /\ committed[e] <= position[e]
  BY DEF QueueInv, TypeOK
<1>1. CASE Caller(e)
  <2>1. position' = position
    BY <1>1 DEF Caller, CreateTracker, CreateTrackerFails, DriveFails, Enqueue,
       EnqueueResolves, EnqueueRejects, FinalizeUnpublished, ClientAborts, ReadBeforeAnswer,
       WriteAnswer, CallerDies, consumerVars
  <2> QED
    BY <1>0, <2>1
<1>2. CASE Worker(e)
  <2>1. position' = position
    BY <1>2 DEF Worker, StartRun, PushLog, LogPublished, Finish, StartupFails,
       PublishTerminal, WorkerCrashes, RequestRedelivered, consumerVars
  <2> QED
    BY <1>0, <2>1
<1>3. CASE ApplyLog(e) \/ LogInsertEnds(e) \/ ReadForApply(e) \/ CommitOffset(e)
             \/ ConsumerRestarts(e)
  <2>1. topic' = topic /\ row' = row
    BY <1>3 DEF ApplyLog, LogInsertEnds, ReadForApply, CommitOffset, ConsumerRestarts, workerVars
  <2>2. \/ position' = position
        \/ position' = [position EXCEPT ![e] = committed[e]]
        \/ position' = [position EXCEPT ![e] = @ + 1] /\ NextEvent(e) = "log"
    BY <1>3 DEF ApplyLog, LogInsertEnds, ReadForApply, CommitOffset, ConsumerRestarts,
       Advance, consumerVars
  <2> QED
    BY <1>0, <2>1, <2>2
<1>4. CASE ReadForApplyFails(e) \/ WriteStarted(e) \/ WriteTerminal(e) \/ WriteFails(e)
  <2>1. topic' = topic /\ position' \in {position, [position EXCEPT ![e] = @ + 1]}
    BY <1>4 DEF ReadForApplyFails, WriteStarted, WriteTerminal, WriteFails, Advance, workerVars
  <2>2. position' # position => WriteStarted(e) \/ WriteTerminal(e) \/ Drops(e)
    BY <1>4 DEF Drops
  <2> QED
    BY <1>0, <2>1, <2>2
<1>5. CASE Reader(e) \/ StopWorkflowExecution(e)
  <2>1. position' = position
    BY <1>5 DEF Reader, TimeoutElapses, ListStalled, CheckStalled, WriteStalled,
       StopWorkflowExecution, consumerVars
  <2> QED
    BY <1>0, <2>1
<1> QED
  BY <1>1, <1>2, <1>3, <1>4, <1>5 DEF Step, Consumer

\* The status that is due: the consumer is past the event that decides it.
Due(e, i) ==
  /\ topic[e][i] # "log"
  /\ \A j \in (i + 1)..Len(topic[e]) : topic[e][j] = "log"
  /\ i <= position[e]

\* An event that is due after a step that neither writes the row for an event nor drops one
\* was due before.
LEMMA DueBefore ==
  ASSUME QueueInv, NEW e \in Executions, Step(e), NEW i \in 1..Len(topic'[e]), Due(e, i)',
         ~WriteStarted(e), ~WriteTerminal(e), ~Drops(e)
  PROVE  i \in 1..Len(topic[e]) /\ topic'[e][i] = topic[e][i] /\ Due(e, i)
<1>1. /\ Len(topic[e]) \in Nat /\ Len(topic'[e]) \in Nat /\ Len(topic[e]) <= Len(topic'[e])
      /\ \A j \in 1..Len(topic[e]) : topic'[e][j] = topic[e][j]
      /\ position[e] \in Nat /\ position[e] <= Len(topic[e]) /\ position'[e] \in Nat
  <2>1. TopicExtended /\ QueueInv'
    BY TopicStep, QueueInvStep DEF Step
  <2> QED
    BY <2>1 DEF TopicExtended, QueueInv, TypeOK
<1>2. /\ topic'[e][i] # "log" /\ i <= position'[e]
      /\ \A j \in (i + 1)..Len(topic'[e]) : topic'[e][j] = "log"
  BY DEF Due
<1>3. i <= position[e]
  <2>1. CASE position'[e] = position[e] + 1
    <3>1. topic[e][position[e] + 1] = "log" /\ topic' = topic
      BY <2>1, PositionStep DEF NextEvent
    <3> QED
      BY <1>1, <1>2, <2>1, <3>1
  <2>2. CASE position'[e] # position[e] + 1
    <3>1. position'[e] <= position[e] + 1
      BY PositionStep
    <3> QED
      BY <1>1, <1>2, <2>2, <3>1
  <2> QED
    BY <2>1, <2>2
<1>4. i \in 1..Len(topic[e])
  BY <1>1, <1>3
<1>5. \A j \in (i + 1)..Len(topic[e]) : topic[e][j] = "log"
  BY <1>1, <1>2
<1> QED
  BY <1>1, <1>2, <1>3, <1>4, <1>5 DEF Due

\* What the consumer writes is the status that the event asks for, and if an event is due
\* afterwards it is that one.
LEMMA WriteIsDue ==
  ASSUME QueueInv, NEW e \in Executions, WriteStarted(e) \/ WriteTerminal(e),
         NEW i \in 1..Len(topic'[e]), Due(e, i)'
  PROVE  row'[e].status = StatusAfter(topic'[e][i])
<1>1. /\ apply[e] = "writing" /\ topic' = topic
      /\ position' = [position EXCEPT ![e] = @ + 1]
  BY DEF WriteStarted, WriteTerminal, Advance, workerVars
<1>2. /\ position[e] \in Nat /\ Len(topic[e]) \in Nat /\ position[e] < Len(topic[e])
      /\ position'[e] = position[e] + 1 /\ topic[e][position[e] + 1] # "log"
  BY <1>1 DEF QueueInv, TypeOK, EventPending, HasEvent, NextEvent
<1>3. /\ i <= position[e] + 1
      /\ \A j \in (i + 1)..Len(topic[e]) : topic[e][j] = "log"
  BY <1>1, <1>2 DEF Due
<1>4. i = position[e] + 1
  BY <1>1, <1>2, <1>3
<1>5. topic'[e][i] = NextEvent(e)
  BY <1>1, <1>4 DEF NextEvent
<1>6. \/ NextEvent(e) = "started" /\ row'[e].status = "running"
      \/ NextEvent(e) \in Outcomes /\ row'[e].status = NextEvent(e)
  BY WriteStartedStatus, WriteTerminalStatus
<1> QED
  BY <1>5, <1>6 DEF StatusAfter

LEMMA StepKeepsDrainedRowAgrees ==
  ASSUME QueueInv, OrderedInv, DrainedRowAgrees, astray \in [Executions -> BOOLEAN],
         NEW e \in Executions, Step(e), Record(e)
  PROVE  DrainedRowAgrees'
<1> SUFFICES ASSUME NEW f \in Executions, NEW i \in 1..Len(topic'[f]),
                    ~astray'[f], Due(f, i)'
             PROVE  row'[f].status = StatusAfter(topic'[f][i])
  BY DEF DrainedRowAgrees, Due
<1>1. ASSUME ~astray[f], i \in 1..Len(topic[f]), Due(f, i), topic'[f][i] = topic[f][i],
             row'[f].status = row[f].status
      PROVE  row'[f].status = StatusAfter(topic'[f][i])
  BY <1>1 DEF DrainedRowAgrees, Due
<1>2. CASE f # e
  <2>1. Untouched(f) /\ astray'[f] = astray[f]
    BY <1>2, StepTouchesOne DEF Step, Record
  <2> QED
    BY <1>1, <2>1 DEF Untouched, Due
<1>3. CASE f = e /\ (WriteStarted(e) \/ WriteTerminal(e))
  BY <1>3, WriteIsDue
<1>4. CASE f = e /\ ~WriteStarted(e) /\ ~WriteTerminal(e)
  <2>1. ~astray[e] /\ ~DecidesAside(e) /\ ~Drops(e)
    BY <1>4 DEF Record
  <2>2. i \in 1..Len(topic[e]) /\ topic'[e][i] = topic[e][i] /\ Due(e, i)
    BY <1>4, <2>1, DueBefore
  <2>3. ~CreateTracker(e)
    <3>1. topic[e] # <<>>
      BY <2>2
    <3> QED
      BY <3>1 DEF CreateTracker, OrderedInv, Ordered
  <2>4. row'[e].status = row[e].status
    <3>1. row'[e] # row[e] => ~FinalizeUnpublished(e) /\ ~WriteStalled(e)
                                /\ ~StopWorkflowExecution(e)
      BY <2>1 DEF DecidesAside
    <3> QED
      BY <1>4, <2>3, <3>1, RowStep DEF RowWritten, Step
  <2> QED
    BY <1>1, <1>4, <2>1, <2>2, <2>4
<1> QED
  BY <1>2, <1>3, <1>4

\* Redelivered events converge, for every set of faults: past the last event that changes
\* the status the row has that status, after any number of consumer restarts, reruns,
\* crashes and lost events, unless since the consumer's last write an event was dropped or
\* a status was written aside.
THEOREM RedeliveryConverges == PromiseSpec => []DrainedRowAgrees
<1>1. PromiseInit => DrainedRowAgrees /\ astray \in [Executions -> BOOLEAN]
  BY DEF PromiseInit, Init, DrainedRowAgrees
<1>2. QueueInv /\ OrderedInv /\ DrainedRowAgrees /\ astray \in [Executions -> BOOLEAN]
        /\ [PromiseNext]_promiseVars
        => DrainedRowAgrees' /\ (astray \in [Executions -> BOOLEAN])'
  <2>1. ASSUME astray \in [Executions -> BOOLEAN], NEW e \in Executions, Record(e)
        PROVE  astray' \in [Executions -> BOOLEAN]
    BY <2>1 DEF Record
  <2>2. QueueInv /\ OrderedInv /\ DrainedRowAgrees /\ astray \in [Executions -> BOOLEAN]
          /\ PromiseNext => DrainedRowAgrees' /\ (astray \in [Executions -> BOOLEAN])'
    BY <2>1, StepKeepsDrainedRowAgrees DEF PromiseNext
  <2>3. DrainedRowAgrees /\ astray \in [Executions -> BOOLEAN] /\ UNCHANGED promiseVars
          => DrainedRowAgrees' /\ (astray \in [Executions -> BOOLEAN])'
    BY DEF DrainedRowAgrees, promiseVars, vars, workerVars, consumerVars
  <2> QED
    BY <2>2, <2>3
<1> QED
  BY HistoryAddsNothing, <1>1, <1>2, PTL DEF PromiseSpec

-------------------------------------------------------------------------------
(* The faults that the exceptions need. *)

\* No enqueue was rejected and no execution is judged.
Unjudged(e) == call[e] # "unpublished" /\ ~late[e] /\ check[e] = "idle"
UnjudgedInv == \A e \in Executions : Unjudged(e)

LEMMA StepKeepsUnjudged ==
  ASSUME Faults \cap {"enqueue", "stall", "stop"} = {},
         QueueInv, UnjudgedInv, NEW e \in Executions, Step(e)
  PROVE  ~DecidesAside(e) /\ UnjudgedInv'
<1>1. Unjudged(e) /\ ~EnqueueRejects(e) /\ ~FinalizeUnpublished(e) /\ ~Reader(e)
        /\ ~StopWorkflowExecution(e)
  BY DEF UnjudgedInv, Unjudged, EnqueueRejects, FinalizeUnpublished, Reader, TimeoutElapses,
     ListStalled, CheckStalled, WriteStalled, StopWorkflowExecution
<1>2. ~DecidesAside(e)
  BY <1>1 DEF DecidesAside, Reader
<1>3. Unjudged(e)'
  <2>1. call'[e] # "unpublished"
    BY <1>1 DEF Step, Unjudged, Caller, CreateTracker, CreateTrackerFails, DriveFails,
       Enqueue, EnqueueResolves, ClientAborts, ReadBeforeAnswer, WriteAnswer, CallerDies,
       Worker, StartRun, PushLog, LogPublished, Finish, StartupFails, PublishTerminal,
       WorkerCrashes, RequestRedelivered, Consumer, ApplyLog, LogInsertEnds, ReadForApply,
       ReadForApplyFails, WriteStarted, WriteTerminal, WriteFails, CommitOffset,
       ConsumerRestarts, ResolveCompletion, callVars, QueueInv, TypeOK
  <2>2. check' = check /\ late' \in {late, [late EXCEPT ![e] = FALSE]}
    BY <1>1 DEF Step, Caller, CreateTracker, CreateTrackerFails, DriveFails,
       Enqueue, EnqueueResolves, ClientAborts, ReadBeforeAnswer, WriteAnswer, CallerDies,
       Worker, StartRun, PushLog, LogPublished, Finish, StartupFails, PublishTerminal,
       WorkerCrashes, RequestRedelivered, Consumer, ApplyLog, LogInsertEnds, ReadForApply,
       ReadForApplyFails, WriteStarted, WriteTerminal, WriteFails, CommitOffset,
       ConsumerRestarts, readerVars
  <2> QED
    BY <1>1, <2>1, <2>2 DEF Unjudged, QueueInv, TypeOK
<1>4. \A f \in Executions \ {e} : Unjudged(f)'
  BY StepTouchesOne DEF Untouched, UnjudgedInv, Unjudged, Step
<1> QED
  BY <1>2, <1>3, <1>4 DEF UnjudgedInv

LEMMA UnjudgedInvariant ==
  ASSUME Faults \cap {"enqueue", "stall", "stop"} = {}
  PROVE  PromiseSpec => [](QueueInv /\ UnjudgedInv)
<1>1. PromiseInit => UnjudgedInv
  BY DEF PromiseInit, Init, UnjudgedInv, Unjudged
<1>2. QueueInv /\ UnjudgedInv /\ [PromiseNext]_promiseVars => UnjudgedInv'
  <2>1. QueueInv /\ UnjudgedInv /\ PromiseNext => UnjudgedInv'
    BY StepKeepsUnjudged DEF PromiseNext
  <2>2. UnjudgedInv /\ UNCHANGED promiseVars => UnjudgedInv'
    BY DEF promiseVars, vars, callVars, readerVars, UnjudgedInv, Unjudged
  <2> QED
    BY <2>1, <2>2
<1> QED
  BY HistoryAddsNothing, <1>1, <1>2, PTL DEF PromiseSpec

\* Without these faults no promise is ever taken back, and SettlesOnce holds of every
\* execution for good, whatever crashes, is lost or is rejected by the database.
THEOREM NothingTakenBack ==
  ASSUME Faults \cap {"enqueue", "rerun", "redelivery", "stall", "stop"} = {}
  PROVE  PromiseSpec => [](disowned = {})
<1>0. Faults \cap {"enqueue", "stall", "stop"} = {}
  OBVIOUS
<1>1. PromiseInit => disowned = {}
  BY DEF PromiseInit
<1>2. QueueInv /\ UnjudgedInv /\ disowned = {} /\ [PromiseNext]_promiseVars => (disowned = {})'
  <2>1. ASSUME QueueInv, UnjudgedInv, disowned = {}, NEW e \in Executions, Step(e), Record(e)
        PROVE  disowned' = {}
    <3>1. ~DecidesAside(e)
      BY <1>0, <2>1, StepKeepsUnjudged
    <3>2. ~TakesBack(e)
      BY <3>1 DEF TakesBack, RequestRedelivered, ConsumerRestarts
    <3> QED
      BY <2>1, <3>2 DEF Record
  <2> QED
    BY <2>1 DEF PromiseNext, promiseVars
<1>3. PromiseSpec => [](QueueInv /\ UnjudgedInv)
  BY <1>0, UnjudgedInvariant
<1> QED
  BY <1>1, <1>2, <1>3, PTL DEF PromiseSpec

\* No row goes astray while no database call is rejected and nobody decides aside, however
\* often requests and events are delivered again.
THEOREM NothingAstray ==
  ASSUME Faults \cap {"store", "enqueue", "stall", "stop"} = {}
  PROVE  PromiseSpec => [](astray = [e \in Executions |-> FALSE])
<1>0. Faults \cap {"enqueue", "stall", "stop"} = {}
  OBVIOUS
<1>1. PromiseInit => astray = [e \in Executions |-> FALSE]
  BY DEF PromiseInit
<1>2. QueueInv /\ UnjudgedInv /\ astray = [e \in Executions |-> FALSE]
        /\ [PromiseNext]_promiseVars => (astray = [e \in Executions |-> FALSE])'
  <2>1. ASSUME QueueInv, UnjudgedInv, astray = [e \in Executions |-> FALSE],
               NEW e \in Executions, Step(e), Record(e)
        PROVE  astray' = [f \in Executions |-> FALSE]
    <3>1. ~DecidesAside(e)
      BY <1>0, <2>1, StepKeepsUnjudged
    <3>2. ~Drops(e)
      BY DEF Drops, ReadForApplyFails, WriteFails
    <3> QED
      BY <2>1, <3>1, <3>2 DEF Record
  <2> QED
    BY <2>1 DEF PromiseNext, promiseVars
<1>3. PromiseSpec => [](QueueInv /\ UnjudgedInv)
  BY <1>0, UnjudgedInvariant
<1> QED
  BY <1>1, <1>2, <1>3, PTL DEF PromiseSpec
=================================================================================
