-------------------------- MODULE WorkflowQueuePromise --------------------------
(***************************************************************************)
(* What the queue promises about an execution whatever the environment     *)
(* does. WorkflowQueue is given two history variables, which no action     *)
(* reads: the executions whose promise the environment took back, and the  *)
(* executions whose row the event consumer was not the last to decide. The *)
(* promises are then stated of every behaviour, instead of the behaviours  *)
(* in which nothing disturbs any execution.                                *)
(***************************************************************************)
EXTENDS WorkflowQueue

VARIABLES
  disowned,     \* executions that may settle twice: the promise was taken back
  astray        \* the row's status is not what the consumer last wrote to it

promiseVars == <<vars, disowned, astray>>

-------------------------------------------------------------------------------
(* What a step does to the promises. *)

\* Nothing that is still under way can decide the execution: the enqueueing call is past
\* the enqueue, no worker has the request, and the consumer is past every event that
\* changes the status.
NothingToCome(e) ==
  /\ call[e] # "tracked"
  /\ run[e] \in {"none", "done", "lost"}
  /\ \A i \in (position[e] + 1)..Len(topic[e]) : topic[e][i] = "log"

\* A status is written by somebody other than the consumer: the enqueueing call whose
\* enqueue was rejected, a reader that judges the execution stalled, the agent.
DecidesAside(e) ==
  /\ FinalizeUnpublished(e) \/ WriteStalled(e) \/ StopWorkflowExecution(e)
  /\ row' # row

\* A verdict on an execution that nobody else will decide, and did not decide otherwise.
RightVerdict(e) ==
  /\ NothingToCome(e)
  /\ row[e].status \in Active \cup {"failed"}
  /\ row'[e].status = "failed"

Published(e) == {topic[e][i] : i \in 1..Len(topic[e])}
Uncommitted(e) == {topic[e][i] : i \in (committed[e] + 1)..position[e]}

\* The promise of one outcome is taken back by a verdict that comes too early or too late,
\* by a stop, by running again what has an outcome, and by delivering again to a settled
\* row the events that its consumer had not committed.
TakesBack(e) ==
  \/ DecidesAside(e) /\ ~RightVerdict(e)
  \/ /\ RequestRedelivered(e)
     /\ row[e].status \notin Active \/ Published(e) \cap Outcomes # {}
  \/ /\ ConsumerRestarts(e)
     /\ row[e].status \notin Active
     /\ Uncommitted(e) \ {"log"} # {}

\* An event that changes the status is gone without its write.
Drops(e) ==
  \/ WriteFails(e)
  \/ ReadForApplyFails(e) /\ position' # position

Record(e) ==
  /\ disowned' = IF TakesBack(e) THEN disowned \cup {e} ELSE disowned
  /\ astray' = [astray EXCEPT ![e] =
                  /\ ~WriteStarted(e) /\ ~WriteTerminal(e)
                  /\ @ \/ DecidesAside(e) \/ Drops(e)]

Step(e) == Caller(e) \/ Worker(e) \/ Consumer(e) \/ Reader(e) \/ StopWorkflowExecution(e)

PromiseInit ==
  /\ Init
  /\ disowned = {}
  /\ astray = [e \in Executions |-> FALSE]

PromiseNext == \E e \in Executions : Step(e) /\ Record(e)

PromiseSpec == PromiseInit /\ [][PromiseNext]_promiseVars

\* The parts of the system that go on by themselves (see FairSpec).
FairPromiseSpec ==
  /\ PromiseSpec
  /\ \A e \in Executions :
       /\ WF_vars(CallProceeds(e))
       /\ WF_vars(RunProceeds(e))
       /\ WF_vars(EventsProceed(e))

-------------------------------------------------------------------------------
(* Properties. *)

\* The row's status as the outside sees it, and as long as it is promised.
Outcome(e) == IF row[e].status \in Active THEN "active" ELSE row[e].status
PromisedOutcome(e) == IF e \in disowned THEN "disowned" ELSE Outcome(e)

Lifecycle == INSTANCE ExecutionLifecycle
  WITH state <- [e \in Executions |-> PromisedOutcome(e)]

\* An execution settles at most once and stays settled, through crashes, lost and repeated
\* events, failed database calls, rejected enqueues and verdicts on abandoned executions,
\* until one of the steps of TakesBack is taken for that very execution.
LifecycleSpec == Lifecycle!Spec

StatusAfter(event) == IF event = "started" THEN "running" ELSE event

\* Once the consumer is past the last event that changes the status, the row has the
\* status of that event, however often its handlers were cut short and their events
\* delivered again: unless since its last write an event was dropped, or the enqueueing
\* call, a stall check or the agent wrote a status of its own.
DrainedRowAgrees ==
  \A e \in Executions : \A i \in 1..Len(topic[e]) :
    /\ ~astray[e]
    /\ topic[e][i] # "log"
    /\ \A j \in (i + 1)..Len(topic[e]) : topic[e][j] = "log"
    /\ i <= position[e]
    => row[e].status = StatusAfter(topic[e][i])

\* The step that apply-queue-event.test.ts does not expect, a started event applied to a
\* row that is not active, is only taken on executions whose promise was taken back.
OnlyDisownedRunAgain ==
  [][\A e \in Executions :
       row'[e].status = "running" /\ row[e].status \notin Active => e \in disowned]_promiseVars
=================================================================================
