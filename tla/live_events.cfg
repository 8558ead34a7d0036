SPECIFICATION FairSpec
CONSTANTS
  e1 = e1
  e2 = e2
  e3 = e3
  x1 = x1
  x2 = x2
  r1 = r1
  r2 = r2
  w1 = w1
  byRun = byRun
  byWorkflow = byWorkflow
  NoId = NoId
  Events = {e1, e2, e3}
  Kind <- KindOfEvent
  ExecutionOf <- ExecutionOfEvent
  WithRun = {e1, e3}
  WithWorkflow = {e1, e2, e3}
  Executions = {x1, x2}
  RunOf <- Runs
  WorkflowOf <- OneWorkflow
  Listeners = {byRun, byWorkflow}
  Reference <- References
  Timed = {byRun}
  First = 1
  StoreFails = TRUE
INVARIANT TypeOK
INVARIANT HeardInOrder
INVARIANT NothingMissed
PROPERTY ClosedIsReleased
CHECK_DEADLOCK FALSE
