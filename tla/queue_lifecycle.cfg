SPECIFICATION FairPromiseSpec
CONSTANTS
  e1 = e1
  Executions = {e1}
  Kind <- OneBlocking
  Faults <- OneProcessFaults
  MaxLogs = 0
  MaxRestarts = 1
INVARIANT DrainedRowAgrees
PROPERTY LifecycleSpec
PROPERTY WaiterIsWoken
CHECK_DEADLOCK FALSE
