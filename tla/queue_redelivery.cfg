SPECIFICATION Spec
CONSTANTS
  e1 = e1
  Executions = {e1}
  Kind <- OneBlocking
  Faults <- RedeliveryFaults
  MaxLogs = 1
  MaxRestarts = 2
INVARIANT TypeOK
INVARIANT CompletedHasResult
INVARIANT LogsOncePerRestart
CHECK_DEADLOCK FALSE
