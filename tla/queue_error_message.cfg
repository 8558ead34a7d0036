SPECIFICATION Spec
CONSTANTS
  e1 = e1
  Executions = {e1}
  Kind <- OneBlocking
  Faults <- NoFaults
  MaxLogs = 0
  MaxRestarts = 0
INVARIANT FailedStatusTellsError
CHECK_DEADLOCK FALSE
