SPECIFICATION Spec
CONSTANTS
  e1 = e1
  Executions = {e1}
  Kind <- OneBlocking
  Faults <- RedeliveryOnly
  MaxLogs = 0
  MaxRestarts = 1
PROPERTY TransitionsOnlyFromActive
CHECK_DEADLOCK FALSE
