SPECIFICATION PolledSpec
CONSTANTS
  e1 = e1
  Executions = {e1}
  Kind <- OneAsync
  Faults <- AllFaults
  MaxLogs = 0
  MaxRestarts = 1
PROPERTY EventuallySettled
CHECK_DEADLOCK FALSE
