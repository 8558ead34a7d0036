SPECIFICATION FairSpec
CONSTANTS
  e1 = e1
  Executions = {e1}
  Kind <- OneBlocking
  Faults <- NoFaults
  MaxLogs = 0
  MaxRestarts = 0
PROPERTY BlockingCallEnds
CHECK_DEADLOCK FALSE
