SPECIFICATION ClientSpec
CONSTANTS
  Requests = {1}
  MaxRequests = 3
  SoftLimit = 1
  HardLimit = 3
  SendBuffer = 1
INVARIANTS DrainedBeforeRemoved
CHECK_DEADLOCK FALSE
