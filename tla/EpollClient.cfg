SPECIFICATION ClientSpec
CONSTANTS
  Requests = {0, 1, 2, 4}
  MaxRequests = 3
  SoftLimit = 2
  HardLimit = 3
  SendBuffer = 1
INVARIANTS ResponsesInOrder
PROPERTIES BacklogBounded RequestsRead
CHECK_DEADLOCK FALSE
