CONSTANTS
  MaxRecords = 2
  MaxCrashes = 3
  Modes = {"buffered", "flush", "fsync"}
SPECIFICATION Spec
INVARIANTS AckedRecoverable DurableOnDisk
PROPERTIES RepairDropsNoRecord
CHECK_DEADLOCK FALSE
