CONSTANTS
  MaxRecords = 1
  MaxCrashes = 1
  Modes = {"flush", "fsync"}
SPECIFICATION Spec
INVARIANTS FsyncSurvives
CHECK_DEADLOCK FALSE
