SPECIFICATION MigSpec
CONSTANTS
  Runs = {r1}
  MaxJobs = 1
  Masters = 2
  MaxMigFaults = 0
PROPERTY NoFlushAfterStop
CHECK_DEADLOCK FALSE
