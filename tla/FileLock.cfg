SPECIFICATION CalmFairSpec
CONSTANTS
  engine = engine
  watcher = watcher
  cli = cli
  server = server
  command = command
  Handle <- MCHandle
  Process <- MCProcess
  PidOf <- MCPidOf
  StaleAge = 2
  MaxClockBack = 1
INVARIANT TypeOK
INVARIANT Excludes
INVARIANT Publishes
PROPERTY OrphanClears
CHECK_DEADLOCK FALSE
