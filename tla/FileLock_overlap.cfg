SPECIFICATION OverlapSpec
CONSTANTS
  engine = engine
  watcher = watcher
  cli = cli
  server = server
  command = command
  Handle <- RivalHandle
  Process <- MCProcess
  PidOf <- RivalPidOf
  StaleAge = 2
  MaxClockBack = 0
INVARIANT MutualExclusion
CHECK_DEADLOCK FALSE
