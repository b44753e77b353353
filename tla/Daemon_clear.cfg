SPECIFICATION Spec
CONSTANTS
  p1 = p1
  p2 = p2
  c1 = c1
  c2 = c2
  Process <- MCProcess
  Client <- MCClient
  None = None
  Corrupt = Corrupt
  Ghost = Ghost
  TakeoverMaxRetries = 2
  MaxEvent = 0
INVARIANT OneDaemon
CHECK_DEADLOCK FALSE
