SPECIFICATION Spec
CONSTANTS
  MaxMsgs = 2
  QueueDepth = 2
  SendWindow = 0
  MaxClears = 2
  MaxPolls = 1
  Outcomes = {"reply"}
  SyncKinds = {"command"}
  AsyncKinds = {"query", "queryClear", "remote", "local", "other", "bad"}
  Modes = {TRUE, FALSE}
CHECK_DEADLOCK FALSE
INVARIANTS OnlyClearedLost ClearLeavesNothing
PROPERTY MavReported
