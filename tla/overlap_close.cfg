SPECIFICATION FairSpec
CONSTANTS
  MaxMsgs = 3
  QueueDepth = 2
  SendWindow = 1
  MaxClears = 0
  MaxPolls = 0
  Outcomes = {"reply"}
  SyncKinds = {"command"}
  AsyncKinds = {}
  Modes = {TRUE}
CHECK_DEADLOCK FALSE
PROPERTIES DisconnectCloses
