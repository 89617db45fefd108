SPECIFICATION FairSpec
CONSTANTS
  MaxMsgs = 1
  QueueDepth = 2
  SendWindow = 1
  MaxClears = 0
  MaxPolls = 0
  Outcomes = {"reply", "crash"}
  SyncKinds = {"command"}
  AsyncKinds = {}
  Modes = {FALSE}
CHECK_DEADLOCK FALSE
PROPERTIES SyncWaitEnds
