SPECIFICATION FairSpec
CONSTANTS
  MaxMsgs = 2
  QueueDepth = 2
  SendWindow = 0
  MaxClears = 1
  MaxPolls = 0
  Outcomes = {"reply", "silent"}
  SyncKinds = {"command"}
  AsyncKinds = {}
  Modes = {TRUE, FALSE}
CHECK_DEADLOCK FALSE
PROPERTIES SyncDisconnectCloses CommandsSettle SyncWaitEnds ClearAnswered
