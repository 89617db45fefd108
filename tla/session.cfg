SPECIFICATION Spec
CONSTANTS
  MaxMsgs = 3
  QueueDepth = 2
  SendWindow = 1
  MaxClears = 1
  MaxPolls = 0
  Outcomes = {"reply", "crash"}
  SyncKinds = {"command", "fragment", "trigger", "other", "bad"}
  AsyncKinds = {}
  Modes = {TRUE, FALSE}
CHECK_DEADLOCK FALSE
INVARIANTS TypeOK SyncWindow SyncAnswersInOrder InOrder WholeCommands
PROPERTY QueueIsPipeline
