SPECIFICATION LiveSpec
CONSTANTS
  NTask = 3
  AckEvt = "ack"
  BypassEvt = "bypass"
  NPrio = 2
  Evt = {"ack", "bypass", "startup"}
  AppHook = TRUE
  Posts <- NestedPosts
  Signals = {"ack", "startup"}
  Clears = {"ack"}
  Pausable = {1}
  Waits <- NestedWaits
  StartWaits = {"startup"}
  MaxDepth = 5
INVARIANTS
  TypeOK
  PriorityMasksAgree
  ScanInBounds
  NestingIsSound
  SleepsOnlyWhenIdle
PROPERTIES
  PostedTaskRuns
  UrgentTaskRuns
  SignalledWaitEnds
