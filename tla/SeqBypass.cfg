SPECIFICATION Spec
CONSTANTS
  NTask = 3
  AckEvt = "ack"
  BypassEvt = "bypass"
  NPrio = 2
  Evt = {"ack", "bypass"}
  AppHook = TRUE
  Posts <- NestedPosts
  Signals = {"ack"}
  Clears = {}
  Pausable = {}
  Waits <- BypassWaits
  StartWaits = {}
  MaxDepth = 3
PROPERTIES
  BypassProcesses
