CONSTANTS
  MaxPress = 3
  MaxPersist = 2
  MaxLog = 2
  PressWhileJoining = FALSE
  ChangeWhileSaving = FALSE
  MaxTimer = 1
  TimerPreempts = FALSE
SPECIFICATION Spec
INVARIANTS
  ResponseIsForItsCommand
  EachNotificationOnce
  WaitsGetTheirOwn
PROPERTIES
  CallsReturn
CHECK_DEADLOCK FALSE
