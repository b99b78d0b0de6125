CONSTANTS
  MaxPress = 2
  MaxPersist = 0
  MaxLog = 0
  PressWhileJoining = TRUE
  ChangeWhileSaving = FALSE
  MaxTimer = 0
  TimerPreempts = FALSE
SPECIFICATION Spec
INVARIANT StartupWaitIsBlocking
CHECK_DEADLOCK FALSE
