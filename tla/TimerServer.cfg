CONSTANTS
  N = 3
  Timeouts = {1, 2}
  MaxWakeup = 1
  HandlerDelay = 1
  MaxSlips = 1
  MaxRepeated = 1
SPECIFICATION Spec
INVARIANTS
  ListIsKept
  TimesAreHonest
  HandlerFindsItsTimer
  WakeupIsArmed
PROPERTIES
  NeverEarly
