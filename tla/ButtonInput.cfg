CONSTANTS
  Buttons = {b1, b2}
  Size = 2
  None = None
  MaxEdges = 4
SPECIFICATION Spec
INVARIANTS
  RingIsSound
  OnlyTheRaceLeavesRecords
  SettledStateIsThePin
  TimerHasAReport
PROPERTIES
  CountedRecordsAreTaken
CHECK_DEADLOCK FALSE
