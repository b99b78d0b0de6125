CONSTANTS
  Buffers = {b1, b2, b3}
  None = None
SPECIFICATION Spec
INVARIANTS
  BuffersAreSound
  EventsAreKept
PROPERTIES
  BuffersComeBack
  EventsAreHandled
CHECK_DEADLOCK FALSE
