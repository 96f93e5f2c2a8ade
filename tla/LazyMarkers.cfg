\* Both producers of the application, two slots, three markers.
SPECIFICATION Spec
CONSTANTS
  Values = {1, 2, 3}
  MaxMarkers = 3
  Producers <- BothThreads
  Capacity = 2
  Width = 8
  None = None
INVARIANT AcceptedAreKept
CHECK_DEADLOCK FALSE
