\* Three slices, room for two commands, four requests.
SPECIFICATION Spec
CONSTANTS
  SliceCount = 3
  QueueCapacity = 2
  MaxRequests = 4
INVARIANT HeldWhileUsed
CHECK_DEADLOCK FALSE
