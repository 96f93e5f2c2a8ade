\* Three slices, room for two commands, four requests.
SPECIFICATION FairSpec
CONSTANTS
  SliceCount = 3
  QueueCapacity = 2
  MaxRequests = 4
PROPERTIES SlicesInOrder StopIsFinal AuditionEnds
CHECK_DEADLOCK FALSE
