\* Three slots, positions of twelve values: they wrap after every twelve pushes.
SPECIFICATION FairQueueSpec
CONSTANTS
  a = a
  b = b
  c = c
  producer = producer
  Values <- ThreeValues
  Producers <- OneProducer
  Capacity = 3
  Width = 12
  None = None
INVARIANT NoSlotRace
PROPERTIES RefusalsAreTrue KeepsQueue
