\* Two workers, room for three, four jobs of two owners and two priorities.
SPECIFICATION FairSpec
CONSTANTS
  w1 = w1
  w2 = w2
  project = project
  preview = preview
  Workers <- TwoWorkers
  Owners <- TwoOwners
  QueueCapacity = 3
  Priorities = {0, 1}
  MaxJobs = 4
INVARIANTS OutstandingIsHeld StoppingCancelsAll
PROPERTIES KeepsContract ShutdownEnds
CHECK_DEADLOCK FALSE
