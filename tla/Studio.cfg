SPECIFICATION Spec
CONSTANTS
  None = None
  Absent = Absent
  Torn = Torn
  Pads <- MCPads
  EditedPads = {0}
  Versions <- Projects
  Budget = 2
  DecodedSizes = {1, 2}
  MaxRevision = 3
  MaxGestures = 4
  MaxTakes = 1
  MaxFaults = 2
INVARIANTS
  BudgetKept
  LayersAreBacked
  FilesBackProjects
  ImportsMove
  SavedProjectSurvives
CHECK_DEADLOCK FALSE
