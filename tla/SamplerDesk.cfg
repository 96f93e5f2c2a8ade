SPECIFICATION Spec
CONSTANTS
  None = None
  K = K
  N = N
  Banks = {1, 2}
  Notes = {N}
  Keys = {K}
  Mappings <- MCMappings
  Trims <- MCTrims
  MaxRevision = 2
  MaxGestures = 3
  Asset = Asset
  Counts = {2}
  Lengths = {5}
  MarkerFrames = {2, 6}
  Grids = {0, 4}
  Minimum = 3
  LazyMinimum = 2
  Envelopes <- MCEnvelopes
  Sensitivities = {8}
  LookBacks = {1}
  Floor = 0
  LazyCapacity = 2
  MaxSessions = 2
  MaxAnalyses = 1
  MousePads = {0}
  MidiCapacity = 1
  EngineCapacity = 1
  MaxLives = 1
INVARIANTS
  
  SlicesFitSession
PROPERTIES
  NotesEnd
  MidiInOrder
  MarkersUndoable
  AnalysisSound
CHECK_DEADLOCK FALSE
