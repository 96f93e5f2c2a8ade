SPECIFICATION Spec
CONSTANTS
  NumPads = 3
  NumLayers = 1
  None = None
  Sample = Sample
  Import = Import
  Assets <- MCAssets
  SourceFrames <- MCSourceFrames
  Opened <- MCOpened
  EditedPads <- MCEditedPads
  MaxRevision = 3
  MaxLives = 1
  PadFields = {"name"}
  LayerFlags = {"loop"}
  SettingsFields = {"recording"}
  MaxPending = 1
INVARIANTS
  TypeOK
  HistoryRestorable
  ResultsMeetTheirState
  ManifestRoundTrips
PROPERTIES
  LineOfContents
  SlicesKeepTheirBounds
  AssignmentAsPlanned
CHECK_DEADLOCK FALSE
