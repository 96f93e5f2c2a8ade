\* Two voices, two pads, up to three snapshots and three commands.
SPECIFICATION FairSpec
CONSTANTS
  VoiceCount = 2
  QueueCapacity = 2
  Pads <- TwoPads
  Sources = {s1, s2}
  Projects <- TwoProjects
  MaxGeneration = 3
  MaxCommands = 3
  Nothing = Nothing
INVARIANTS TypeOK NoDanglingSnapshot ChokeGroupsExclude PadVoiceLimit
PROPERTIES StealsOnlyWhenFull RetiredSnapshotsFreed
CHECK_DEADLOCK FALSE
