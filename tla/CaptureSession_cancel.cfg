\* Two one-frame blocks, one frame of pre-roll, callbacks of one or two frames.
SPECIFICATION Spec
CONSTANTS
  BlockCount = 2
  FramesPerBlock = 1
  PreRollFrames = 1
  MaxCallbackFrames = 2
  MaxFrames = 3
  StopReserve = 3
  Nothing = Nothing
INVARIANT CancelledNeverCompletes
CHECK_DEADLOCK FALSE
