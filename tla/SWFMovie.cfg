SPECIFICATION MovieFairSpec
CONSTANTS
  FrameCount = 3
  MaxFrames = 4
  MaxTags = 0
INVARIANTS
  PlayerTypeOK
  ExecutedFramesComplete
  PlayheadLoaded
  NoEarlyLoop
PROPERTIES
  Plays
CHECK_DEADLOCK FALSE
