SPECIFICATION MovieSpec
CONSTANTS
  FrameCount = 2
  MaxFrames = 2
  MaxTags = 1
INVARIANT OrphansNotGrowing
CHECK_DEADLOCK FALSE
