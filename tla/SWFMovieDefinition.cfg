SPECIFICATION FairSpec
CONSTANTS
  FrameCount = 2
  MaxFrames = 3
  MaxTags = 1
INVARIANTS
  TypeOK
  RefusedNeverComes
PROPERTIES
  LoadedIsFinal
  EnsureReturns
  DestroyReturns
CHECK_DEADLOCK FALSE
