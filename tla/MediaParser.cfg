SPECIFICATION FairSpec
CONSTANTS
  Streams <- MCStreams
  SeekTimes = {0, 2, 9}
  BufferTimes = {0, 1}
  MaxSeeks = 2
  CueDistance = 2
INVARIANTS
  TypeOK
  EachFrameOnce
  IndexSound
PROPERTIES
  SeekHeeded
CHECK_DEADLOCK FALSE
