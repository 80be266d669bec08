SPECIFICATION NetFairSpec
CONSTANTS
  Streams <- MCStreams
  SeekTimes = {1}
  BufferTimes = {0, 3}
  MaxSeeks = 2
  CueDistance = 2
  End = 3
  AudioLimit = 0
  Ahead = 1
  MaxAdvance = 1
  MaxCalls = 2
INVARIANTS
  NetTypeOK
  StopsAtEnd
PROPERTIES
  StopToldOnce
  PlaybackEnds
CHECK_DEADLOCK FALSE
