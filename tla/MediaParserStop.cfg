SPECIFICATION FairSpec
CONSTANTS
  Streams <- MCStreams
  SeekTimes = {0, 2, 9}
  BufferTimes = {0, 1}
  MaxSeeks = 2
  CueDistance = 2
PROPERTY
  StopReturns
CHECK_DEADLOCK FALSE
