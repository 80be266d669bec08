SPECIFICATION FairSpec
CONSTANTS
  Delays = {2, 4}
  Word = 64
  IntervalWord = 4
  MaxTime = 3
  MaxTimers = 3
  MaxThrows = 1
INVARIANTS
  TypeOK
  PointersValid
  NoDrift
PROPERTIES
  ClearedIsFinal
  OverdueInOrder
  ExpiredRuns
