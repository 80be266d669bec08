SPECIFICATION FairSpec
CONSTANTS
  Targets = {t1, t2}
  MaxPushes = 4
INVARIANTS
  TypeOK
PROPERTIES
  ImplementsScheduler
  LoopReturnsDone
  NoneWaitsForEver
