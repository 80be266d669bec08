SPECIFICATION Spec
CONSTANTS
  Targets = {t1}
  MaxPushes = 4
INVARIANT
  FlushOnlyHigher
