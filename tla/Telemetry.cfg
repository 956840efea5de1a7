SPECIFICATION Spec
CONSTANTS
  Threads = {t1, t2}
  Databases = {d1, d2}
  QueueMax = 1
  BatchMax = 2
  MaxEvents = 2
  MaxFaults = 2
INVARIANTS FlushMeansStored ChildWritesItsOwn
PROPERTIES EventsSettle
CHECK_DEADLOCK FALSE
