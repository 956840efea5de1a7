SPECIFICATION Spec
CONSTANTS
  Threads = {t1, t2}
  Size = 1
  MaxRetries = 1
  MaxFaults = 2
  Nobody = Nobody
INVARIANT ReconnectReturns
CHECK_DEADLOCK FALSE
