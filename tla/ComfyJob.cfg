SPECIFICATION Spec
CONSTANTS
  Calls = {c1, c2}
  MaxFaults = 2
  MaxCancels = 1
  PollFailureLimit = 2
INVARIANTS AbandonedIsStopped NothingLeftRunning
PROPERTIES EveryCallEnds
CHECK_DEADLOCK FALSE
