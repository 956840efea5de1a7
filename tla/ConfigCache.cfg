SPECIFICATION Spec
CONSTANTS
  Threads = {t1, t2}
  MaxSets = 1
  MaxFaults = 1
INVARIANTS OutageIsNotUnset FreshEntryIsCurrent OneThreadAsks
PROPERTIES PodConverges
