SPECIFICATION Spec
CONSTANTS
  Keys = {k1, k2}
  MaxWrites = 2
  MaxFaults = 1
  None = None
INVARIANTS AnswerIsCurrent
PROPERTIES DefaultReplacesNothing
SYMMETRY Symmetry
CONSTRAINT Uncrossed
CHECK_DEADLOCK FALSE
