SPECIFICATION DeploySpec
CONSTANTS
  Submissions = {c1, c2}
  MaxRequests = 3
  NoRequest = NoRequest
INVARIANTS OneOpenRequest WaitingHasARequest
PROPERTIES OutcomeMovesItsOwn
CHECK_DEADLOCK FALSE
