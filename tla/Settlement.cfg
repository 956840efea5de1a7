SPECIFICATION SettlementSpec
CONSTANTS
  Workers = {w1, w2}
  MaxDeaths = 2
  None = None
INVARIANTS HooksDoNotOverlap RerunsHaveADeath OkMeansDone
PROPERTIES EventuallyApplied
