SPECIFICATION TemplatesSpec
CONSTANTS
  Actors = {a1, a2}
  MaxStep = 2
  MaxCalls = 3
INVARIANTS LineCoversItsForm  DefaultLineIsUsable
CHECK_DEADLOCK FALSE
