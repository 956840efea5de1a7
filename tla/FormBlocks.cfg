SPECIFICATION Spec
CONSTANTS
  N = 2
  Calls = {c1, c2}
  Required = {0, 1, 2}
  MaxFills = 4
INVARIANTS SignedBlocksStand 
CHECK_DEADLOCK FALSE
