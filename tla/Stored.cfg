SPECIFICATION MCSpec
CONSTANTS
  Blocks <- SmallBlocks
  v1 = v1
  v2 = v2
  Numbers = {1, 2}
  Epochs = {e1}
  MaxLen = 2
  MaxOps = 3
  MaxFaults = 1
  a1 = a1
  a2 = a2
  c1 = c1
  c2 = c2
  r1 = r1
INVARIANTS TypesOK   
CHECK_DEADLOCK FALSE
