SPECIFICATION Spec
CONSTANTS
  N = 3
  Height = 0
  b1 = b1
  b2 = b2
  l1 = l1
  l2 = l2
  Nil = Nil
  Blocks <- TwoBlocks
  Lanes <- OneLane
  MaxRound = 1
  MaxFaults = 0
  Builds <- OneEach
  TimeoutRounds <- Round0
CHECK_DEADLOCK FALSE
INVARIANT Agreement
