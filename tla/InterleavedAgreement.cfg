SPECIFICATION Spec
CONSTANTS
  N = 2
  Height = 0
  b1 = b1
  b2 = b2
  l1 = l1
  l2 = l2
  Nil = Nil
  Blocks <- TwoBlocks
  Lanes <- TwoLanes
  MaxRound = 1
  MaxFaults = 0
  Builds <- OneEach
  TimeoutRounds <- Round0
SYMMETRY LanesInterchange
CHECK_DEADLOCK FALSE
INVARIANT Agreement
