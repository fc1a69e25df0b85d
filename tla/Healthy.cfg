SPECIFICATION HealthySpec
CONSTANTS
  N = 3
  Height = 0
  b1 = b1
  b2 = b2
  l1 = l1
  l2 = l2
  Nil = Nil
  Blocks <- OneBlock
  Lanes <- OneLane
  MaxRound = 0
  MaxFaults = 0
  Builds <- Once
  TimeoutRounds <- NoRounds
CHECK_DEADLOCK FALSE
PROPERTY ProposalIsFinalized
