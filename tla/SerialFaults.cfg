SPECIFICATION Spec
CONSTANTS
  N = 2
  Height = 0
  b1 = b1
  b2 = b2
  l1 = l1
  l2 = l2
  Nil = Nil
  Blocks <- TwoBlocks
  Lanes <- OneLane
  MaxRound = 1
  MaxFaults = 2
  Builds <- Anything
  TimeoutRounds <- Round0
SYMMETRY BlocksInterchange
CHECK_DEADLOCK FALSE
INVARIANTS TypeOK PrevoteOrTimeout OneVotePerSlot SentIsSaved PrecommitKeepsLock CertificateIsSaved SerialInv NoQuorumLeftBehind
PROPERTY ImplementsFinality
