SPECIFICATION Spec
CONSTANTS
  t1 = t1
  t2 = t2
  s1 = s1
  s2 = s2
  s3 = s3
  None = None
  Runs <- TwoRuns
  Tokens <- OneToken
  MaxAttempts = 2
  Slots <- TwoSlots
SYMMETRY SlotsInterchange
CHECK_DEADLOCK FALSE
PROPERTY ImplementsLeasedJob
