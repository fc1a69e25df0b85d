SPECIFICATION HealthySpec
CONSTANTS
  t1 = t1
  t2 = t2
  s1 = s1
  s2 = s2
  s3 = s3
  None = None
  Runs <- OneRun
  Tokens <- OneToken
  MaxAttempts = 3
  Slots <- TwoSlots
CHECK_DEADLOCK FALSE
PROPERTY RunEnds
