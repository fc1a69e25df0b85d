SPECIFICATION Spec
CONSTANTS
  t1 = t1
  t2 = t2
  s1 = s1
  s2 = s2
  s3 = s3
  None = None
  Runs <- OneRun
  Tokens <- TwoTokens
  MaxAttempts = 2
  Slots <- ThreeSlots
SYMMETRY SlotsAndTokens
CHECK_DEADLOCK FALSE
INVARIANTS TypeOK RowsAgree LedgerInv
PROPERTIES HistoryIsAppendOnly AnswerIsTrue
