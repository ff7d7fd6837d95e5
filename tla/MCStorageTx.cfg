SPECIFICATION FairSpec
CONSTANTS
  r1 = r1
  r2 = r2
  r3 = r3
  k1 = k1
  k2 = k2
  d1 = d1
  d2 = d2
  Request = {r1, r2, r3}
  Key = {k1, k2}
  Digest = {d1, d2}
  MaxRetries = 1
  GlobalWriter = FALSE
  None = None
INVARIANTS
  ReceiptIsExecution
  SameAnswer
PROPERTIES
  EveryRequestEnds
  ImplementsPromise
CHECK_DEADLOCK FALSE
