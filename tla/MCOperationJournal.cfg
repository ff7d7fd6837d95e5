SPECIFICATION JSpec
CONSTANTS
  r1 = r1
  r2 = r2
  r3 = r3
  k1 = k1
  k2 = k2
  d1 = d1
  d2 = d2
  t1 = t1
  t2 = t2
  Request = {r1, r2, r3}
  Key = {k1, k2}
  Digest = {d1, d2}
  Tab = {t1, t2}
  MaxRetries = 0
  GlobalWriter = FALSE
  None = None
SYMMETRY Interchangeable
INVARIANTS
  OutcomesAreTrue
  UnconfirmedIsKept
  RetriesNeverConflict
CHECK_DEADLOCK FALSE
