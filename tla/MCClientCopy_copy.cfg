CONSTANTS
  Me = c1
  Conn = {c1}
  Session = {1, 2}
  All = All
  None = None
  Batch = {}
  Buffer = {1, 2}
  Node = {1, 2}
  t1 = t1
  t2 = t2
  Tasks = {t1, t2}
  MaxChanges <- TwoAndOne
  MaxBatch = 2
  Nowhere = Nowhere
  Unknown = Unknown
SPECIFICATION FairSpec
INVARIANT StaleIsNotified
PROPERTY Settles
CHECK_DEADLOCK FALSE
