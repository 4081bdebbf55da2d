SPECIFICATION AudioSpec
CHECK_DEADLOCK FALSE
CONSTANTS
  t1 = t1
  t2 = t2
  t3 = t3
  t4 = t4
  Tag = {t1, t2, t3, t4}
  NoTag = NoTag
  Records = 2
  RecordRequest <- MCRequests
  Plan <- MCOneTag
  PA_MAX_PENDING_RECORDS = 1
  mic = TRUE
  MaxIndex = 1
INVARIANTS
  StreamsAreOwn
