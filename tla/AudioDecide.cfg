SPECIFICATION BothSpec
CHECK_DEADLOCK FALSE
CONSTANTS
  s1 = s1
  s2 = s2
  r1 = r1
  r2 = r2
  r3 = r3
  Sandbox = {s1}
  Request = {r1, r2, r3}
  Key <- MCRecKey
  SessionKey <- MCRecSessionKey
  ConnKey <- MCConnKey
  DenyKey <- MCDenyKey
  DenyOf <- MCRecDenyOf
  NoDeny = NoDeny
  NoThread = NoThread
  Rules <- NoRules
  MAX_CONNS = 3
  PROMPT_QUEUE = 1
  SESSION_TTL = 1
  MaxTime = 1
  t1 = t1
  t2 = t2
  t3 = t3
  t4 = t4
  Tag = {t1, t2, t3, t4}
  NoTag = NoTag
  Records = 2
  RecordRequest <- MCRequests
  Plan <- MCPlan
  PA_MAX_PENDING_RECORDS = 1
  mic = TRUE
  MaxIndex = 1
INVARIANTS
  QueueBound
  AudioTypeOK
  RecordingAsAsked
  OnlyOwnStreams
PROPERTIES
  DecisionsMade
  RecordAnswered
