SPECIFICATION ProgramsSpec
CHECK_DEADLOCK FALSE
CONSTANTS
  r1 = r1
  r2 = r2
  u1 = u1
  u2 = u2
  Request = {r1, r2}
  Unit = {u1, u2}
  MaxChunks = 2
  HIGH_WATER = 2
  PIPE = 1
  MaxIn = 2
  MaxOut = 1
INVARIANTS
  ProgramsTypeOK
  FinalReplyLast
  NetGrantCovers
  StreamsComplete
  IdleIsIdle
PROPERTIES
  EveryProgramEnds
