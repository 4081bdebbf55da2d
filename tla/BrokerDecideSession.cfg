SPECIFICATION Spec
CONSTANTS
  s1 = s1
  s2 = s2
  r1 = r1
  r2 = r2
  r3 = r3
  Sandbox = {s1, s2}
  Request = {r1, r2, r3}
  Key <- MCKey
  SessionKey <- MCSessionKey
  ConnKey <- MCConnKey
  DenyKey <- MCDenyKey
  DenyOf <- MCDenyOf
  NoDeny = NoDeny
  NoThread = NoThread
  Rules <- SomeRules
  MAX_CONNS = 2
  PROMPT_QUEUE = 1
  SESSION_TTL = 1
  MaxTime = 2
SYMMETRY Symmetry
INVARIANTS
  TypeOK
  OneDialog
  DialogNeeded
  SessionGrantBacked
  DenyAllHolds
  SlotBound
