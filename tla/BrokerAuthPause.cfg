SPECIFICATION Spec
CONSTANTS
  s1 = s1
  s2 = s2
  r1 = r1
  r2 = r2
  r3 = r3
  Sandbox <- MCOneSandbox
  Request <- MCThreeRequests
  MAX_CONNS = 2
  AUTH_FAILS = 2
  AUTH_PAUSE = 2
  MaxTime = 4
PROPERTIES
  PauseHolds
