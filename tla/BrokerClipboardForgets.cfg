SPECIFICATION Spec
CHECK_DEADLOCK FALSE
CONSTANTS
  s1 = s1
  s2 = s2
  r1 = r1
  r2 = r2
  r3 = r3
  Nothing = Nothing
  User = User
  Sandbox <- MCSandbox
  Request <- MCThreeRequests
  MAX_CONNS = 1
  Faults <- MCWlCopyFails
PROPERTIES
  ClearClears
