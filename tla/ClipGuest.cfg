SPECIFICATION CSpec
CHECK_DEADLOCK FALSE
CONSTANTS
  s1 = s1
  s2 = s2
  r1 = r1
  r2 = r2
  r3 = r3
  i1 = i1
  i2 = i2
  Nothing = Nothing
  User = User
  Sandbox = {s1, s2}
  Request <- MCThreeRequests
  MAX_CONNS = 2
  Faults <- MCAllFaults
  Vm = s1
  Id = {i1, i2}
  Mix <- MCMix
SYMMETRY MCSymmetry
INVARIANTS
  ClipTypeOK
  TextKnown
  CancelledTaken
PROPERTIES
  ClearClearsUndisturbed
