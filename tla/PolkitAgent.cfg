SPECIFICATION PFairSpec
CONSTANTS
  s1 = s1
  s2 = s2
  r1 = r1
  r2 = r2
  r3 = r3
  a1 = a1
  Sandbox = {s1, s2}
  Request = {r1, r2, r3}
  App = {a1}
  AppOf <- MCAppOf
  Vm = s1
  MAX_AGENTS = 1
  Mix <- MCMix
  MAX_CONNS = 2
  AUTH_FAILS = 2
  AUTH_PAUSE = 2
  MaxTime = 3
INVARIANTS
  PolkitTypeOK
  OneAuthOnScreen
  PauseEarned
  AuthorizedByUser
PROPERTIES
  PauseHoldsSerially
  CancelledGoes
  EveryRequestEnds
