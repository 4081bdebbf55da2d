SPECIFICATION ServicesSpec
CHECK_DEADLOCK FALSE
CONSTANTS
  c1 = c1
  c2 = c2
  n1 = n1
  n2 = n2
  h1 = h1
  g1 = g1
  g2 = g2
  g3 = g3
  f1 = f1
  f2 = f2
  Cid <- MCCid
  Nonce <- MCNonce
  HostNonce <- MCHostNonce
  MaxNonces = 1
  MaxRequests = 1
  MaxReports = 2
  Grant = {g1, g2, g3}
  Folder = {f1, f2}
  Asks <- MCAsks
  NoConn = NoConn
  MaxConns = 2
  MaxPackets = 3
  MaxEvents = 3
  a1 = a1
  a2 = a2
  a3 = a3
  u1 = u1
  u2 = u2
  Addr = {a1, a2, a3}
  Static = {a3}
  Lans <- MCLans
  Rule = {1, 2}
  Unit = {u1, u2}
  UnitsOf <- MCUnitsOf
  Glob = {u2}
  Denies <- MCDenies
  Lookup <- MCLookup
  DoneMax = 1
  NoSet = NoSet
INVARIANTS
  ServicesTypeOK
  OnlyOwnChannels
  NoReadAfterClose
PROPERTIES
  GrantReal
  LocalStaysShut
  ServicesEnd
