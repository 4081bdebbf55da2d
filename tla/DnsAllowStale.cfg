SPECIFICATION DnsSpec
CONSTANTS
  a1 = a1
  a2 = a2
  a3 = a3
  u1 = u1
  u2 = u2
  Addr = {a1, a2, a3}
  Static = {a3}
  Lans <- MCLans
  Rule = {1, 2}
  Unit = {u1, u2}
  UnitsOf <- MCUnitsOf
  Glob = {u2}
  Denies <- MCDenies
  Lookup <- MCLookup
  DoneMax = 1
  NoSet = NoSet
PROPERTIES
  NeverStale
