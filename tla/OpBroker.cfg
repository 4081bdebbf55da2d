SPECIFICATION OpSpec
CONSTANTS
  w1 = w1
  w2 = w2
  w3 = w3
  c1 = c1
  c2 = c2
  c3 = c3
  l1 = l1
  l2 = l2
  l3 = l3
  l4 = l4
  Client = {w1, w2}
  Conn = {c1, c2}
  Whose <- MCWhose
  Item = {1, 2}
  Saved <- MCSaved
  Line <- MCLine
  None = None
  Refused = Refused
  Mode = "subdomain"
  AllowHttp = FALSE
  AllowSession = TRUE
  MaxCandidates = 2
  Burst = 1
  REFILL = 1
  PerHour = 2
  Hour = 2
  DenyLimit = 2
  DenyCooldown = 1
  Distinct = 1
  Window = 1
  Interval = 2
  ProbeBlock = 2
  SessionIdle = 1
  SessionMax = 2
  ListTtl = 1
  MaxTime <- MCMaxTime
  UpClient = {w1, w2, w3}
  Configured = {w1}
  UpConn = {c1, c2, c3}
  UpWho <- MCUpWho
  Link = {l1, l2, l3, l4}
  NoLink = NoLink
  Pool = 1
  ConnsPerClient = 1
  MaxAdded = 1
  MaxOwed = 2
INVARIANTS
  OpTypeOK
  PoolKept
  ServedAsItself
PROPERTIES
  FillService
  OpEnds
