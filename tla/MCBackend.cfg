SPECIFICATION BackendSpec
CONSTANTS
  u1 = u1
  u2 = u2
  Users = {u1}
  Nodes = {1}
  NatNodes = {1}
  Plans = {"small", "wide"}
  Terms <- MCTerms
  Types = {"tcp", "https"}
  Domains <- MCDomains
  NoDomain <- MCNoDomain
  SpeedDomain <- MCSpeedDomain
  PoolStart = 1
  PoolEnd = 2
  SpeedTTL = 1
  MaxTunnelID = 3
  MaxTime = 1
  MaxTraffic = 1
  e1 = e1
  c1 = c1
  c2 = c2
  c3 = c3
  None = None
  Emails = {e1}
  Calls = {c1, c2, c3}
  MaxCodes = 2
INVARIANTS
  NoPortLeak
  PortHeld
  PortConflictsExplained
  NoDomainLeak
  NameHeld
  NameConflictsExplained
  CodeSpentWithAccount
  UpdateIsAtomic
  DisabledStayOut
PROPERTIES
  CreationWithinLimits
  ImplementsEntryPoints
SYMMETRY CallSymmetry
CHECK_DEADLOCK FALSE
