SPECIFICATION Spec
CONSTANTS
  u1 = u1
  u2 = u2
  Users = {u1, u2}
  Nodes = {0, 1}
  NatNodes = {1}
  Plans = {"wide"}
  Terms <- MCTerms
  Types = {"tcp"}
  Domains <- MCDomains
  NoDomain <- MCNoDomain
  SpeedDomain <- MCSpeedDomain
  PoolStart = 1
  PoolEnd = 2
  SpeedTTL = 1
  MaxTunnelID = 3
  MaxTime = 1
  MaxTraffic = 0
SYMMETRY MCSymmetry
INVARIANTS
  PortUnique
CHECK_DEADLOCK FALSE
