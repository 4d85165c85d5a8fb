SPECIFICATION FairSpec
CONSTANTS
  r1 = r1
  r2 = r2
  u1 = u1
  d1 = d1
  nil = nil
  None = nil
  Requests = {r1, r2}
  Users = {u1}
  Nodes = {0, 1}
  NatNodes = {1}
  PoolStart = 1
  PoolEnd = 2
  Domains = {d1}
  MaxTunnels = 1
  MaxTunnelID = 2
INVARIANTS
  AllocationsLive
  WithinPlanUnlessRestarted
  LiveForwarded
  WaitsAreShort
PROPERTIES
  CallsEnd
  ImplementsEntryPoints
CHECK_DEADLOCK FALSE
