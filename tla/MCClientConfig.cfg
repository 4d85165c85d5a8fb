SPECIFICATION Spec
CONSTANTS
  n1 = n1
  n2 = n2
  Nodes = {n1, n2}
  Platform = Platform
  Bandwidths = {0, 8, 12}
  MaxTunnels = 2
  MaxChanges = 3
INVARIANTS RunningAreServed OneNodeIsDialled LimitsExplained
CONSTRAINT FirstFile
SYMMETRY MCSymmetry
