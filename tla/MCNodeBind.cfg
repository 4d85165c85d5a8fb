SPECIFICATION FairSpec
CONSTANTS
  n1 = n1
  n2 = n2
  a1 = a1
  a2 = a2
  nil = nil
  None = nil
  Nodes = {n1, n2}
  Agents = {a1, a2}
  MaxLosses = 2
INVARIANTS
  OneAgentPerBindToken
  ServingSurvivesRestart
PROPERTIES
  ServesInTheEnd
CHECK_DEADLOCK FALSE
