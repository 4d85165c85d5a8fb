SPECIFICATION FairSpec
CONSTANTS
  c1 = c1
  c2 = c2
  nil = nil
  None = nil
  Calls = {c1, c2}
  Ops <- OneTest
  MaxCrashes = 1
INVARIANTS
  OneServing
  StoppedStayDown
  BenchmarksOwned
  TestsCleanUp
  ConfigRestored
PROPERTIES
  StatusSettles
CHECK_DEADLOCK FALSE
