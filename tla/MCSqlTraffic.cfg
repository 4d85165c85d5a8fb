SPECIFICATION Spec
CONSTANTS
  t1 = t1
  t2 = t2
  u1 = u1
  u2 = u2
  p1 = p1
  p2 = p2
  o1 = o1
  o2 = o2
  c1 = c1
  nil = nil
  None = nil
  Calls = {t1, t2}
  Users = {u1}
  Plans = {p1}
  Orders = {}
  Codes = {c1}
  MaxSubs = 3
  MaxBytes = 2
INVARIANTS
  TrafficChargedOnce
CHECK_DEADLOCK FALSE
