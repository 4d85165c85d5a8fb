SPECIFICATION FairSpec
CONSTANTS
  d1 = d1
  d2 = d2
  u1 = u1
  u2 = u2
  w1 = w1
  w2 = w2
  sched = sched
  Domains = {d1, d2}
  Users = {u1}
  Workers = {w1}
  Scheduler = sched
  BeforeDays = 1
  CertbotDays = 1
  Validity = 2
  ListLimit = 2
  MaxTime = 2
  MaxFaults = 1
  nil = nil
INVARIANTS
  RecordNeverAhead
PROPERTIES
  OwnerKept
  DueIsRenewed
CHECK_DEADLOCK FALSE
