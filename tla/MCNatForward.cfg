SPECIFICATION FairSpec
CONSTANTS
  c1 = c1
  c2 = c2
  web = web
  ssh = ssh
  Callers = {c1, c2}
  Guests = {web, ssh}
  HostPorts = {1, 2, 3}
  MaxAttempts = 2
  MaxFaults = 2
  NoPort = 0
INVARIANTS
  EntriesMapped
  DuplicatesExplained
PROPERTIES
  CallsEnd
CHECK_DEADLOCK FALSE
