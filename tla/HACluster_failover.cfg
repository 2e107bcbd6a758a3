CONSTANTS
  s1 = s1
  s2 = s2
  n1 = n1
  n2 = n2
  standalone = standalone
  Servers = {s1, s2}
  Names = {n1, n2, standalone}
  Standalone = standalone
  NameOf <- TwoNodes
  PollPeriod = 2
  DefaultDelay = 4
  Delays = {}
  Outcomes = {"ok", "nobegin"}
  Events = {}
  MaxTime = 12
  MaxStart = 1
  MaxIds = 5
SPECIFICATION ClusterSpec
INVARIANTS ServingLease
PROPERTIES ElectionSpec
CHECK_DEADLOCK FALSE
SYMMETRY Swap
