CONSTANTS
  s1 = s1
  s2 = s2
  n1 = n1
  n2 = n2
  standalone = standalone
  Servers = {s1, s2}
  Names = {n1, n2, standalone}
  Standalone = standalone
  NameOf <- TwoNodes
  PollPeriod = 1
  DefaultDelay = 3
  Delays = {}
  Outcomes = {"ok"}
  Events = {"crash", "remove"}
  MaxTime = 12
  MaxStart = 2
  MaxIds = 6
SPECIFICATION ClusterSpec
INVARIANTS FailoverDeadline
CHECK_DEADLOCK FALSE
SYMMETRY Swap
