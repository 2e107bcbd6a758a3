CONSTANTS
  s1 = s1
  s2 = s2
  n1 = n1
  n2 = n2
  standalone = standalone
  Servers = {s1, s2}
  Names = {n1, n2, standalone}
  Standalone = standalone
  NameOf <- TwoNodes
  PollPeriod = 1
  DefaultDelay = 3
  Delays = {}
  Outcomes = {"ok"}
  Events = {"exit"}
  MaxTime = 7
  MaxStart = 1
  MaxIds = 5
SPECIFICATION ClusterSpec
INVARIANTS NoOverlapOnExit
CHECK_DEADLOCK FALSE
SYMMETRY Swap
