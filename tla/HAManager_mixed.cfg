CONSTANTS
  s1 = s1
  s2 = s2
  n1 = n1
  n2 = n2
  standalone = standalone
  Servers = {s1, s2}
  Names = {n1, standalone}
  Standalone = standalone
  NameOf <- MixedMode
  PollPeriod = 2
  DefaultDelay = 1
  Delays = {2}
  Outcomes = {"ok", "lost", "nobegin"}
  Events = {"delay", "exit", "kill"}
  MaxTime = 4
  MaxStart = 4
  MaxIds = 5
SPECIFICATION Spec
INVARIANTS TypeOK SingleActive
CHECK_DEADLOCK FALSE
