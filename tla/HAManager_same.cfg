CONSTANTS
  s1 = s1
  s2 = s2
  n1 = n1
  n2 = n2
  standalone = standalone
  Servers = {s1, s2}
  Names = {n1, standalone}
  Standalone = standalone
  NameOf <- SameName
  PollPeriod = 1
  DefaultDelay = 2
  Delays = {}
  Outcomes = {"ok", "lost", "nocommit"}
  Events = {"remove", "restart"}
  MaxTime = 4
  MaxStart = 5
  MaxIds = 6
SPECIFICATION Spec
INVARIANTS RegistryInv
PROPERTIES RowOwnership
CHECK_DEADLOCK FALSE
