\* Assignment, takeover, flush and synchronisation when edits are flushed one
\* at a time
SPECIFICATION Spec
CONSTANTS
  g1 = g1  g2 = g2  a = a  b = b  h1 = h1  h2 = h2
  Proxy = {a, b}
  Host = {h1, h2}
  Group = {g1, g2}
  NoProxy = NoProxy  NoGroup = NoGroup  Standalone = Standalone  Gone = Gone
  ProxyHome <- ProxyPair
  HostHome <- HostsIn
  RowHome <- OnA
  Watch = {a}
  HostTargets = {g1, g2, NoGroup, Gone}
  Moves <- MovesPair
  MinOnline = 1
  UnbalanceLimit = 10
  UnbalanceFactor = 2
  OneAtATime = TRUE
  MaxEvents = 2
  MaxRevision = 3
SYMMETRY HostSymmetry
INVARIANTS TypeOK RefsTrue NoneForgotten DbAgrees 
CHECK_DEADLOCK TRUE
