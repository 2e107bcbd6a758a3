CONSTANTS
  log = log
  cpu = cpu
  both = both
  own = own
  Item = {log, cpu}
  LogItem = {log}
  Trigger = {both}
  TriggersOf <- MCTriggersOf
  Timer = {both}
  Syncer = {s1}
  Flusher = {f1}
  Capacity = 2
  SyncMax = 1
  FlushMax = 2
  MaxRecords <- MCMaxRecords
  Unstable = {log}
  MaxToggles = 0
  MaxClears = 1
  MaxCrashes = 0
SPECIFICATION Spec
INVARIANTS ReadStable MetaKept CounterTrue
