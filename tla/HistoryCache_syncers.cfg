CONSTANTS
  log = log
  cpu = cpu
  both = both
  own = own
  Item = {log, cpu}
  LogItem = {}
  Trigger = {both}
  TriggersOf <- MCTriggersOf
  Timer = {}
  Syncer = {s1, s2}
  Flusher = {f1}
  Capacity = 2
  SyncMax = 2
  FlushMax = 1
  MaxRecords <- MCMaxRecordsLive
  Unstable = {}
  MaxToggles = 1
  MaxClears = 0
  MaxCrashes = 1
SPECIFICATION FairSpec
INVARIANTS TypeOK OneOwner TriggerExclusive WrittenOnce NoLoss
PROPERTIES Processed ShutdownEnds
