SPECIFICATION FairSpec
CONSTANTS
  Items <- MCItems
  Deps <- MCDeps
  Configs <- MCConfigs
  Reconfigure = FALSE
  Priority = {"s"}
  LLDRules = {"d"}
  Discarded <- MCDiscarded
  Workers = {w1, w2}
  Batch = 2
  Stops = {"stopping", "aborting"}
  MaxValues = 2
  MaxTests = 1
INVARIANTS OneContainer CountersTrue NoLostWakeup CleanStop
PROPERTIES StreamSpec TestsAnswered
CHECK_DEADLOCK FALSE
