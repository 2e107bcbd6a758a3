CONSTANTS
  w1 = w1
  w2 = w2
  Writers = {w1, w2}
  Modes = {"disk", "hybrid", "memory"}
  SerialDb = FALSE
  Capacity = 2
  Limit = 2
  Events <- MCEvents
  Syncers <- MCSyncers
  MaxBatch = 2
  MaxValues = 3
  MaxStarts = 2
SPECIFICATION FairSpec
INVARIANTS TypeOK NoLoss MemoryClean
PROPERTIES Delivered
