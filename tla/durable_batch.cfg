SPECIFICATION Spec
CONSTANTS
  Keys = {k1}
  Values = {v1}
  NoKey = NoKey
  NoValue = NoValue
  Torn = Torn
  SyncMode = "SyncBatch"
  BatchSize = 2
  Faults = {"power", "tear", "open"}
  MaxFaults = 2
  MaxSeq = 5
  Calls <- Inserts
  Bulks <- NoBulks
INVARIANTS
  LossBound
