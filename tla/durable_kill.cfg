SPECIFICATION LiveSpec
CONSTANTS
  Keys = {k1, k2}
  Values = {v1, v2}
  NoKey = NoKey
  NoValue = NoValue
  Torn = Torn
  SyncMode = "SyncBatch"
  BatchSize = 2
  Faults = {"kill", "fsync", "open"}
  MaxFaults = 2
  MaxSeq = 3
  Calls <- AllOps
  Bulks <- Pairs
INVARIANTS
  TreeMatchesLog
  AckedReadable
  AckedApplied
PROPERTIES
  CallsReturn
  Recovers
