SPECIFICATION Spec
CONSTANTS
  Keys = {k1}
  Values = {v1}
  NoKey = NoKey
  NoValue = NoValue
  Torn = Torn
  SyncMode = "SyncAlways"
  BatchSize = 0
  Faults = {"kill"}
  MaxFaults = 1
  MaxSeq = 4
  Calls <- Inserts
  Bulks <- Pairs
INVARIANT
  BulkAtomic
