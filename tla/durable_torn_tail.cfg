SPECIFICATION Spec
CONSTANTS
  Keys = {k1}
  Values = {v1}
  NoKey = NoKey
  NoValue = NoValue
  Torn = Torn
  SyncMode = "SyncAlways"
  BatchSize = 0
  Faults = {"power", "tear"}
  MaxFaults = 2
  MaxSeq = 4
  Calls <- Inserts
  Bulks <- NoBulks
INVARIANT
  AckedReadable
