SPECIFICATION Spec
CONSTANTS
  Keys = {k1}
  Values = {v1}
  NoKey = NoKey
  NoValue = NoValue
  Torn = Torn
  SyncMode = "SyncAlways"
  BatchSize = 0
  Faults = {"kill", "power", "tear", "write", "fsync", "open"}
  MaxFaults = 2
  MaxSeq = 3
  Calls <- AllOps
  Bulks <- Pairs
INVARIANTS
  TypeOK
  CallInv
  TreeMatchesLog
  AckedIntact
