SPECIFICATION WALSpec
CONSTANTS
  Keys = {k1}
  Values = {v1}
  NoKey = NoKey
  NoValue = NoValue
  Torn = Torn
  SyncMode = "SyncAlways"
  BatchSize = 0
  Faults = {"kill"}
  MaxFaults = 1
  MaxSeq = 2
  Calls <- OneInsert
INVARIANT
  SequenceUnique
