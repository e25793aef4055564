SPECIFICATION WALSpec
CONSTANTS
  Keys = {k1}
  Values = {v1}
  NoKey = NoKey
  NoValue = NoValue
  Torn = Torn
  SyncMode = "SyncBatch"
  BatchSize = 2
  Faults = {"kill", "power", "tear", "write", "fsync", "open"}
  MaxFaults = 2
  MaxSeq = 3
  Calls <- OneInsert
INVARIANTS
  WALTypeOK
  SequenceAscends
  ArchiveCovers
