SPECIFICATION Spec
CONSTANTS
  MaxKeys = 4
  Keys = {1,2,3,4,5}
  Values = {1,2}
  Pairs <- AnyValue
  Ranges <- NoRanges
  Reinsert = TRUE
  MaxEntries = 6
PROPERTY
  InsertStores
