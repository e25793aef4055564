SPECIFICATION Spec
CONSTANTS
  MaxKeys = 2
  Keys = {1,2,3,4,5,6,7,8,9}
  Values = {0,1,2,3,4,5,6,7,8,9}
  Pairs <- OneUpdate
  Ranges <- TwoRanges
  Reinsert = FALSE
  MaxEntries = 10
INVARIANTS
  Balanced
  NodeSizes
  StrictlyOrdered
  NothingUnreachable
  RangeExact
  SweptAbsent
PROPERTY
  ImplementsMap
