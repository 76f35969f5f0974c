SPECIFICATION Spec
CONSTANTS
  Key = {1, 2, 3, 4, 5}
  Value = {0, 1}
  NONE = NONE
  LeafCap = 2
  InternalCap = 2
  SortedFree = FALSE
  Entries <- OwnValue
  FromSets = {}
  Calls = {"insert", "retain"}
INVARIANT LowerBoundIsExact
