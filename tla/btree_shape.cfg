SPECIFICATION Spec
CONSTANTS
  Key = {1, 2, 3, 4, 5}
  Value = {0, 1}
  NONE = NONE
  LeafCap = 2
  InternalCap = 2
  SortedFree = TRUE
  Entries <- TwoValues
  FromSets = {}
  Calls = {"insert", "entry", "remove", "pop", "clear", "get", "get_mut", "get_by_eq"}
INVARIANTS RangeIsExact EverythingDropped
PROPERTY ImplementsMap
