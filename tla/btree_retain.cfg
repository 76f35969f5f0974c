SPECIFICATION Spec
CONSTANTS
  Key = {1, 2, 3, 4, 5}
  Value = {0, 1}
  NONE = NONE
  LeafCap = 2
  InternalCap = 2
  SortedFree = TRUE
  Entries <- OwnValue
  FromSets = {}
  Calls = {"insert", "remove", "retain", "shrink_to_fit", "entry", "clear", "remove_by_eq"}
INVARIANTS WellLinked EveryEntryFound ArenaAccounted
PROPERTIES ImplementsMap WorkShrinks
