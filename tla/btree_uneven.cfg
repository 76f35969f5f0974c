SPECIFICATION PairSpec
CONSTANTS
  Key = {1, 2, 3, 4, 5, 6, 7, 8, 9, 10, 11, 12, 13, 14, 15, 16, 17, 18, 19}
  Value = {0, 1}
  NONE = NONE
  LeafCap = 2
  InternalCap = 2
  SortedFree = TRUE
  Entries = {}
  FromSets <- Runs
  Calls = {"from_iter","split_off","append","append_concat","split_off_drain","clone","switch","search"}
  Cutoffs = {0, 7}
  MaxSurgeries = 2
INVARIANT SpineIsHeight
CHECK_DEADLOCK FALSE
