SPECIFICATION Spec
CONSTANTS
  k1 = k1
  k2 = k2
  k3 = k3
  k4 = k4
  GroupSize = 2
  GroupCounts = {1, 2, 4}
  HashSpace = 8
  ReserveArgs = {1, 3}
  EMPTY = EMPTY
  TOMB = TOMB
  NONE = NONE
  Key = {k1, k2, k3, k4}
  Hash <- HashLow4
  IndexHigh = FALSE
  Value = {1, 2}
  Pairs <- TwoForOne
INVARIANTS TypeOK NoLostEntry LookupsEnd CountersExact
PROPERTIES ImplementsMap CallsReturn
