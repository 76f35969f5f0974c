SPECIFICATION Spec
CONSTANTS
  k1 = k1
  k2 = k2
  k3 = k3
  k4 = k4
  k5 = k5
  GroupSize = 2
  GroupCounts = {1, 2, 4}
  MaskBits = 1
  HashSpace = 8
  ReserveArgs = {1, 3}
  EMPTY = EMPTY
  NONE = NONE
  Key = {k1, k2, k3, k4, k5}
  Hash <- HashLow
  IndexHigh = FALSE
  NumChannels = 1
  Value = {1}
INVARIANTS TypeOK InsertEnds LoadWithinLimit DriftAccounted LookupsEnd
