SPECIFICATION Spec
CONSTANTS
  k1 = k1
  k2 = k2
  k3 = k3
  k4 = k4
  k5 = k5
  Key = {k1, k2, k3, k4, k5}
  Hash <- MCHash
  HashSpace = 8
  IndexHigh = TRUE
  GroupSize = 2
  GroupCounts = {1, 2, 4}
  NumChannels = 2
  ReserveArgs = {3}
  OtherSets <- MCOthers
  OtherTaken = {k3}
  EMPTY = EMPTY
  NONE = NONE
INVARIANTS SoundAfterPanic FlatAlgebraRight GenericAlgebraRight
PROPERTY ImplementsSet
CHECK_DEADLOCK FALSE
