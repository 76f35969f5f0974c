SPECIFICATION Spec
CONSTANTS
  a = a
  b = b
  Key = {1, 2, 3}
  Value = {a, b}
  NONE = NONE
  HashKinds = {"Splitsies", "Tomb"}
  Tombstoned = {"Tomb"}
  GroupSize <- Sizes
  LeafCap = 2
  Policies <- SomePolicies
  StartCaps = {0, 3}
  ReserveArgs = {0, 1, 3}
  Others <- SomeMaps
  GroupCounts = {1, 2, 4, 8, 16}
  MaxNodes = 4
  MaxNewNodes = 2
INVARIANT TransitionHasRoom
PROPERTIES ImplementsMap CallsReturn
