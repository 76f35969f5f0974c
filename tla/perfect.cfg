CONSTANTS
  Keys <- MCKeys
  Hashes <- MCHashes
  Hash <- MCHash
  Tag <- MCTag
  Mix <- MCMix
  SlotMix <- MCSlotMix
  Inputs <- MCInputs
  MaxSeeds = 3
  MaxDisp = 3
  CheckEvery = 2
  Threads = 2
  Lambda = 2
  SLOTS_PER_BUCKET = 2
  LambdaB = 19
  Lambda0 = 19
  LoadPercent = 110
SPECIFICATION Spec
INVARIANTS PhfIsPerfect ExhaustedIsHonest HoldsExactlyInput ErrorsAreHonest
PROPERTY BuildEnds
CHECK_DEADLOCK FALSE
