CONSTANTS
  Maps = 3
  MaxOverlap = 2
  Missing = {3}
  MaxTick = 5
  Window = 1
  InitEvery = 1
  RecoverEvery = 2
  MaxParts = 2
  MaxCrcErrors = 1
  MaxPackets = 2
  MaxInputs = 2
SPECIFICATION FairSpec
INVARIANTS TypeOK NoDanglingSnapshot StoredInOrder OnlyThisMap SameBase
PROPERTY EntersGame
CHECK_DEADLOCK FALSE
