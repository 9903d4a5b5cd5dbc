CONSTANTS
  Maps = 3
  MaxOverlap = 2
  Missing = {3}
  MaxTick = 1
  Window = 1
  InitEvery = 1
  RecoverEvery = 2
  MaxParts = 1
  MaxCrcErrors = 1
  MaxPackets = 1
  MaxInputs = 1
SPECIFICATION FairSpec
PROPERTY StartInfoFollows
CHECK_DEADLOCK FALSE
