SPECIFICATION FairSpec
CONSTANTS
  RingSize = 3
  Outstanding = 2
  MaxQueries = 4
  Kinds = {"read", "write", "print", "add read", "add write", "add backup"}
INVARIANTS TypeOK NotLost BackedFirst HonestResults AllProcessed
PROPERTIES EventuallyCompleted ShutdownReturns
CHECK_DEADLOCK FALSE
