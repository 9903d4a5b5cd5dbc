SPECIFICATION Spec
CONSTANTS
  RingSize = 2
  Outstanding = 3
  MaxQueries = 3
  Kinds = {"read", "write"}
INVARIANT AllProcessed
CHECK_DEADLOCK FALSE
