SPECIFICATION FairSpec
CONSTANTS
  a = a  b = b  c = c  p1 = p1  p2 = p2
  Byte = {a, b, c}
  Pieces <- MCPieces
  Producers = {p1, p2}
  BufSize = 3
  LocalSize = 2
  Garbage = Garbage
  MaxBytes = 5
INVARIANTS TypeOK NothingLost NoUseAfterFree
PROPERTIES ImplementsLog EventuallyWritten EventuallyFreed
