SPECIFICATION Spec
CONSTANTS
  Client = Client
  Server = Server
  MaxSequence = 5
  MaxPacketChunks = 2
  BufferChunks = 1
  Window = 2
  MaxSent <- MCMaxSentTwice
  MaxNet = 1
  Talkers = {}
INVARIANT InOrder
PROPERTY OnlyOldSkipped
CHECK_DEADLOCK FALSE
