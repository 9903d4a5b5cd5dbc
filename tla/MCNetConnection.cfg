SPECIFICATION Spec
CONSTANTS
  Client = Client
  Server = Server
  MaxSequence = 5
  MaxPacketChunks = 2
  BufferChunks = 1
  Window = 2
  MaxSent <- MCMaxSent
  MaxNet = 2
  Talkers = {}
INVARIANTS TypeOK InOrder Retransmittable
PROPERTIES ChannelSpec AckMonotonic OnlyOldSkipped
CHECK_DEADLOCK FALSE
