SPECIFICATION FairSpec
CONSTANTS
  Client = Client
  Server = Server
  MaxSequence = 5
  MaxPacketChunks = 1
  BufferChunks = 2
  Window = 2
  MaxSent <- MCMaxSentFew
  MaxNet = 1
  Talkers <- MCTalkers
PROPERTY Delivery
CHECK_DEADLOCK FALSE
