\* Ring of 5, chunks of 2, all packets of one to three bytes over two values.
SPECIFICATION FairSpec
CONSTANTS
  Byte = {0, 1}
  Blank = 0
  CHUNK = 2
  BUFFER_SIZE = 5
  Packet <- MCPacket
PROPERTIES
  ImplementsQueue
  RefusedChunkIsSent
  LoopsAgree
