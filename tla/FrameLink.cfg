SPECIFICATION FairSpec
CONSTANTS
  MaxFrame = 3
  BufferCapacity = 3
  Events <- MCEvents
  SocketCapacity = 3
  MaxSent = 3
INVARIANTS
  TypeOK
PROPERTIES
  ImplementsFifo
  FramesArrive
CHECK_DEADLOCK FALSE
