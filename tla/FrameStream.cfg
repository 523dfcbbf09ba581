SPECIFICATION FairStreamSpec
CONSTANTS
  MaxFrame = 2
  BufferCapacity = 3
  MaxStream = 6
INVARIANTS
  StreamTypeOK
  FramesAreTheLines
PROPERTIES
  ReaderEnds
CHECK_DEADLOCK FALSE
