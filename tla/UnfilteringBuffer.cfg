SPECIFICATION FairSpec
CONSTANTS
  LOOKBACK_SIZE = 3
  GROWTH_BYTES = 4
  shift_back_limit = 3
  TAIL_COPY = 2
  Frames <- WholeFrames
  StreamSizes <- Sizes
INVARIANTS
  TypeOK
  BytesAccounted
  LookbackKept
  RoomForData
  LenientAfterLastPixel
PROPERTIES
  WindowIsQueue
  RowCallReturns
\* A decoder that has failed and delivered every buffered row stops.
CHECK_DEADLOCK FALSE
