SPECIFICATION Spec
CONSTANT
  ByteSize = 8
  ZeroRun = 2
  Stride = 2
  Jobs <- StreamedFrames
INVARIANT
  RowsRecovered
CHECK_DEADLOCK FALSE
