SPECIFICATION Spec
CONSTANT
  ByteSize = 8
  ZeroRun = 2
  Stride = 2
  Jobs <- WholeFrames
INVARIANTS
  TypeOK
  RowsRecovered
PROPERTY
  CheapestChosen
\* Images end.
CHECK_DEADLOCK FALSE
