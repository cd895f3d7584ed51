SPECIFICATION SpecWithReset
CONSTANTS
  Inputs <- FramingInputs
  CHUNK_BUFFER_SIZE = 20
INVARIANTS
  TypeOK
  KeepsItsPlace
  ChunkReadWhole
  WithinLimits
\* Decoding stops after IEND and after an error.
CHECK_DEADLOCK FALSE
