SPECIFICATION SpecWithReset
CONSTANTS
  Inputs <- ImageInputs
  CHUNK_BUFFER_SIZE = 20
INVARIANTS
  RefusedImageIsSecond
\* Decoding stops after IEND and after an error.
CHECK_DEADLOCK FALSE
