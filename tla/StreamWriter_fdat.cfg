SPECIFICATION Spec
CONSTANTS
  Width = 2
  Height = 2
  Infos <- AllInfos
  Texts <- OneText
  TextLimits = {1, 4}
  MaxKeyword = 2
  NumFrames = {0, 2}
  CompressedSizes = {1, 2}
  MAX_IDAT_CHUNK_LEN = 5
  MaxImages = 3
  MaxChunks = 5
  MaxRetried = 2
  MaxStreamed = 2
  MaxEmitted = 3
  BufLens = {6}
  Emissions = {0, 2}
  DataLens = {1, 2}
INVARIANT
  LaterImagesAreFdat
\* The writer is gone at last.
CHECK_DEADLOCK FALSE
