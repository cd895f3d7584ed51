SPECIFICATION FairSpec
CONSTANTS
  Inputs <- ChunkInputs
  CHUNK_BUFFER_SIZE = 20
INVARIANTS
  IgnoredLeavesNoTrace
PROPERTIES
  FrameControlGoverns
  FreshStreamPerRun
  AnnouncesData
  ContentsEnd
  FirstChunkCounts
  SettledBeforeData
\* Decoding stops after IEND and after an error.
CHECK_DEADLOCK FALSE
