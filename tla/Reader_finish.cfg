SPECIFICATION Spec
CONSTANTS
  NumFrames = {0, 1, 2}
  Height = 2
  MaxFctl = 3
INVARIANTS
  NextFrameInfoReturns
\* Nothing runs after a panic or when read_info has failed.
CHECK_DEADLOCK FALSE
