SPECIFICATION OutputSpec
CONSTANTS
  Frames <- AllFrames
  PaletteSize = 256
INVARIANTS
  ImageRecovered
  DeliveredStays
  NoHoles
  RowTransformed
  PaletteMemoized
  RowsFit
\* The iterator comes to an end, and so does a Reader that has no palette.
CHECK_DEADLOCK FALSE
