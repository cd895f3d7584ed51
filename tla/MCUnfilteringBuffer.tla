------------------------ MODULE MCUnfilteringBuffer ------------------------
(* Small instances of UnfilteringBuffer: frames of a few rows, a window of  *)
(* a few bytes and a look-back shorter than a frame.                        *)
EXTENDS UnfilteringBuffer, FrameLayout

\* Greyscale images of four rows, of three and of a single one, and a 5 x 3 interlaced
\* image of one bit per pixel, in which pass 6 has two rows.
WholeFrames ==
  { Layout(2, 4, FALSE, 8), Layout(5, 3, TRUE, 1), Layout(3, 3, FALSE, 8),
    Layout(3, 1, FALSE, 8) }

Sizes == { 0, 5, 11, 12, 14, 15 }
=============================================================================
