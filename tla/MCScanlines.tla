----------------------------- MODULE MCScanlines ------------------------------
(* Small instances of Scanlines.  Bytes have 8 values in the runs.             *)
EXTENDS Scanlines

LOCAL B == INSTANCE Bitwise

\* The encoder averages without a carry: (a & b) + ((a ^ b) >> 1) is the average of any two
\* bytes, rounded down.
ASSUME AverageOfBits ==
  \A x, y \in 0 .. 255 :
    (B!&(x, y)) + (B!^^(x, y) \div 2) = Average(x, y)

Job(stream, pixel, width, image_width, height, frames, rows) ==
  [stream |-> stream, bpp |-> pixel, width |-> width, image_width |-> image_width,
   height |-> height, frames |-> frames, rows |-> rows]

AllRows(n, samples) == [1 .. n -> samples]

\* one row that rises, one that falls and wraps, one that jumps
SomeRows(n) == { [i \in 1 .. n |-> i % 8], [i \in 1 .. n |-> (5 * i * i) % 8],
                 [i \in 1 .. n |-> (7 - 3 * i) % 8] }

\* images of one and two frames, and a stream of one frame as wide as the image; with pixels of
\* 3 and 4 bytes SIMD strides of two pixels, one of them cut short
WholeFrames ==
  { Job(FALSE, 1, 3, 3, 2, 1, AllRows(3, {0, 6})),
    Job(FALSE, 2, 2, 2, 2, 1, AllRows(4, {3, 4})),
    Job(FALSE, 1, 2, 2, 1, 2, AllRows(2, {2, 7})),
    Job(TRUE,  1, 3, 3, 2, 1, SomeRows(3)),
    Job(FALSE, 3, 5, 5, 2, 1, SomeRows(15)), Job(FALSE, 4, 4, 4, 2, 1, SomeRows(16)) }

\* a stream that goes on to a second frame, and one of a frame narrower than the image
StreamedFrames == { Job(TRUE, 1, 2, 2, 1, 2, AllRows(2, {1, 2})),
                    Job(TRUE, 1, 2, 3, 2, 1, AllRows(2, {1, 2})) }
===============================================================================
