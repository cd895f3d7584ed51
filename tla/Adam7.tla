-------------------------------- MODULE Adam7 --------------------------------
(***************************************************************************)
(* Interlacing, adam7.rs: Adam7Iterator, which says what the next row is,  *)
(* and the two ways to put that row into an image, expand_pass and         *)
(* expand_pass_splat.  One step is one turn of the iterator; a row it      *)
(* yields goes into two images, one by either way.                         *)
(*                                                                         *)
(* An image is a function of its units: bits if a pixel is smaller than a  *)
(* byte, bytes otherwise.  A unit is abstracted to the set of row units    *)
(* that make it up: none for a zero, one if the row unit was stored, more  *)
(* if several were or-ed together.                                         *)
(***************************************************************************)
EXTENDS FrameLayout, FiniteSets

CONSTANT Frames  \* the frames: width, height and bits_pp, and the width of the image

ASSUME FramesAssumption ==
  \A f \in Frames :
    /\ f.width \in Nat \ {0} /\ f.height \in Nat \ {0}
    /\ f.image_width \in Nat /\ f.image_width >= f.width
    /\ f.bits_pp \in {1, 2, 4} \/ (f.bits_pp \in Nat \ {0} /\ f.bits_pp % 8 = 0)

VARIABLES
  frame,
  it,      \* the Adam7Iterator
  sparse,  \* the image that expand_pass fills
  splat    \* the image that expand_pass_splat fills

vars == << frame, it, sparse, splat >>

-----------------------------------------------------------------------------
(* Units.  bits says whether they are bits.                                *)

bits == frame.bits_pp < 8
pixel_units == IF bits THEN frame.bits_pp ELSE frame.bits_pp \div 8

\* The row stride in bytes that next_frame passes: a line of the image, without the
\* filter byte.
Stride(f) == raw_row_length(f.bits_pp, f.image_width) - 1
row_stride == Stride(frame)
stride_units == IF bits THEN 8 * row_stride ELSE row_stride

ImageUnits(f) == 0 .. f.height * Stride(f) * (IF f.bits_pp < 8 THEN 8 ELSE 1) - 1

\* What the image held before, and the u-th unit of a row.
Old == << 0, 0, 0 >>
RowUnit(row, u) == << row.pass, row.line, u >>

-----------------------------------------------------------------------------
(* The iterator.                                                           *)

\* Fault: the line is not reset.
InitPassKeepingLine(f, pass, line) ==
  [current_pass |-> pass, line |-> line,
   lines |-> count_lines(pass, f.height), line_width |-> count_samples(pass, f.width)]

\* Adam7Iterator::init_pass; line is where the pass before it ended.
init_pass(f, pass, line) ==
  [current_pass |-> pass, line |-> 0,
   lines |-> count_lines(pass, f.height), line_width |-> count_samples(pass, f.width)]

\* The pass has another line.
HasLine == it.line < it.lines /\ it.line_width > 0

\* The Adam7Info that next() returns.
Adam7Info ==
  [pass |-> it.current_pass, line |-> it.line, width |-> frame.width,
   samples |-> it.line_width]

-----------------------------------------------------------------------------
(* Where a row goes.                                                       *)

prog_line(row) == PASSES[row.pass].y_sampling * row.line + PASSES[row.pass].y_offset
x_pixel(row, i) == PASSES[row.pass].x_sampling * i + PASSES[row.pass].x_offset

\* expand_adam7_bits: a BitPosition, given as the bit it denotes.
expand_adam7_bits(row, i) ==
  LET at == x_pixel(row, i) * frame.bits_pp
      byte == prog_line(row) * row_stride + at \div 8
      bit == at % 8
  IN 8 * byte + bit

expand_adam7_bytes(row, i) ==
  x_pixel(row, i) * pixel_units + prog_line(row) * row_stride

Target(row, i) == IF bits THEN expand_adam7_bits(row, i) ELSE expand_adam7_bytes(row, i)

\* subbyte_values, or the chunks of the row: the first unit of the i-th pixel.  A byte
\* holds its pixels from the top, at these shifts.
BIT_POS(n) == 8 - frame.bits_pp * (n + 1)

Origin(i) ==
  IF bits
  THEN LET per_byte == 8 \div frame.bits_pp
       IN 8 * (i \div per_byte) + (8 - frame.bits_pp - BIT_POS(i % per_byte))
  ELSE i * pixel_units

lesser(m, n) == IF m <= n THEN m ELSE n

\* Faults: pixels are repeated beyond the end of the line; to the next sample of the
\* pass, whatever lies between.
RepeatBeyondWidth(row, i) == PASSES[row.pass].x_sampling - PASSES[row.pass].x_offset
RepeatWholeSampling(row, i) ==
  lesser(frame.width - x_pixel(row, i), PASSES[row.pass].x_sampling)

splat_pixel_repeat(row, i) ==
  lesser(frame.width - x_pixel(row, i),
         PASSES[row.pass].x_sampling - PASSES[row.pass].x_offset)

\* Fault: the last line of the block is left out.
RepeatTooFewLines(row) ==
  lesser(frame.height - prog_line(row),
         PASSES[row.pass].y_sampling - PASSES[row.pass].y_offset - 1)

\* The image has as many lines as the frame.
splat_line_repeat(row) ==
  lesser(frame.height - prog_line(row),
         PASSES[row.pass].y_sampling - PASSES[row.pass].y_offset)

\* Which unit of the image gets which unit of the row.
SparseCopies(row) ==
  { << Target(row, i) + k, Origin(i) + k >> :
      i \in 0 .. row.samples - 1, k \in 0 .. pixel_units - 1 }

SplatCopies(row) ==
  UNION { { << Target(row, i) + x * pixel_units + k + y * stride_units, Origin(i) + k >> :
              x \in 0 .. splat_pixel_repeat(row, i) - 1,
              y \in 0 .. splat_line_repeat(row) - 1,
              k \in 0 .. pixel_units - 1 } :
          i \in 0 .. row.samples - 1 }

Written(copies, row, u) == { RowUnit(row, c[2]) : c \in { d \in copies : d[1] = u } }

\* Units are stored, or or-ed into what is there.
Store(image, copies, row) ==
  LET written == { c[1] : c \in copies }
  IN [u \in DOMAIN image |-> IF u \in written THEN Written(copies, row, u) ELSE image[u]]

OrInto(image, copies, row) ==
  [u \in DOMAIN image |-> image[u] \cup Written(copies, row, u)]

expand_pass(image, row) ==
  IF bits THEN OrInto(image, SparseCopies(row), row) ELSE Store(image, SparseCopies(row), row)

expand_pass_splat(image, row) == Store(image, SplatCopies(row), row)

-----------------------------------------------------------------------------
\* The sparse image is zero if its bits are or-ed.
Init ==
  /\ frame \in Frames
  /\ it = init_pass(frame, 1, 0)
  /\ sparse = [u \in ImageUnits(frame) |-> IF bits THEN {} ELSE {Old}]
  /\ splat = [u \in ImageUnits(frame) |-> {Old}]

NextLine ==
  /\ HasLine
  /\ it' = [it EXCEPT !.line = @ + 1]
  /\ sparse' = expand_pass(sparse, Adam7Info)
  /\ splat' = expand_pass_splat(splat, Adam7Info)
  /\ UNCHANGED frame

NextPass ==
  /\ ~ HasLine
  /\ it.current_pass < 7
  /\ it' = init_pass(frame, it.current_pass + 1, it.line)
  /\ UNCHANGED << frame, sparse, splat >>

Next == NextLine \/ NextPass

Spec == Init /\ [][Next]_vars

-----------------------------------------------------------------------------
(* The reference: which pass a pixel belongs to is read off the pattern at *)
(* the head of Adam7Iterator, and its place in the pass is counted.        *)

Pattern ==
  << << 1, 6, 4, 6, 2, 6, 4, 6 >>, << 7, 7, 7, 7, 7, 7, 7, 7 >>,
     << 5, 6, 5, 6, 5, 6, 5, 6 >>, << 7, 7, 7, 7, 7, 7, 7, 7 >>,
     << 3, 6, 4, 6, 3, 6, 4, 6 >>, << 7, 7, 7, 7, 7, 7, 7, 7 >>,
     << 5, 6, 5, 6, 5, 6, 5, 6 >>, << 7, 7, 7, 7, 7, 7, 7, 7 >> >>

PassOf(x, y) == Pattern[(y % 8) + 1][(x % 8) + 1]
LineOf(x, y) == Cardinality({ v \in 0 .. y - 1 : PassOf(x, v) = PassOf(x, y) })
SampleOf(x, y) == Cardinality({ v \in 0 .. x - 1 : PassOf(v, y) = PassOf(x, y) })

\* The row unit that belongs into the k-th unit of a pixel, and the image unit it has.
Own(x, y, k) == << PassOf(x, y), LineOf(x, y), SampleOf(x, y) * pixel_units + k >>
UnitOf(x, y, k) == y * stride_units + x * pixel_units + k

Pixels == (0 .. frame.width - 1) \X (0 .. frame.height - 1)
Holds(image, x, y) ==
  \A k \in 0 .. pixel_units - 1 : image[UnitOf(x, y, k)] = {Own(x, y, k)}

Done == ~ HasLine /\ it.current_pass = 7

\* The row a pixel belongs to has been yielded.
Delivered(x, y) ==
  \/ PassOf(x, y) < it.current_pass
  \/ PassOf(x, y) = it.current_pass /\ LineOf(x, y) < it.line

\* What lies in the image beside the frame.
BesideUntouched ==
  \A u \in DOMAIN splat :
    (u % stride_units) >= frame.width * pixel_units =>
      splat[u] = {Old} /\ sparse[u] \subseteq {Old}

\* When the iterator has come to its end both ways have put every pixel of the image
\* where it belongs, whatever its size, depth and stride, and nothing beside it.
ImageRecovered ==
  Done => /\ \A p \in Pixels : Holds(sparse, p[1], p[2]) /\ Holds(splat, p[1], p[2])
          /\ BesideUntouched

\* A pixel that was delivered stays: neither later rows nor the repetition of pixels
\* touches it ("Data written in previous passes must not be modified").
DeliveredStays ==
  \A p \in Pixels :
    Delivered(p[1], p[2]) => Holds(sparse, p[1], p[2]) /\ Holds(splat, p[1], p[2])

\* From the end of the first pass on the splat image has no holes: it can be shown.
NoHoles ==
  it.current_pass > 1 =>
    \A p \in Pixels, k \in 0 .. pixel_units - 1 : Old \notin splat[UnitOf(p[1], p[2], k)]
=============================================================================
