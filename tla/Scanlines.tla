------------------------------ MODULE Scanlines -------------------------------
(* The rows of an image on their way from the program that encodes them to the *)
(* one that decodes them.  The encoder is either Writer::write_image_data or   *)
(* StreamWriter::write; it picks a filter for the row (adaptive_filter, trying *)
(* four in one output buffer), and puts the filter type and the filtered row   *)
(* on the wire.  The decoder takes as many bytes as its rows are long and      *)
(* unfilters them in place, pixel by pixel or, with SIMD, stride by stride.    *)
(*                                                                             *)
(* The wire stands for compressor, chunks and inflater, which keep bytes and   *)
(* their order.  A row is encoded when the decoder cannot take another one:    *)
(* the two share nothing else, so that running further ahead changes nothing.  *)
EXTENDS RowFilters

CONSTANTS
  Jobs,     \* the images: see JobsAssumption
  Stride    \* pixels of a SIMD stride: 16

ASSUME StrideAssumption  == Stride \in Nat \ {0}

\* stream: rows are handed to a StreamWriter.  bpp: bytes per pixel.  width, height:
\* pixels of the frame.  image_width: of the image, which is the length of the
\* stream's buffers.  frames: how many frames are encoded by the same writer.  rows: what
\* the rows may hold.
ASSUME JobsAssumption ==
  \A j \in Jobs : /\ j.stream \in BOOLEAN /\ j.bpp \in {1, 2, 3, 4, 6, 8}
                  /\ {j.width, j.height, j.frames} \subseteq Nat \ {0}
                  /\ j.image_width \in Nat /\ j.image_width >= j.width
                  /\ j.rows \subseteq [1 .. j.width * j.bpp -> Byte]

VARIABLES
  job, build,
  frame,    \* number of the frame
  image,    \* the rows of this frame that the encoder was given
  enc,      \* the encoder
  wire,     \* bytes written and not yet read
  dec,      \* the decoder
  decoded   \* the rows of this frame that the decoder gave out

vars == <<job, build, frame, image, enc, wire, dec, decoded>>

bpp     == job.bpp
len     == job.width * job.bpp                            \* in_len, line_len
buf_len == IF job.stream THEN job.image_width * job.bpp   \* raw_row_length() - 1
                         ELSE len

Zeros(n) == [i \in 1 .. n |-> 0]

-------------------------------------------------------------------------------
(* The encoder.  method: the Filter of its options.  stored: lines are written *)
(* as they are, without compression.  previous, current, output: its buffers.  *)
(* k: the candidate to be tried next, 0 when there is no row under way.        *)
(* choice, cost: filter_choice and min_cost, from the second candidate on.     *)

Candidates == <<Up, Sub, Avg, Paeth>>

EncoderStart(method, stored) ==
  [method |-> method, stored |-> stored, k |-> 0, choice |-> NoFilter, cost |-> 0,
   previous |-> Zeros(buf_len), current |-> Zeros(buf_len), output |-> Zeros(buf_len)]

\* Fault: the row above is that of the frame before
NextFrameStale(method, stored) == [enc EXCEPT !.method = method, !.stored = stored]

\* write_image_data on a new frame starts afresh; a stream has its buffers since `new`
NextFrame(method, stored) ==
  IF job.stream THEN [enc EXCEPT !.method = method] ELSE EncoderStart(method, stored)

\* the row fills the first line_len bytes of curr_buf
Filled(row) == row \o SubSeq(enc.current, len + 1, buf_len)

\* a row is complete, and its filter type is given or yet to be found
GiveRow(row) ==
  /\ enc.k = 0 /\ Len(image) < job.height /\ Len(wire) < len + 1
  /\ dec.state # "failed"
  /\ image' = Append(image, row)
  /\ enc' = [enc EXCEPT !.current = Filled(row), !.k = 1]
  /\ UNCHANGED <<job, build, frame, wire, dec, decoded>>

Emit(filter, output) ==
  /\ wire' = wire \o <<filter>> \o output
  /\ enc' = [enc EXCEPT !.k = 0, !.output = output, !.choice = filter,
                        !.previous = enc.current,
                        !.current = IF job.stream THEN enc.previous ELSE enc.current]
  /\ UNCHANGED <<job, build, frame, image, dec, decoded>>

StoreRow == enc.k = 1 /\ enc.stored /\ Emit(NoFilter, enc.current)

EncodePlain ==
  /\ enc.k = 1 /\ ~enc.stored /\ ~ChoosesForItself(enc.method)
  /\ Emit(enc.method, FilterInternal(enc.method, bpp, enc.previous, enc.current))

\* the output buffer with the next candidate's row
Trial == FilterInternal(Candidates[enc.k], bpp, enc.previous, enc.current)

\* Fault: the last candidate tried is taken
ImprovesAlways == TRUE

Improves == enc.k = 1 \/ Cost(enc.method, Trial) <= enc.cost

TryCandidate ==
  /\ enc.k \in DOMAIN Candidates /\ ~enc.stored /\ ChoosesForItself(enc.method)
  /\ IF Improves /\ Cost(enc.method, Trial) = 0
     THEN Emit(Candidates[enc.k], Trial)
     ELSE /\ enc' = [enc EXCEPT !.k = @ + 1, !.output = Trial,
                       !.choice = IF Improves THEN Candidates[enc.k] ELSE @,
                       !.cost   = IF Improves THEN Cost(enc.method, Trial) ELSE @]
          /\ UNCHANGED <<job, build, frame, image, wire, dec, decoded>>

\* Fault: the output buffer is taken as it is
RefilteredNot == enc.output

\* The output buffer holds the row as the last candidate filtered it.
Refiltered ==
  IF enc.choice = Paeth THEN enc.output
  ELSE FilterInternal(enc.choice, bpp, enc.previous, enc.current)

EncodeChosen == enc.k = Len(Candidates) + 1 /\ Emit(enc.choice, Refiltered)

\* StreamWriter::set_filter between two rows
SetFilter(method) ==
  /\ job.stream /\ enc.k = 0 /\ Len(image) \in 1 .. job.height - 1
  /\ enc' = [enc EXCEPT !.method = method]
  /\ UNCHANGED <<job, build, frame, image, wire, dec, decoded>>

-------------------------------------------------------------------------------
(* The decoder.  state: idle, row (unfilters one), failed.  previous is empty  *)
(* for the first row of a frame.  px: pixels predicted.  from: pixels that are *)
(* unfiltered in place; less than px within a SIMD stride, where preds holds   *)
(* the predictions.  a, c: the pixel to the left and the one above that.       *)

DecoderStart ==
  [state |-> "idle", previous |-> << >>, current |-> << >>, filter |-> NoFilter,
   px |-> 0, from |-> 0, a |-> Zeros(bpp), c |-> Zeros(bpp), preds |-> << >>]

\* the head of unfilter_curr_row
ReadRow ==
  /\ dec.state = "idle" /\ Len(decoded) < job.height /\ Len(wire) >= len + 1
  /\ dec' = IF IsRowFilter(wire[1])
            THEN [dec EXCEPT !.state = "row", !.current = SubSeq(wire, 2, len + 1),
                             !.filter = Effective(wire[1], dec.previous),
                             !.px = 0, !.from = 0, !.a = Zeros(bpp), !.c = Zeros(bpp),
                             !.preds = Zeros(len)]
            ELSE [dec EXCEPT !.state = "failed"]
  /\ wire' = SubSeq(wire, len + 2, Len(wire))
  /\ UNCHANGED <<job, build, frame, image, enc, decoded>>

hasAbove == dec.previous # << >>

\* the pixel of a row at px, and the row above there
PixelOf(row)   == [j \in 1 .. bpp |-> row[dec.px * bpp + j]]
AbovePixel     == IF hasAbove THEN PixelOf(dec.previous) ELSE Zeros(bpp)
PredictedPixel == [j \in 1 .. bpp |->
                     Prediction(dec.filter, build, hasAbove, dec.a[j], AbovePixel[j], dec.c[j])]

\* Fault: a is taken from the row before it is unfiltered
NewPixelRaw    == PixelOf(dec.current)

NewPixel       == [j \in 1 .. bpp |->
                     WrappingAdd(dec.current[dec.px * bpp + j], PredictedPixel[j])]

\* a row with a pixel of another row in place of the one at px
WithPixel(row, pixel) ==
  [i \in DOMAIN row |-> IF dec.px * bpp < i /\ i <= dec.px * bpp + bpp
                        THEN pixel[i - dec.px * bpp] ELSE row[i]]

\* px is in one of the strides that SIMD code takes as a whole
InStride ==
  /\ build \in {"simd_x86_64", "simd_aarch64"} /\ dec.filter = Paeth /\ bpp \in {3, 4}
  /\ (dec.px \div Stride + 1) * Stride <= job.width

\* one turn of a loop over chunks_exact_mut(bpp)
UnfilterPixel ==
  /\ dec.state = "row" /\ dec.px < job.width /\ dec.from = dec.px /\ ~InStride
  /\ dec' = [dec EXCEPT !.current = WithPixel(dec.current, NewPixel),
                        !.a = NewPixel, !.c = AbovePixel,
                        !.px = dec.px + 1, !.from = dec.px + 1]
  /\ UNCHANGED <<job, build, frame, image, enc, wire, decoded>>

\* process_pixel!: the row itself waits for the end of the stride
PredictInStride ==
  /\ dec.state = "row" /\ dec.px < dec.from + Stride /\ InStride
  /\ dec' = [dec EXCEPT !.preds = WithPixel(dec.preds, PredictedPixel),
                        !.a = NewPixel, !.c = AbovePixel, !.px = dec.px + 1]
  /\ UNCHANGED <<job, build, frame, image, enc, wire, decoded>>

\* *x_out += preds
CommitStride ==
  /\ dec.state = "row" /\ dec.px = dec.from + Stride
  /\ dec' = [dec EXCEPT !.from = dec.px,
                        !.current = [i \in DOMAIN dec.current |->
                           IF dec.from * bpp < i /\ i <= dec.px * bpp
                           THEN WrappingAdd(dec.current[i], dec.preds[i])
                           ELSE dec.current[i]]]
  /\ UNCHANGED <<job, build, frame, image, enc, wire, decoded>>

\* the row becomes the previous row
RowDone ==
  /\ dec.state = "row" /\ dec.from = job.width
  /\ decoded' = Append(decoded, dec.current)
  /\ dec' = [dec EXCEPT !.state = "idle", !.previous = dec.current]
  /\ UNCHANGED <<job, build, frame, image, enc, wire>>

-------------------------------------------------------------------------------
\* a stored image is one of write_image_data: DeflateCompression::NoCompression, or the
\* fallback of FdeflateUltraFast, which starts over
MayStore(stored) == stored => ~job.stream

Init ==
  /\ job \in Jobs /\ build \in Builds
  /\ frame = 1 /\ image = << >> /\ wire = << >> /\ decoded = << >>
  /\ \E method \in Filter, stored \in BOOLEAN :
       MayStore(stored) /\ enc = EncoderStart(method, stored)
  /\ dec = DecoderStart

\* The next frame has a zlib stream of its own, and its first row none above it.
StartFrame ==
  /\ frame < job.frames /\ Len(image) = job.height /\ enc.k = 0
  /\ dec.state = "idle" /\ Len(wire) < len + 1
  /\ frame' = frame + 1
  /\ image' = << >> /\ wire' = << >> /\ decoded' = << >>
  /\ \E method \in Filter, stored \in BOOLEAN :
       MayStore(stored) /\ enc' = NextFrame(method, stored)
  /\ dec' = DecoderStart
  /\ UNCHANGED <<job, build>>

Next ==
  \/ \E row \in job.rows : GiveRow(row)
  \/ StoreRow \/ EncodePlain \/ TryCandidate \/ EncodeChosen
  \/ \E method \in Filter : SetFilter(method)
  \/ ReadRow \/ UnfilterPixel \/ PredictInStride \/ CommitStride \/ RowDone
  \/ StartFrame

Spec == Init /\ [][Next]_vars

-------------------------------------------------------------------------------
Row(n) == [1 .. n -> Byte]

\* The two programs' rows, registers and counters are what they are declared as.
TypeOK ==
  /\ job \in Jobs /\ build \in Builds /\ frame \in Nat \ {0}
  /\ image \in Seq(Row(len)) /\ decoded \in Seq(Row(len)) /\ wire \in Seq(Byte)
  /\ enc \in [method : Filter, stored : BOOLEAN, k : 0 .. Len(Candidates) + 1,
              choice : RowFilter, cost : Nat,
              previous : Row(buf_len), current : Row(buf_len), output : Row(buf_len)]
  /\ dec \in [state : {"idle", "row", "failed"},
              previous : {<< >>} \union Row(len), current : {<< >>} \union Row(len),
              filter : RowFilter, px : 0 .. job.width, from : 0 .. job.width,
              a : Row(bpp), c : Row(bpp), preds : {<< >>} \union Row(len)]
  /\ dec.state = "row" => /\ dec.current \in Row(len) /\ dec.preds \in Row(len)
                         /\ dec.from <= dec.px

\* Every row comes out of the decoder as it went into the encoder, whichever filters the
\* encoder was told to use or chose, by whichever of the predictors the decoder was built with.
RowsRecovered ==
  \A r \in 1 .. Len(decoded) : r <= Len(image) /\ decoded[r] = image[r]

\* When a method that chooses for itself sends a row, none of the filters it could have tried would
\* have made a cheaper one, although it keeps one output buffer and remembers one cost, may stop at
\* a cost of nothing, and filters once more at the end (adaptive_filter).
ChosenRowSent ==
  enc.k # 0 /\ enc'.k = 0 /\ ~enc.stored /\ ChoosesForItself(enc.method)

CheapestChosen ==
  [][ChosenRowSent =>
       \A k \in DOMAIN Candidates :
         Cost(enc.method, enc'.output)
           <= Cost(enc.method, FilterInternal(Candidates[k], bpp, enc.previous, enc.current))]_vars
===============================================================================
