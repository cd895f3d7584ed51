------------------------- MODULE UnfilteringBuffer -------------------------
(***************************************************************************)
(* The sliding window between the inflater and the row decoder:            *)
(* decoder/unfiltering_buffer.rs together with the two entry points of     *)
(* decoder/zlib.rs that fill it (decompress and finish) and the loop of    *)
(* decoder/mod.rs that drains it (next_raw_interlaced_row).                *)
(*                                                                         *)
(* One vector holds, from left to right, the previous (unfiltered) row,    *)
(* the current row, decompressed bytes the inflater may still refer back   *)
(* to, and free space.  The inflater appends on the right, the row decoder *)
(* rewrites bytes in place on the left, and the vector is shifted, grown   *)
(* and truncated in between; what must never happen is that one of them    *)
(* touches a byte the other still needs.                                   *)
(*                                                                         *)
(* Offsets count from 0 as in the source: the byte at offset o is          *)
(* data_stream[o + 1].  A byte is abstracted to where it comes from:       *)
(* Raw(k) is the k-th byte of the decompressed frame, Cooked(k) the same   *)
(* byte after unfiltering, Zero a byte that resize() wrote.                *)
(***************************************************************************)
EXTENDS Integers, Sequences

CONSTANTS
  LOOKBACK_SIZE,     \* how far back the deflate stream may refer
  GROWTH_BYTES,      \* free space offered to the inflater by one call
  shift_back_limit,  \* bytes at the front before the vector is shifted back
  TAIL_COPY,         \* free space from which the shift copies only the data
  Frames,            \* the frames that may be decoded
  StreamSizes        \* how many bytes the compressed stream of a frame holds

(***************************************************************************)
(* A frame is the row layout that SubframeInfo and InterlaceInfoIter give: *)
(* row r occupies the bytes offset[r] .. offset[r + 1] - 1 of the frame,   *)
(* filter byte included, and first[r] says that it opens a pass (the image *)
(* itself when it is not interlaced).  frame_bytes is the size             *)
(* start_frame() is told, which read_until_image_data computes on its own. *)
(***************************************************************************)
RowLen(f, r) == f.offset[r + 1] - f.offset[r]
PixelBytes(f) == f.offset[f.rows + 1]
OnePass(f) == \A r \in 2 .. f.rows : ~ f.first[r]

ASSUME SizesAssumption ==
  /\ LOOKBACK_SIZE \in Nat
  /\ GROWTH_BYTES \in Nat \ {0}
  /\ shift_back_limit \in Nat \ {0}
  /\ TAIL_COPY \in Nat
  /\ StreamSizes \subseteq Nat

ASSUME FramesAssumption ==
  \A f \in Frames :
    /\ f.rows \in Nat
    /\ f.frame_bytes \in Nat
    /\ f.offset \in [1 .. f.rows + 1 -> Nat]
    /\ f.first \in [1 .. f.rows -> BOOLEAN]
    /\ f.offset[1] = 0
    /\ \A r \in 1 .. f.rows : f.offset[r + 1] >= f.offset[r] + 2
    /\ \A r \in 1 .. f.rows : f.offset[r + 1] <= f.frame_bytes
    /\ \A r \in 1 .. f.rows :
         ~ f.first[r] => r > 1 /\ RowLen(f, r) = RowLen(f, r - 1)

Zero == 0
Raw(k) == k + 1
Cooked(k) == -(k + 1)

VARIABLES
  buf,                   \* the UnfilteringBuffer
  inflater,              \* the ZlibStream of the current IDAT / fdAT sequence
  frame,                 \* the frame being decoded
  row,                   \* the next row to deliver, rows + 1 after the last
  transformable,         \* a row of this frame can be transformed for the caller
  reading,               \* inside a call that reads row
  consumed_and_flushed,  \* the frame's data sequence was read to its end
  error                  \* the error or panic that ended decoding, or "none"

vars == << buf, inflater, frame, row, transformable, reading,
           consumed_and_flushed, error >>

Errors == {"none", "Corrupt", "Truncated", "Panicked"}

-----------------------------------------------------------------------------
(* The buffer operations.                                                  *)

\* UnfilteringBuffer::start_frame
EmptyBuffer(frame_bytes) ==
  [data_stream |-> << >>, prev_start |-> 0, current_start |-> 0,
   filled |-> 0, available |-> 0, remaining_bytes |-> frame_bytes]

curr_row_len == buf.available - buf.current_start

\* Vec::copy_within(prev_start .. end, 0)
CopyToFront(s, prev_start, end) ==
  [i \in 1 .. Len(s) |-> IF i <= end - prev_start THEN s[i + prev_start] ELSE s[i]]

\* Vec::resize(n, 0)
Resize(s, n) == [i \in 1 .. n |-> IF i <= Len(s) THEN s[i] ELSE Zero]

\* Faults in the relocation: one marker is forgotten, the bytes beyond available are
\* left behind.
ShiftBackForgettingAvailable(b) ==
  IF /\ b.prev_start >= shift_back_limit
     /\ b.filled >= Len(b.data_stream) \div 2
  THEN [b EXCEPT !.data_stream = CopyToFront(@, b.prev_start, b.filled),
                 !.current_start = @ - b.prev_start,
                 !.filled = @ - b.prev_start,
                 !.prev_start = 0]
  ELSE b

ShiftBackOfAvailable(b) ==
  IF /\ b.prev_start >= shift_back_limit
     /\ b.filled >= Len(b.data_stream) \div 2
  THEN [b EXCEPT !.data_stream = CopyToFront(@, b.prev_start, b.available),
                 !.current_start = @ - b.prev_start,
                 !.available = @ - b.prev_start,
                 !.filled = @ - b.prev_start,
                 !.prev_start = 0]
  ELSE b

\* The relocation at the head of with_unfilled_buffer.
ShiftBack(b) ==
  IF /\ b.prev_start >= shift_back_limit
     /\ b.filled >= Len(b.data_stream) \div 2
  THEN LET end == IF Len(b.data_stream) - b.filled >= TAIL_COPY
                  THEN b.filled ELSE Len(b.data_stream)
       IN  [b EXCEPT !.data_stream = CopyToFront(@, b.prev_start, end),
                     !.current_start = @ - b.prev_start,
                     !.available = @ - b.prev_start,
                     !.filled = @ - b.prev_start,
                     !.prev_start = 0]
  ELSE b

\* Faults: the vector is not cut to what the frame needs; room is measured from the
\* current row.
GrowUntruncated(b) ==
  [b EXCEPT !.data_stream = IF b.filled + GROWTH_BYTES > Len(@)
                            THEN Resize(@, b.filled + GROWTH_BYTES) ELSE @]

GrowFromCurrentRow(b) ==
  LET grown == IF b.current_start + GROWTH_BYTES > Len(b.data_stream)
               THEN Resize(b.data_stream, b.current_start + GROWTH_BYTES)
               ELSE b.data_stream
  IN  [b EXCEPT !.data_stream =
         IF b.filled + b.remaining_bytes < Len(grown)
         THEN Resize(grown, b.filled + b.remaining_bytes)
         ELSE grown]

\* Room for GROWTH_BYTES more, but never for more than the frame still needs.
Grow(b) ==
  LET grown == IF b.filled + GROWTH_BYTES > Len(b.data_stream)
               THEN Resize(b.data_stream, b.filled + GROWTH_BYTES)
               ELSE b.data_stream
  IN  [b EXCEPT !.data_stream =
         IF b.filled + b.remaining_bytes < Len(grown)
         THEN Resize(grown, b.filled + b.remaining_bytes)
         ELSE grown]

\* What the closure of with_unfilled_buffer is handed.
Unfilled == Grow(ShiftBack(buf))

\* The inflater writes n bytes behind filled.
Inflate(s, filled, n, out) ==
  [i \in 1 .. Len(s) |-> IF filled < i /\ i <= filled + n
                         THEN Raw(out + (i - 1 - filled)) ELSE s[i]]

\* Fault: the bytes of a full window are not counted.
RefillUncounted(b, n, available) ==
  [b EXCEPT !.data_stream = Inflate(@, b.filled, n, inflater.out),
            !.filled = @ + n,
            !.remaining_bytes = IF b.filled + n = Len(b.data_stream) THEN @ ELSE @ - n,
            !.available = IF b.remaining_bytes = n THEN b.filled + n ELSE available]

\* The accounting after the closure wrote n bytes and moved available.
Refill(b, n, available) ==
  [b EXCEPT !.data_stream = Inflate(@, b.filled, n, inflater.out),
            !.filled = @ + n,
            !.remaining_bytes = @ - n,
            !.available = IF b.remaining_bytes = n THEN b.filled + n ELSE available]

\* Fault: one byte too many is released.
BeyondShorterLookback(available, filled) ==
  IF filled + 1 >= LOOKBACK_SIZE /\ filled + 1 - LOOKBACK_SIZE > available
  THEN filled + 1 - LOOKBACK_SIZE ELSE available

\* How far bytes may be modified while the stream may still refer back.
BeyondLookback(available, filled) ==
  IF filled >= LOOKBACK_SIZE /\ filled - LOOKBACK_SIZE > available
  THEN filled - LOOKBACK_SIZE ELSE available

-----------------------------------------------------------------------------
Init ==
  \E f \in Frames, size \in StreamSizes, ends \in BOOLEAN :
    /\ buf = EmptyBuffer(f.frame_bytes)
    /\ inflater = [started |-> FALSE, done |-> FALSE, out |-> 0,
                   size |-> size, ends |-> ends, drained |-> FALSE]
    /\ frame = f
    /\ row = 1
    /\ transformable \in BOOLEAN
    /\ reading = FALSE
    /\ consumed_and_flushed = FALSE
    /\ error = "none"

\* Reader::read_until_image_data for the next frame, the rest of the previous
\* frame's data having been discarded; its fcTL chunk reset the inflater.  A palette
\* that was missing may have come since; one that is there stays.
StartFrame ==
  /\ ~ reading
  /\ error = "none"
  /\ \E f \in Frames, size \in StreamSizes, ends \in BOOLEAN :
       /\ buf' = EmptyBuffer(f.frame_bytes)
       /\ inflater' = [started |-> FALSE, done |-> FALSE, out |-> 0,
                       size |-> size, ends |-> ends, drained |-> FALSE]
       /\ frame' = f
  /\ row' = 1
  /\ transformable' \in {transformable, TRUE}
  /\ consumed_and_flushed' = FALSE
  /\ UNCHANGED << reading, error >>

\* Fault: the previous row is kept across passes.
ReadRowKeepingPrevRow ==
  /\ ~ reading
  /\ row <= frame.rows
  /\ error # "Panicked"
  /\ reading' = TRUE
  /\ UNCHANGED << buf, inflater, frame, row, transformable,
                  consumed_and_flushed, error >>

\* read_row is called: the first row of a pass has no previous row.  next_frame goes
\* through the rows of an image that is not interlaced without resetting it, which
\* matters when it is called again after its first row was lost.
ReadRow ==
  /\ ~ reading
  /\ row <= frame.rows
  /\ error # "Panicked"
  /\ \/ frame.first[row] /\ buf' = [buf EXCEPT !.prev_start = buf.current_start]
     \/ (~ frame.first[row] \/ OnePass(frame)) /\ buf' = buf
  /\ reading' = TRUE
  /\ UNCHANGED << inflater, frame, row, transformable, consumed_and_flushed, error >>

\* The loop of next_raw_interlaced_row goes round again.
NeedsData == reading /\ curr_row_len < RowLen(frame, row)

\* assert!(self.unfiltering_buffer.remaining_bytes() > 0)
AssertionFails ==
  /\ NeedsData
  /\ ~ consumed_and_flushed
  /\ buf.remaining_bytes = 0
  /\ reading' = FALSE
  /\ error' = "Panicked"
  /\ UNCHANGED << buf, inflater, frame, row, transformable,
                  consumed_and_flushed >>

\* It calls the decoder, which may hand the bytes of one more chunk to ZlibStream.
Polls ==
  /\ NeedsData
  /\ ~ consumed_and_flushed
  /\ buf.remaining_bytes > 0
  /\ error = "none"

\* ZlibStream::decompress on a piece of the compressed data: fdeflate writes some
\* of the bytes it has, and may or may not have reached the end of its stream.
Decompress ==
  /\ Polls
  /\ ~ inflater.drained
  /\ LET b == Unfilled
         limit == IF b.filled + GROWTH_BYTES <= Len(b.data_stream)
                  THEN b.filled + GROWTH_BYTES ELSE Len(b.data_stream)
     IN \E n \in 0 .. limit - b.filled, done \in BOOLEAN :
          /\ inflater.done => n = 0 /\ done
          /\ inflater.out + n <= inflater.size
          /\ done => inflater.out + n = inflater.size /\ inflater.ends
          /\ inflater' = [inflater EXCEPT !.started = TRUE, !.done = done, !.out = @ + n]
          /\ buf' = Refill(b, n,
                      IF inflater.done THEN b.available
                      ELSE IF done THEN b.filled + n
                      ELSE BeyondLookback(b.available, b.filled + n))
  /\ UNCHANGED << frame, row, transformable, reading, consumed_and_flushed, error >>

\* Fault: bytes left in the inflater are an error however many it has given.
VerdictOnLeftovers(ok, full) == IF ok THEN "none" ELSE "Truncated"

\* The end of the stream is missed only as long as there is room for more of it.
Verdict(ok, full) == IF ok \/ full THEN "none" ELSE "Truncated"

\* ZlibStream::finish drains what the inflater still holds into the window b, as far as
\* there is room for it; done says that the end of the stream was seen.
Drain(b, done) ==
  LET room == Len(b.data_stream) - b.filled
      left == inflater.size - inflater.out
      n == IF ~ inflater.started \/ inflater.done \/ room = 0 THEN 0
           ELSE IF left < room THEN left ELSE room
      ok == ~ inflater.started \/ inflater.done \/ room = 0 \/ done
      full == n = room
  IN /\ inflater.done => done
     /\ done /\ ~ inflater.done =>
          inflater.started /\ room # 0 /\ n = left /\ inflater.ends
     /\ n < room /\ inflater.started /\ inflater.ends => done
     /\ inflater' = [inflater EXCEPT !.done = done, !.out = @ + n, !.drained = TRUE]
     /\ buf' = Refill(b, n,
                 IF ~ inflater.done /\ done THEN b.filled + n
                 ELSE IF ~ ok /\ full THEN BeyondLookback(b.available, b.filled + n)
                 ELSE b.available)
     /\ consumed_and_flushed' = ok
     /\ error' = Verdict(ok, full)
     /\ reading' = (error' = "none")

\* The chunk after the data sequence has begun.
Finish ==
  /\ Polls
  /\ \E b \in {Unfilled}, done \in BOOLEAN : Drain(b, done)
  /\ UNCHANGED << frame, row, transformable >>

\* The call fails before it reaches the inflater (the input has run dry for now, or
\* the decoder has failed before) or in it (the stream is corrupt): the window was
\* made ready all the same.
Interrupt ==
  /\ NeedsData
  /\ ~ consumed_and_flushed
  /\ buf.remaining_bytes > 0
  /\ buf' = Refill(Unfilled, 0, Unfilled.available)
  /\ reading' = FALSE
  /\ error' \in IF error = "none" THEN {"none", "Corrupt"} ELSE {error}
  /\ UNCHANGED << inflater, frame, row, transformable, consumed_and_flushed >>

\* Fault: the loop goes round again.
NoMoreImageDataIgnored == NeedsData /\ consumed_and_flushed /\ UNCHANGED vars

\* NoMoreImageData: the data sequence is over and a row is incomplete.
NoMoreImageData ==
  /\ NeedsData
  /\ consumed_and_flushed
  /\ reading' = FALSE
  /\ UNCHANGED << buf, inflater, frame, row, transformable,
                  consumed_and_flushed, error >>

\* unfilter_curr_row: the row behind its filter byte is rewritten in place and
\* becomes the previous row.  Only then next_interlaced_row_impl makes the transform;
\* if it cannot (an indexed image to be expanded that has no palette), the call fails
\* with the row taken and the iterator where it was.
UnfilterCurrRow ==
  /\ reading
  /\ curr_row_len >= RowLen(frame, row)
  /\ LET start == buf.current_start
         rowlen == RowLen(frame, row)
     IN buf' = [buf EXCEPT
                 !.data_stream =
                    [i \in 1 .. Len(@) |-> IF start + 1 < i /\ i <= start + rowlen
                                           THEN - @[i] ELSE @[i]],
                 !.prev_start = start + 1,
                 !.current_start = @ + rowlen]
  /\ row' = IF transformable THEN row + 1 ELSE row
  /\ reading' = FALSE
  /\ UNCHANGED << inflater, frame, transformable, consumed_and_flushed, error >>

\* unfilter_curr_row meets an unknown filter type: the call fails, nothing changes.
UnknownFilterMethod ==
  /\ reading
  /\ curr_row_len >= RowLen(frame, row)
  /\ reading' = FALSE
  /\ UNCHANGED << buf, inflater, frame, row, transformable,
                  consumed_and_flushed, error >>

\* read_row after the last row: the rest of the data sequence is discarded.
FinishDecoding ==
  /\ ~ reading
  /\ row > frame.rows
  /\ ~ consumed_and_flushed
  /\ error = "none"
  /\ consumed_and_flushed' = TRUE
  /\ UNCHANGED << buf, inflater, frame, row, transformable, reading, error >>

Next ==
  \/ StartFrame
  \/ ReadRow
  \/ AssertionFails
  \/ Decompress
  \/ Finish
  \/ Interrupt
  \/ NoMoreImageData
  \/ UnfilterCurrRow
  \/ UnknownFilterMethod
  \/ FinishDecoding

Spec == Init /\ [][Next]_vars

(***************************************************************************)
(* A data sequence is finite, so a call that keeps polling gets to the     *)
(* chunk behind it; and code that has been entered goes on running.  At    *)
(* any moment at most one of these steps is the one the call is at.        *)
(***************************************************************************)
ReaderGoesOn ==
  \/ Finish
  \/ NoMoreImageData
  \/ UnfilterCurrRow
  \/ Interrupt /\ error # "none"
  \/ AssertionFails

FairSpec == Spec /\ WF_vars(ReaderGoesOn)

-----------------------------------------------------------------------------
(* Properties.                                                             *)

BufType ==
  [data_stream : Seq(Int), prev_start : Nat, current_start : Nat,
   filled : Nat, available : Nat, remaining_bytes : Nat]

InflaterType ==
  [started : BOOLEAN, done : BOOLEAN, out : Nat, size : Nat,
   ends : BOOLEAN, drained : BOOLEAN]

\* Every variable has its type; in particular remaining_bytes, an unsigned integer
\* from which with_unfilled_buffer subtracts, never goes below zero.
TypeOK ==
  /\ buf \in BufType
  /\ inflater \in InflaterType
  /\ frame \in Frames
  /\ row \in 1 .. frame.rows + 1
  /\ transformable \in BOOLEAN
  /\ reading \in BOOLEAN
  /\ consumed_and_flushed \in BOOLEAN
  /\ error \in Errors

\* debug_assert_invariants: the markers of the vector keep their order through
\* every mixture of shifting back, growing, truncating, refilling and unfiltering.
MarkersOrdered ==
  /\ buf.prev_start <= buf.current_start
  /\ buf.current_start <= buf.available
  /\ buf.available <= buf.filled
  /\ buf.filled <= Len(buf.data_stream)

\* The bytes that rows have taken out of the window.
taken == inflater.out - (buf.filled - buf.current_start)

\* No byte is counted twice or forgotten: what the inflater has produced and what
\* remaining_bytes still expects make up the frame, and what was produced is waiting
\* behind current_start or was taken by a row; what rows took adds up to the rows
\* before the iterator's position.  The last is claimed for images whose rows can be
\* transformed: a row for which create_transform_fn fails (a missing palette) is taken
\* and its bytes are gone, but the iterator stays at it.
BytesAccounted ==
  /\ inflater.out + buf.remaining_bytes = frame.frame_bytes
  /\ taken >= 0
  /\ transformable => taken = frame.offset[row]

\* While the stream may still refer back, the last LOOKBACK_SIZE bytes it produced
\* (all of them, if there are fewer) lie beyond available, out of reach of
\* unfilter_curr_row, however often the window moved.
LookbackKept ==
  ~ inflater.done /\ buf.remaining_bytes > 0 =>
    \/ buf.filled - buf.available >= LOOKBACK_SIZE
    \/ buf.filled - buf.available >= inflater.out

\* The window holds the bytes of the stream in order and unchanged from the current
\* row on, so that a row is unfiltered once, whole, and from its own bytes and the
\* inflater copies what it wrote.
RawBytesIntact ==
  \A o \in buf.current_start .. buf.filled - 1 :
    buf.data_stream[o + 1] = Raw(taken + (o - buf.current_start))

\* The row that is unfiltered refers to the row above it in the same pass, complete
\* and already unfiltered, and to none at the top of a pass (as long as no row was
\* lost to a transform that could not be made).
PrevRowIsRowAbove ==
  reading /\ transformable =>
    IF frame.first[row]
    THEN buf.prev_start = buf.current_start
    ELSE /\ buf.current_start - buf.prev_start = RowLen(frame, row) - 1
         /\ \A o \in buf.prev_start .. buf.current_start - 1 :
              buf.data_stream[o + 1] = Cooked(frame.offset[row] + (o - buf.current_start))

\* When next_raw_interlaced_row asks for data there is data to ask for (its
\* assert!(remaining_bytes > 0) holds) and room to put it, so that neither a full
\* window is mistaken for the end of the stream nor the loop spins without progress.
\* The assertion is claimed for images whose rows can be transformed: where the palette
\* is missing every failed call takes a row, and the one after the last row panics.
RoomForData ==
  NeedsData /\ ~ consumed_and_flushed =>
    /\ transformable => buf.remaining_bytes > 0
    /\ buf.remaining_bytes > 0 => Unfilled.filled < Len(Unfilled.data_stream)

\* A stream that lacks its end or holds too much is not an error once it has given
\* all the pixel data of the frame (the comment in ZlibStream::finish).
LenientAfterLastPixel ==
  error = "Truncated" => inflater.out < PixelBytes(frame)

\* The window is a queue: whatever is moved, grown, cut off or held back for the inflater,
\* the bytes behind current_start are those that arrived and were not taken, in order and
\* as they arrived, and those in front of it are the finished row above.
Waiting == SubSeq(buf.data_stream, buf.current_start + 1, buf.filled)
Above == SubSeq(buf.data_stream, buf.prev_start + 1, buf.current_start)

Queue == INSTANCE RowQueue WITH taken <- taken, waiting <- Waiting, above <- Above

WindowIsQueue == Queue!Spec

\* Every call that reads a row returns: with the row, or with an error.
RowCallReturns == reading ~> ~ reading
=============================================================================
