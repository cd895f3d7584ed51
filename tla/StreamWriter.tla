----------------------------- MODULE StreamWriter -----------------------------
(***************************************************************************)
(* StreamWriter and ChunkWriter, encoder.rs: rows come in pieces, a        *)
(* compressor in between hands on bytes when it likes, a buffer cuts them  *)
(* into chunks, and errors, finish and drop unwind all of it.              *)
(*                                                                         *)
(* The compressors are external: given a row they may hand on any of       *)
(* Emissions bytes, flushed or finished likewise, and when they are        *)
(* finished at least one byte.  They call write_all of the ChunkWriter,    *)
(* which is taken byte by byte: a piece that does not fit is cut there.    *)
(***************************************************************************)
EXTENDS Writer

CONSTANTS
  Height,     \* of every frame, in rows
  BufLens,    \* sizes of the chunk buffer
  Emissions,
  DataLens,   \* how many bytes a call of write brings
  MaxStreamed,\* bound: images in a file that gets another image by a stream
  MaxEmitted  \* bound: bytes of an image handed on before it is finished

ASSUME StreamAssumption ==
  /\ Height \in Nat \ {0}
  /\ BufLens \subseteq Nat
  /\ Emissions \subseteq Nat
  /\ DataLens \subseteq Nat \ {0}

\* No StreamWriter: wrapper is "None".
NoStream ==
  [wrapper |-> "None", buffer |-> << >>, prefix |-> NoSeq, size |-> 0, curr_chunk |-> "IDAT",
   emitted |-> 0, index |-> 0, line_len |-> 0, to_write |-> 0, fctl |-> NoFrameControl]

\* The variant of Wrapper that the compression level gives.
Compressing(m) == m.stream.wrapper \in {"Flate2", "FDeflate"}

-----------------------------------------------------------------------------
(* ChunkWriter.  index counts the prefix, four bytes, and the bytes.       *)

used(m) == Len(m.stream.buffer) + (IF m.stream.prefix # NoSeq THEN 4 ELSE 0)

BufferedChunk(m) ==
  Chunk(m.stream.curr_chunk, m.image, m.stream.prefix, NoFrameControl, m.stream.buffer)

\* Fault: the buffer is not emptied.
FlushKeepingBuffer(m) ==
  IF used(m) = 0 THEN {m} ELSE WriteChunk(m, BufferedChunk(m))

flush_inner(m) ==
  IF used(m) = 0 THEN {m}
  ELSE Then(WriteChunk(m, BufferedChunk(m)),
            LAMBDA s : { [s EXCEPT !.stream.buffer = << >>, !.stream.prefix = NoSeq] })

\* The start of a chunk in ChunkWriter::write.
TakePrefix(m) ==
  IF used(m) = 0 /\ TakesFrameControl(m.writer)
  THEN [m EXCEPT !.stream.prefix = m.writer.frame_control.sequence_number,
                 !.writer.frame_control.sequence_number = @ + 1]
  ELSE m

Panic(m) == [m EXCEPT !.result = "panic"]

\* The slice of the buffer that the prefix is copied to is longer than the buffer.
PrefixTooLong(m) == used(m) = 0 /\ TakesFrameControl(m.writer) /\ m.stream.size < 4

\* ChunkWriter::write for the next byte.  A buffer that is still full after a failure, or that
\* the prefix fills, is flushed without it, which write_all reports as WriteZero.
write_byte(m) ==
  LET begun == TakePrefix(m)
      fits == used(begun) < m.stream.size
      put == IF fits THEN [begun EXCEPT !.stream.emitted = @ + 1,
                                        !.stream.buffer = Append(@, m.stream.emitted + 1)]
             ELSE begun
      written == IF used(put) = m.stream.size THEN flush_inner(put) ELSE {put}
  IN IF PrefixTooLong(m) THEN {Panic(m)}
     ELSE IF fits THEN written ELSE Then(written, LAMBDA s : {Err(s)})

\* What happens if the compressor hands on n bytes.
Emit(m, n) ==
  LET after[k \in 0 .. n] == IF k = 0 THEN {m} ELSE Then(after[k - 1], write_byte)
  IN after[n]

EmitSome(m) ==
  UNION { Emit(m, n) : n \in { e \in Emissions \cup {0} : m.stream.emitted + e <= MaxEmitted } }

\* finish() of a compressor.
EmitRest(m) == UNION { Emit(m, n + 1) : n \in Emissions }

\* Drop for ChunkWriter
drop_chunk_writer(S) == Then(Ignore(S), LAMBDA m : Ignore(flush_inner(m)))

\* next_frame_info: the width in force, whether or not the frame control is skipped.
line_len(w) == IF is_some(w.frame_control) THEN w.frame_control.width ELSE Width

WithFrameInfo(m) ==
  [m EXCEPT !.stream.line_len = line_len(m.writer),
            !.stream.to_write = line_len(m.writer) * Height]

\* ChunkWriter::write_header, with its assertion.
write_header(m) ==
  LET begun == [m EXCEPT !.image = @ + 1, !.stream.emitted = 0,
                         !.stream.curr_chunk =
                            IF m.writer.images_written = 0 THEN "IDAT" ELSE "fdAT"]
  IN IF used(m) # 0 THEN {Panic(m)}
     ELSE IF ~ TakesFrameControl(m.writer) THEN {begun}
     ELSE Then(WriteChunk(begun, FrameChunk(begun.image, m.writer.frame_control)),
               LAMBDA s : { [s EXCEPT !.writer.frame_control.sequence_number = @ + 1] })

\* Fault: the stream's copy with its old sequence number.
set_fctl_all(m) == [m EXCEPT !.writer.frame_control = m.stream.fctl]

set_fctl(m) ==
  [m EXCEPT !.writer.frame_control.width = m.stream.fctl.width,
            !.writer.frame_control.x_offset = m.stream.fctl.x_offset]

\* Wrapper::from_level; fdeflate writes the head of its stream at once.
from_level(m) ==
  LET compressing == [m EXCEPT !.stream.wrapper = m.writer.compression]
  IN IF m.writer.compression = "FDeflate" THEN Emit(compressing, 1) ELSE {compressing}

-----------------------------------------------------------------------------
(* StreamWriter.                                                           *)

\* StreamWriter::new; what fails takes the ChunkWriter with it.
new(m, size) ==
  LET fresh == [m EXCEPT !.stream = [NoStream EXCEPT !.size = size,
                                                     !.fctl = m.writer.frame_control]]
  IN Then(write_header(WithFrameInfo(fresh)), from_level)

\* Fault: without flushing what the last frame has left.
new_frame_unflushed(m) ==
  IF ~ validate_new_image(m.writer) THEN {Err(m)}
  ELSE IF is_some(m.stream.fctl) /\ ~ is_some(m.writer.frame_control) THEN {Panic(m)}
  ELSE LET framed == WithFrameInfo(IF is_some(m.stream.fctl) THEN set_fctl(m) ELSE m)
       IN Then(write_header(framed),
               LAMBDA s : from_level([s EXCEPT !.writer = increment_images_written(@)]))

new_frame(m) ==
  Then(flush_inner(m), LAMBDA f :
    IF ~ validate_new_image(f.writer) THEN {Err(f)}
    ELSE IF is_some(f.stream.fctl) /\ ~ is_some(f.writer.frame_control) THEN {Panic(f)}
    ELSE LET framed == WithFrameInfo(IF is_some(f.stream.fctl) THEN set_fctl(f) ELSE f)
         IN Then(write_header(framed),
                 LAMBDA s : from_level([s EXCEPT !.writer = increment_images_written(@)])))

\* A stream whose compressor failed is unrecoverable.
OrUnrecoverable(S) ==
  { IF m.result = "err" /\ Compressing(m)
    THEN [m EXCEPT !.stream.wrapper = "Unrecoverable"] ELSE m : m \in S }

\* The compressor of the last frame is finished and gives back the ChunkWriter, or is lost
\* with it.
FinishCompressor(m) ==
  UNION { IF s.result = "err" THEN { Err(d) : d \in drop_chunk_writer(OrUnrecoverable({s})) }
          ELSE { [s EXCEPT !.stream.wrapper = "Chunk"] } : s \in EmitRest(m) }

NextFrame(m) ==
  OrUnrecoverable(Then(IF Compressing(m) THEN FinishCompressor(m) ELSE {m}, new_frame))

\* The rest of StreamWriter::write: len bytes for the current row.  After a failure a row
\* may lie beyond the line, or beyond what the frame still needs: the slice and, in debug
\* builds, the subtraction panic.
FillRow(m, len) ==
  LET written == IF len <= m.stream.line_len - m.stream.index THEN len
                 ELSE m.stream.line_len - m.stream.index
      filled == [m EXCEPT !.stream.index = @ + written, !.stream.to_write = @ - written]
  IN IF m.stream.index > m.stream.line_len \/ written > m.stream.to_write THEN {Panic(m)}
     ELSE IF filled.stream.index < m.stream.line_len THEN {filled}
     ELSE IF ~ Compressing(m) THEN {Panic(filled)}
     ELSE Then(EmitSome(filled), LAMBDA s : { [s EXCEPT !.stream.index = 0] })

write(m, len) ==
  IF m.stream.wrapper = "Unrecoverable" THEN {Err(m)}
  ELSE Then(IF m.stream.to_write = 0 THEN NextFrame(m) ELSE {m}, LAMBDA s : FillRow(s, len))

flush(m) ==
  Then(IF m.stream.wrapper = "Flate2" THEN Then(EmitSome(m), flush_inner)
       ELSE IF m.stream.wrapper = "Chunk" THEN flush_inner(m)
       ELSE IF m.stream.wrapper = "FDeflate" THEN {m}
       ELSE {Err(m)},
       LAMBDA s : IF s.stream.index > 0 THEN {Err(s)} ELSE {s})

Unwrapped(S) == { [m EXCEPT !.stream.wrapper = "None"] : m \in S }

\* The end of finish_mut: the ChunkWriter that comes out of the wrapper is dropped.
TakeWrapper(m) ==
  LET outcome == IF Compressing(m) THEN EmitRest(m)
                 ELSE IF validate_sequence_done(m.writer) THEN {m} ELSE {Err(m)}
  IN UNION { { [d EXCEPT !.result = s.result] : d \in drop_chunk_writer({s}) } :
             s \in Unwrapped(outcome) }

finish_mut(m) ==
  IF m.stream.to_write > 0 THEN {Err(m)} ELSE Then(flush(m), TakeWrapper)

\* A compressor that is dropped: flate2's finishes its stream, fdeflate's does not.
drop_wrapper(m) ==
  drop_chunk_writer(IF m.stream.wrapper = "Flate2" THEN EmitRest(m) ELSE {m})

\* Drop for StreamWriter, then of its fields, an owned Writer among them.
drop_stream(m, owned) ==
  LET unwound == Then(Ignore(finish_mut(m)), drop_wrapper)
      released == Then(unwound, LAMBDA s : { [s EXCEPT !.stream = NoStream] })
  IN IF owned THEN Then(released, drop_writer) ELSE released

-----------------------------------------------------------------------------
Init == WriterInit /\ stream = NoStream

Streaming == user \in {"borrowed", "owned"}
Owner == IF user = "owned" THEN "gone" ELSE "writer"

\* As Return, for calls on the stream.
ReturnStreaming(S, holder) ==
  /\ \E m \in S :
       /\ Become(m)
       /\ result' = m.result
       /\ user' = IF m.result = "panic" THEN "gone" ELSE holder

\* The caller loses the stream, having been told s.result.  What a panic unwinds is left out.
Unwind(S, owned, holder) ==
  \E s \in S :
    ReturnStreaming(
      IF s.result = "panic" THEN {s}
      ELSE { [d EXCEPT !.result = IF @ = "panic" THEN @ ELSE s.result] :
               d \in drop_stream([s EXCEPT !.result = "ok"], owned) }, holder)

\* What StreamWriter::new leaves if it fails: the ChunkWriter, dropped.
OpenStream(size, owned) ==
  /\ user = "writer"
  /\ Bounded /\ image < MaxStreamed
  /\ streams' = streams + 1
  /\ \E s \in new(Here, size) :
       IF s.result # "err" THEN ReturnStreaming({s}, IF owned THEN "owned" ELSE "borrowed")
       ELSE \E d \in drop_chunk_writer({s}) :
              LET left == [d EXCEPT !.stream = NoStream] IN
              ReturnStreaming({ [e EXCEPT !.result = "err"] :
                                  e \in IF owned THEN drop_writer(left) ELSE {left} },
                              IF owned THEN "gone" ELSE "writer")

Write(len) ==
  /\ Streaming
  /\ stream.to_write = 0 => Bounded /\ image < MaxStreamed
  /\ ReturnStreaming(write(Here, len), user)
  /\ UNCHANGED streams

Flush ==
  /\ Streaming
  /\ ReturnStreaming(flush(Here), user)
  /\ UNCHANGED streams

FinishStream ==
  /\ Streaming
  /\ Unwind(finish_mut(Here), user = "owned", Owner)
  /\ UNCHANGED streams

DropStream ==
  /\ Streaming
  /\ Unwind({ [Here EXCEPT !.result = "none"] }, user = "owned", Owner)
  /\ UNCHANGED streams

\* StreamWriter::set_frame_dimension and the setters after it, on the stream's own copy.
SetStreamed(fctl) ==
  /\ Streaming
  /\ is_some(stream.fctl)
  /\ stream' = [stream EXCEPT !.fctl = fctl]
  /\ result' = "ok"
  /\ UNCHANGED << writer, out, failed, user, image, streams >>

SetStreamedDimension(width) ==
  dimension_fits(stream.fctl, width) /\ SetStreamed([stream.fctl EXCEPT !.width = width])

SetStreamedPosition(x) ==
  position_fits(stream.fctl, x) /\ SetStreamed([stream.fctl EXCEPT !.x_offset = x])

ResetStreamedDimension == SetStreamed(reset_frame_dimension(stream.fctl))

ResetStreamedPosition == SetStreamed([stream.fctl EXCEPT !.x_offset = 0])

Next ==
  \/ WriterNext
  \/ \E size \in BufLens, owned \in BOOLEAN : OpenStream(size, owned)
  \/ \E len \in DataLens : Write(len)
  \/ Flush
  \/ FinishStream
  \/ DropStream
  \/ \E width \in 1 .. Width : SetStreamedDimension(width)
  \/ \E x \in 0 .. Width : SetStreamedPosition(x)
  \/ ResetStreamedDimension
  \/ ResetStreamedPosition

Spec == Init /\ [][Next]_vars

-----------------------------------------------------------------------------
\* Without a failure of the sink no assertion, no unreachable!() and no slice bound of
\* the stream is hit, whatever the order of calls and frame sizes - unless the chunk buffer is
\* too short for the four bytes of a sequence number: stream_writer_with_size accepts that, and
\* in an animation write, or new, panics when it copies the number.
PanicsOnlyAfterFailure == result = "panic" => failed \/ stream.size < 4

\* No byte that a compressor has handed on is lost: of the image under way as many are in the
\* sink and in the buffer, whatever a call had to cut, flush or refuse.
BytesKept ==
  ~ failed /\ Streaming => File!Reached(image, out) + Len(stream.buffer) = stream.emitted
===============================================================================
