-------------------------- MODULE StreamingDecoder --------------------------
(***************************************************************************)
(* The push parser of decoder/stream.rs: StreamingDecoder::update, one     *)
(* call of next_state at a time.                                           *)
(*                                                                         *)
(* The input is a signature and a stream of chunks.  What the next chunk   *)
(* is shows when its length field has been read; how its bytes are dealt   *)
(* out to the calls is open, and so is whether a call brings a buffer for  *)
(* image data along.  pos and before are history variables: how many bytes *)
(* of the signature or chunk have been consumed, and what the decoder knew *)
(* when the chunk began.                                                   *)
(***************************************************************************)
EXTENDS ChunkParsers, Sequences

CONSTANTS
  Inputs,             \* what the decoder may be given, and how
  CHUNK_BUFFER_SIZE   \* the initial capacity of raw_bytes

(***************************************************************************)
(* Of an input: the chunks that may turn up in it, how many bytes of it a  *)
(* call may bring, the DecodeOptions it may be read with, and Limits::bytes *)
(* at the start.                                                           *)
(***************************************************************************)
ASSUME ConstantsAssumption ==
  /\ CHUNK_BUFFER_SIZE \in Nat \ {0}
  /\ \A i \in Inputs :
       /\ i.buf_lens \subseteq Nat \ {0}
       /\ i.limit \in Nat
       /\ \A o \in i.options : o.ignore_crc \in BOOLEAN
       /\ \A c \in i.chunks :
            /\ c.length \in Nat /\ c.value \in Nat /\ c.seq \in Nat

VARIABLES
  state,                  \* the parser's state, a U32 with its accumulated_count
  current_chunk,          \* the ChunkState
  inflater,               \* "fresh", "running" or "done"
  info,                   \* the Info, or NoInfo
  current_seq_no,         \* the last APNG sequence number, or NoSeq
  have_idat,
  ready_for_idat_chunks,
  ready_for_fdat_chunks,
  have_iccp,
  decode_options,
  limits,                 \* bytes that may still be allocated
  input,                  \* the input, one of Inputs
  event,                  \* what the last call of next_state returned
  chunk,                  \* the chunk on the wire
  pos,
  before

wire == << chunk, pos, before >>
flags == << have_idat, ready_for_idat_chunks, ready_for_fdat_chunks >>
given == << decode_options, input >>
apng == << current_seq_no, inflater >>
metadata == << info, have_iccp, limits >>
vars == << state, current_chunk, inflater, info, current_seq_no, flags, have_iccp,
           given, limits, event, wire >>

NoSeq == -1
NoChunk == [type |-> "none", length |-> 0]
DataTypes == {"IDAT", "fdAT"}

Event(kind, type) == [kind |-> kind, type |-> type]
Nothing == Event("Nothing", "none")

U32(kind, accumulated_count) == [kind |-> kind, accumulated_count |-> accumulated_count]
U32Kinds == {"Signature1stU32", "Signature2ndU32", "Length", "Type", "Crc",
             "ApngSequenceNumber"}
State(kind) == U32(kind, 0)

\* The state after a fatal error and after IEND.
NoState == State("None")

Known == [info |-> info, current_seq_no |-> current_seq_no, inflater |-> inflater,
          flags |-> flags]

-----------------------------------------------------------------------------
FreshChunkState ==
  [type_ |-> "none", remaining |-> 0, raw_len |-> 0, raw_cap |-> CHUNK_BUFFER_SIZE,
   action |-> "Process", crc |-> 0]

\* StreamingDecoder::new_with_options
Init ==
  /\ state = State("Signature1stU32")
  /\ current_chunk = FreshChunkState
  /\ inflater = "fresh"
  /\ info = NoInfo
  /\ current_seq_no = NoSeq
  /\ have_idat = FALSE
  /\ ready_for_idat_chunks = TRUE
  /\ ready_for_fdat_chunks = FALSE
  /\ have_iccp = FALSE
  /\ input \in Inputs
  /\ decode_options \in input.options
  /\ limits = input.limit
  /\ event = Nothing
  /\ chunk = NoChunk
  /\ pos = 0
  /\ before = Known

\* A call returns Ok((consumed, ev)).
Return(consumed, ev) == pos' = pos + consumed /\ event' = ev

\* A call returns Err: the state that next_state took is not put back.
Fatal(error) ==
  /\ state' = NoState
  /\ event' = Event("Error", error)
  /\ UNCHANGED wire

\* The hash goes over n more bytes.
Hash(crc, n) == IF decode_options.ignore_crc THEN crc ELSE crc + n

-----------------------------------------------------------------------------
(* Four-byte fields.                                                       *)

\* Too few bytes for the field: they are kept.
AccumulateU32 ==
  /\ state.kind \in U32Kinds
  /\ \E len \in input.buf_lens :
       /\ state.accumulated_count + len < 4
       /\ state' = [state EXCEPT !.accumulated_count = @ + len]
       /\ Return(len, Nothing)
  /\ UNCHANGED << current_chunk, apng, metadata, flags, given, chunk, before >>

\* The field is complete: parse_u32 is called, having consumed this many bytes.
consumed_bytes == 4 - state.accumulated_count

Complete(kind) ==
  /\ state.kind = kind
  /\ \E len \in input.buf_lens : len >= consumed_bytes

Signature1stU32 ==
  /\ Complete("Signature1stU32")
  /\ \/ /\ state' = State("Signature2ndU32")
        /\ Return(consumed_bytes, Nothing)
        /\ UNCHANGED << chunk, before >>
     \/ Fatal("InvalidSignature")
  /\ UNCHANGED << current_chunk, apng, metadata, flags, given >>

Signature2ndU32 ==
  /\ Complete("Signature2ndU32")
  /\ \/ /\ state' = State("Length")
        /\ pos' = 0
        /\ event' = Nothing
        /\ UNCHANGED << chunk, before >>
     \/ Fatal("InvalidSignature")
  /\ UNCHANGED << current_chunk, apng, metadata, flags, given >>

\* The next chunk of the input turns up.
Length ==
  /\ Complete("Length")
  /\ chunk' \in input.chunks
  /\ state' = State("Type")
  /\ Return(consumed_bytes, Nothing)
  /\ before' = Known
  /\ UNCHANGED << current_chunk, apng, metadata, flags, given >>

ChunkBeforeIhdr ==
  /\ Complete("Type")
  /\ info = NoInfo
  /\ chunk.type # "IHDR"
  /\ Fatal("ChunkBeforeIhdr")
  /\ UNCHANGED << current_chunk, apng, metadata, flags, given >>

\* Fault: the last chunk read need not have held image data.
EndsAnySequence == chunk.type # current_chunk.type_

\* A chunk of another type ends a run of IDAT or fdAT chunks.
EndsDataSequence ==
  /\ current_chunk.type_ \in DataTypes
  /\ chunk.type # current_chunk.type_

\* Fault: the field's bytes count as consumed although they will be read again.
RewindConsuming(ev) == Return(consumed_bytes, ev)

\* The type field will be read again, from the bytes it has accumulated.
Rewind(ev) == Return(0, ev)

\* The inflater is drained into the buffer, if the call brought one.
FlushImageData ==
  /\ Complete("Type")
  /\ info # NoInfo \/ chunk.type = "IHDR"
  /\ EndsDataSequence
  /\ \E image_data \in BOOLEAN :
       LET draining == image_data /\ inflater = "running"
       IN \/ /\ inflater' \in IF draining THEN {"running", "done"} ELSE {inflater}
             /\ state' = U32("Type", 4 - consumed_bytes)
             /\ current_chunk' = [current_chunk EXCEPT !.type_ = chunk.type]
             /\ ready_for_idat_chunks' = FALSE
             /\ ready_for_fdat_chunks' = FALSE
             /\ Rewind(Event("ImageDataFlushed", "none"))
             /\ UNCHANGED << chunk, before >>
          \/ /\ draining
             /\ state' = U32("Type", 4 - consumed_bytes)
             /\ Rewind(Event("ImageData", "none"))
             /\ UNCHANGED << inflater, current_chunk, ready_for_idat_chunks,
                             ready_for_fdat_chunks, chunk, before >>
          \/ /\ draining
             /\ Fatal("CorruptFlateStream")
             /\ UNCHANGED << inflater, current_chunk, ready_for_idat_chunks,
                             ready_for_fdat_chunks >>
  /\ UNCHANGED << current_seq_no, metadata, have_idat, given >>

\* Fault: an fdAT chunk need not hold its sequence number.
ChunkStartShort ==
  CASE chunk.type = "fdAT" -> IF ready_for_fdat_chunks THEN "Process" ELSE "Error"
    [] chunk.type = "IDAT" -> IF ready_for_idat_chunks THEN "Process" ELSE "Error"
    [] OTHER -> ActionFor(chunk, decode_options)

\* Fault: image data may begin again.
ChunkStartAgain ==
  CASE chunk.type = "fdAT" ->
         IF ready_for_fdat_chunks /\ chunk.length >= 4 THEN "Process" ELSE "Error"
    [] chunk.type = "IDAT" -> "Process"
    [] OTHER -> ActionFor(chunk, decode_options)

\* What fdAT, IDAT and start_chunk make of the type and the length.
ChunkStart ==
  CASE chunk.type = "fdAT" ->
         IF ready_for_fdat_chunks /\ chunk.length >= 4 THEN "Process" ELSE "Error"
    [] chunk.type = "IDAT" ->
         IF ready_for_idat_chunks THEN "Process" ELSE "Error"
    [] OTHER -> ActionFor(chunk, decode_options)

\* The rest of the type field's handling.
BeginChunk ==
  /\ Complete("Type")
  /\ info # NoInfo \/ chunk.type = "IHDR"
  /\ ~ EndsDataSequence
  /\ current_chunk' = [current_chunk EXCEPT
                        !.type_ = chunk.type,
                        !.crc = IF decode_options.ignore_crc THEN @ ELSE 4,
                        !.remaining = chunk.length,
                        !.raw_len = 0,
                        !.action = IF ChunkStart = "Error" THEN @ ELSE ChunkStart]
  /\ IF ChunkStart = "Error"
     THEN Fatal(chunk.type) /\ UNCHANGED have_idat
     ELSE /\ state' = State(CASE chunk.type = "fdAT" -> "ApngSequenceNumber"
                              [] chunk.type = "IDAT" -> "ImageData"
                              [] OTHER -> "ReadChunkData")
          /\ have_idat' = (have_idat \/ chunk.type = "IDAT")
          /\ Return(consumed_bytes, Event("ChunkBegin", chunk.type))
          /\ before' = Known
          /\ UNCHANGED chunk
  /\ UNCHANGED << apng, metadata, ready_for_idat_chunks, ready_for_fdat_chunks,
                  given >>

\* The number the next fcTL or fdAT chunk must carry.
SequenceFits ==
  chunk.seq = IF current_seq_no = NoSeq THEN 0 ELSE current_seq_no + 1

ApngSequenceNumber ==
  /\ Complete("ApngSequenceNumber")
  /\ LET fits == current_seq_no # NoSeq /\ SequenceFits
     IN /\ current_chunk' = [current_chunk EXCEPT
                              !.remaining = @ - 4,
                              !.crc = IF fits THEN Hash(@, 4) ELSE @]
        /\ IF fits
           THEN /\ state' = State("ImageData")
                /\ current_seq_no' = chunk.seq
                /\ Return(consumed_bytes, Nothing)
                /\ UNCHANGED << chunk, before >>
           ELSE Fatal("ApngOrder") /\ UNCHANGED current_seq_no
  /\ UNCHANGED << inflater, metadata, flags, given >>

-----------------------------------------------------------------------------
(* Chunk contents.                                                         *)

lesser(m, n) == IF m <= n THEN m ELSE n

\* Fault: the vector doubles whatever the limit leaves.
ReserveDouble == current_chunk.raw_cap

\* Fault: all of the limit counts as used up.
ReserveNothing == 0

\* How much raw_bytes grows by when it is full.
ReserveSize == lesser(current_chunk.raw_cap, limits)

\* raw_bytes is full: it grows within the limits, and the call consumes nothing.
GrowRawBytes ==
  /\ state.kind = "ReadChunkData"
  /\ current_chunk.remaining > 0
  /\ current_chunk.action = "Process"
  /\ current_chunk.raw_len = current_chunk.raw_cap
  /\ IF limits = 0
     THEN Fatal("LimitsExceeded") /\ UNCHANGED << current_chunk, limits >>
     ELSE LET reserve_size == ReserveSize
          IN /\ limits' = limits - reserve_size
             /\ current_chunk' = [current_chunk EXCEPT !.raw_cap = @ + reserve_size]
             /\ state' = state
             /\ Return(0, Nothing)
             /\ UNCHANGED << chunk, before >>
  /\ UNCHANGED << apng, info, have_iccp, flags, given >>

\* Contents are gathered, or passed over if the chunk is skipped or rejected.
ReadChunkData ==
  /\ state.kind = "ReadChunkData"
  /\ current_chunk.raw_len < current_chunk.raw_cap
  /\ \E len \in input.buf_lens :
       LET n == lesser(current_chunk.remaining,
                       lesser(len, current_chunk.raw_cap - current_chunk.raw_len))
           remaining == current_chunk.remaining - n
       IN /\ current_chunk' = [current_chunk EXCEPT
                                !.remaining = remaining,
                                !.crc = Hash(@, n),
                                !.raw_len = IF current_chunk.action = "Process"
                                            THEN @ + n ELSE @]
          /\ state' = IF remaining = 0 THEN State("Crc") ELSE state
          /\ Return(n, Nothing)
  /\ UNCHANGED << apng, metadata, flags, given, chunk, before >>

\* Fault: the hash is fed with what the call brought, not with what was consumed.
HashedImageData(len, consumed) == len

\* What the checksum of image data is computed over.
HashedBytes(len, consumed) == consumed

\* Image data goes to the inflater, which takes as much as it has room for; without
\* a buffer for the output it is passed over.
ImageData ==
  /\ state.kind = "ImageData"
  /\ \E len \in input.buf_lens, image_data \in BOOLEAN :
       LET most == lesser(len, current_chunk.remaining)
           inflating == image_data /\ inflater # "done"
       IN \/ \E consumed \in IF inflating THEN 0 .. most ELSE {most} :
               LET remaining == current_chunk.remaining - consumed
               IN /\ current_chunk' = [current_chunk EXCEPT
                                        !.remaining = remaining,
                                        !.crc = Hash(@, HashedBytes(most, consumed))]
                  /\ inflater' \in IF inflating THEN {"running", "done"} ELSE {inflater}
                  /\ state' = IF remaining = 0 THEN State("Crc") ELSE state
                  /\ Return(consumed, Event("ImageData", "none"))
                  /\ UNCHANGED << chunk, before >>
          \/ /\ inflating
             /\ Fatal("CorruptFlateStream")
             /\ UNCHANGED << current_chunk, inflater >>
  /\ UNCHANGED << current_seq_no, metadata, flags, given >>

-----------------------------------------------------------------------------
(* The end of a chunk.                                                     *)

\* The next chunk, or the end of the input.
NextChunk ==
  /\ state' = IF chunk.type = "IEND" /\ event'.kind = "ChunkComplete"
              THEN NoState ELSE State("Length")
  /\ pos' = 0
  /\ UNCHANGED << chunk, before >>

ChecksumMatches ==
  decode_options.ignore_crc
  \/ (chunk.crc_ok /\ current_chunk.crc = 4 + chunk.length)

CrcMismatch ==
  /\ Complete("Crc")
  /\ ~ ChecksumMatches
  /\ IF decode_options.skip_ancillary_crc_failures /\ ~ is_critical(chunk.type)
     THEN event' = Event("BadAncillaryChunk", chunk.type) /\ NextChunk
     ELSE Fatal("CrcMismatch")
  /\ UNCHANGED << current_chunk, apng, metadata, flags, given >>

\* The chunk was passed over.
EndSkippedChunk ==
  /\ Complete("Crc")
  /\ ChecksumMatches
  /\ current_chunk.action # "Process"
  /\ event' = Event(IF current_chunk.action = "Skip" THEN "SkippedAncillaryChunk"
                    ELSE "BadAncillaryChunk", chunk.type)
  /\ NextChunk
  /\ UNCHANGED << current_chunk, apng, metadata, flags, given >>

\* Fault: a frame control is passed over like any other ancillary chunk.
ConcludeMildly(verdict) ==
  IF verdict = "Ok"
  THEN event' = Event("ChunkComplete", chunk.type) /\ NextChunk
  ELSE IF verdict = "Format" /\ ~ is_critical(chunk.type)
  THEN event' = Event("BadAncillaryChunk", chunk.type) /\ NextChunk
  ELSE Fatal(verdict)

\* parse_chunk: what becomes of a parser's verdict.
Conclude(verdict) ==
  IF verdict = "Ok"
  THEN event' = Event("ChunkComplete", chunk.type) /\ NextChunk
  ELSE IF verdict = "Format" /\ chunk.type # "fcTL" /\ ~ is_critical(chunk.type)
  THEN event' = Event("BadAncillaryChunk", chunk.type) /\ NextChunk
  ELSE Fatal(verdict)

\* The parser of each type but fcTL; the contents of IDAT, fdAT and IEND say nothing.
Parsed ==
  CASE chunk.type = "IHDR" -> parse_ihdr(chunk, info, limits)
    [] chunk.type \in TextTypes -> parse_text(chunk, info, limits)
    [] chunk.type = "iCCP" -> parse_iccp(chunk, info, limits, have_idat, have_iccp)
    [] chunk.type \in MetaTypes \ {"iCCP"} ->
         parse_meta(chunk, info, limits, have_idat, have_iccp)
    [] OTHER -> Result("Ok", info, limits)

Processes ==
  /\ Complete("Crc")
  /\ ChecksumMatches
  /\ current_chunk.action = "Process"

ParseChunk ==
  /\ Processes
  /\ chunk.type # "fcTL"
  /\ Conclude(Parsed.verdict)
  /\ info' = Parsed.info
  /\ limits' = Parsed.limits
  /\ have_iccp' = (have_iccp \/ (chunk.type = "iCCP" /\ Parsed.verdict = "Ok"))
  /\ UNCHANGED << current_chunk, apng, flags, given >>

\* Fault: the inflater keeps the stream of the previous frame.
ParseFctlKeepingInflater ==
  /\ Processes
  /\ chunk.type = "fcTL"
  /\ SequenceFits
  /\ LET parsed == parse_frame_control(chunk, info, limits, have_idat)
     IN Conclude(parsed.verdict) /\ info' = parsed.info
  /\ current_seq_no' = chunk.seq
  /\ ready_for_fdat_chunks' = have_idat
  /\ UNCHANGED << inflater, current_chunk, have_iccp, limits, have_idat,
                  ready_for_idat_chunks, given >>

\* parse_fctl: the sequence number, the inflater and the readiness for fdAT change
\* before the frame itself is looked at.
ParseFctl ==
  /\ Processes
  /\ chunk.type = "fcTL"
  /\ IF SequenceFits
     THEN LET parsed == parse_frame_control(chunk, info, limits, have_idat)
          IN /\ Conclude(parsed.verdict)
             /\ info' = parsed.info
             /\ current_seq_no' = chunk.seq
             /\ inflater' = "fresh"
             /\ ready_for_fdat_chunks' = have_idat
     ELSE /\ Fatal("ApngOrder")
          /\ UNCHANGED << info, current_seq_no, inflater, ready_for_fdat_chunks >>
  /\ UNCHANGED << current_chunk, have_iccp, limits, have_idat, ready_for_idat_chunks,
                  given >>

-----------------------------------------------------------------------------
\* next_state, called on a buffer that is not empty.
Next ==
  \/ AccumulateU32
  \/ Signature1stU32
  \/ Signature2ndU32
  \/ Length
  \/ ChunkBeforeIhdr
  \/ FlushImageData
  \/ BeginChunk
  \/ ApngSequenceNumber
  \/ GrowRawBytes
  \/ ReadChunkData
  \/ ImageData
  \/ CrcMismatch
  \/ EndSkippedChunk
  \/ ParseChunk
  \/ ParseFctl

Spec == Init /\ [][Next]_vars

\* StreamingDecoder::reset, between two calls.
Reset ==
  /\ state' = State("Signature1stU32")
  /\ current_chunk' = [current_chunk EXCEPT !.crc = 0, !.remaining = 0, !.raw_len = 0]
  /\ inflater' = "fresh"
  /\ info' = NoInfo
  /\ current_seq_no' = NoSeq
  /\ have_idat' = FALSE
  /\ event' = Event("Reset", "none")
  /\ chunk' = NoChunk
  /\ pos' = 0
  /\ UNCHANGED << ready_for_idat_chunks, ready_for_fdat_chunks, have_iccp,
                  given, limits >>
  /\ before' = Known'

SpecWithReset == Init /\ [][Next \/ Reset]_vars

\* Whoever reads a file goes on calling update() as long as there is input.
Fairness ==
  /\ WF_vars(ReadChunkData)
  /\ WF_vars(GrowRawBytes)

FairSpec == Spec /\ Fairness

-----------------------------------------------------------------------------
(* Properties.                                                             *)

\* Every variable has its type; remaining and accumulated_count are unsigned.
TypeOK ==
  /\ state.kind \in U32Kinds \cup {"ReadChunkData", "ImageData", "None"}
  /\ state.accumulated_count \in 0 .. 3
  /\ current_chunk.remaining \in Nat /\ current_chunk.raw_len \in Nat
  /\ current_chunk.raw_cap \in Nat /\ current_chunk.crc \in Nat
  /\ current_chunk.action \in {"Process", "Skip", "Reject"}
  /\ inflater \in {"fresh", "running", "done"}
  /\ current_seq_no \in Nat \cup {NoSeq}
  /\ have_idat \in BOOLEAN /\ have_iccp \in BOOLEAN
  /\ ready_for_idat_chunks \in BOOLEAN /\ ready_for_fdat_chunks \in BOOLEAN
  /\ input \in Inputs
  /\ decode_options \in input.options
  /\ limits \in Int
  /\ chunk \in input.chunks \cup {NoChunk}

\* However the input is cut into calls, and through rewinds and calls that consume
\* nothing, the parser's state agrees with the place it has reached in the chunk: no
\* byte is read twice or left out.
KeepsItsPlace ==
  CASE state.kind = "Signature1stU32" -> pos = state.accumulated_count
    [] state.kind = "Signature2ndU32" -> pos = 4 + state.accumulated_count
    [] state.kind = "Length" -> pos = state.accumulated_count
    [] state.kind = "Type" -> pos = 4 + state.accumulated_count
    [] state.kind = "ApngSequenceNumber" ->
         pos = 8 + state.accumulated_count /\ current_chunk.remaining = chunk.length
    [] state.kind \in {"ReadChunkData", "ImageData"} ->
         pos = 8 + (chunk.length - current_chunk.remaining)
    [] state.kind = "Crc" ->
         pos = 8 + chunk.length + state.accumulated_count /\ current_chunk.remaining = 0
    [] OTHER -> TRUE

\* A checksum is compared only when it covers the type and all of the contents, and a
\* parser sees all of the contents: a good chunk is never taken for a corrupt one.
ChunkReadWhole ==
  state.kind = "Crc" =>
    /\ decode_options.ignore_crc \/ current_chunk.crc = 4 + chunk.length
    /\ current_chunk.action = "Process" /\ chunk.type \notin DataTypes =>
         current_chunk.raw_len = chunk.length

\* The inflater never continues the compressed stream of an earlier frame, even if the
\* reader left that frame half-way: every run of data chunks begins with a new stream.
FreshStreamPerRun ==
  [][/\ event'.kind = "ChunkBegin"
     /\ event'.type \in DataTypes
     /\ current_chunk.type_ # event'.type
     => inflater = "fresh"]_vars

\* Data is read under the frame control it belongs to.  The one in force when a run of
\* IDAT chunks begins covers the image.  When a run of fdAT chunks begins there is one, it
\* stands behind the image data and is the last thing that was numbered: no data has been
\* read under it before, and no frame control behind it was given up half-way.  It stays
\* in force until the run is over.
FrameControlGoverns ==
  [][/\ event'.kind = "ChunkBegin" /\ event'.type = "IDAT" =>
          info.frame_control.bounds \in {"none", "whole"}
     /\ event'.kind = "ChunkBegin" /\ event'.type = "fdAT" /\ current_chunk.type_ # "fdAT" =>
          /\ info.frame_control # NoFrameControl
          /\ info.frame_control.behind
          /\ info.frame_control.seq = current_seq_no
     /\ current_chunk.type_ \in DataTypes =>
          info'.frame_control = info.frame_control]_vars

\* Of two chunks that may occur once the first one counts, wherever the second stands.
FirstChunkCounts ==
  [][info # NoInfo =>
       \A t \in MetaTypes :
         info.meta[t] # Absent => info'.meta[t] = info.meta[t]]_vars

\* What the image data means is settled when it begins: of the metadata, only what has
\* no place of its own (and PLTE, and the tRNS of an image without palette, whose place
\* is not checked) is still accepted.
SettledBeforeData ==
  [][have_idat =>
       \A t \in MetaTypes \ {"PLTE", "cLLI", "eXIf"} :
         \/ t = "tRNS" /\ info.color # "Indexed"
         \/ info'.meta[t] = info.meta[t]]_vars

\* A chunk reported as skipped or bad has changed nothing the decoder knows, whatever
\* was gathered of it before it was given up.  (Image data is another matter.)
IgnoredLeavesNoTrace ==
  /\ event.kind \in {"SkippedAncillaryChunk", "BadAncillaryChunk"}
  /\ event.type \notin DataTypes
  => Known = before

\* IDAT chunks are refused as a second image only if this input has had a first one.
RefusedImageIsSecond == event = Event("Error", "IDAT") => have_idat

\* For the growth of raw_bytes, the profile and the text chunks that are kept at least their
\* bytes have been taken from the limits, and never more than there were.  (What is charged
\* for a text is the length of its chunk: of tEXt and zTXt the Strings may take up to two
\* bytes of memory for each Latin-1 byte.)
WithinLimits ==
  /\ limits >= 0
  /\ (current_chunk.raw_cap - CHUNK_BUFFER_SIZE)
       + (IF info = NoInfo THEN 0 ELSE info.meta["iCCP"] + info.texts) <= input.limit - limits

\* What the parser tells its caller about image data.
Announced ==
  INSTANCE DataSequences WITH
    run <- IF current_chunk.type_ = "IDAT" /\ ready_for_idat_chunks /\ have_idat
           THEN "IDAT"
           ELSE IF current_chunk.type_ = "fdAT" /\ ready_for_fdat_chunks THEN "fdAT"
           ELSE "none",
    image <- IF ~ have_idat THEN "ahead"
             ELSE IF ready_for_idat_chunks THEN "begun" ELSE "over",
    armed <- ready_for_fdat_chunks,
    told <- CASE event.kind = "ImageData" -> "data"
              [] event.kind = "ImageDataFlushed" -> "flushed"
              [] OTHER -> "other"

\* Image data is announced as DataSequences promises.
AnnouncesData == Announced!Spec

\* Gathering a chunk's contents comes to an end, also when raw_bytes has to grow.
ContentsEnd == (state.kind = "ReadChunkData") ~> (state.kind # "ReadChunkData")
=============================================================================
