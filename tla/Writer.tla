-------------------------------- MODULE Writer --------------------------------
(***************************************************************************)
(* Encoder and Writer, encoder.rs: configuration, the header, whole images *)
(* by write_image_data, and the end of the file by finish or by drop.      *)
(*                                                                         *)
(* Every call may fail when the sink does, with any part of its chunks     *)
(* written.  A call is therefore an operator from a state m, a record of   *)
(* the variables below, to the set of states it may end in; m.result says  *)
(* how it went.                                                            *)
(*                                                                         *)
(* Frames have one dimension: width and x_offset; height and y_offset are  *)
(* handled by the same lines of code in the same way.  A compressed byte   *)
(* is its number within its image.                                         *)
(***************************************************************************)
EXTENDS TextMetadata, FiniteSets

CONSTANTS
  Width,               \* of the image, in pixels
  Infos,               \* sets of chunk types: what Info holds besides the image
  Texts,               \* text chunks that write_text_chunk is given
  TextLimits,          \* arguments of decompress_text_with_limit
  NumFrames,           \* arguments of set_animated
  CompressedSizes,     \* how long a compressed image may be
  MAX_IDAT_CHUNK_LEN,
  MaxImages,           \* bound: images started in one file
  MaxChunks,           \* bound: chunks in a file that gets another image
  MaxRetried           \* bound: the same, in images, once a chunk was refused

ASSUME WriterAssumption ==
  /\ Width \in Nat \ {0}
  /\ NumFrames \subseteq Nat
  /\ CompressedSizes \subseteq Nat \ {0}
  /\ MAX_IDAT_CHUNK_LEN \in Nat /\ MAX_IDAT_CHUNK_LEN > 4
  /\ \A text \in Texts : text \in TextType

VARIABLES
  writer,    \* the fields of Writer; those of Encoder before write_header
  out,       \* the chunks in the sink, the signature left out
  failed,    \* the sink has refused a chunk
  result,    \* how the last call went: "ok", "err" or "panic"; "none" if nobody is told
  user,      \* what the caller holds: "encoder", "writer", "borrowed" or "owned" stream, "gone"
  stream,    \* the StreamWriter, which only the module of that name touches
  image,     \* history: how many images have been started
  streams    \* history: how many StreamWriters there were

vars == << writer, out, failed, result, user, stream, image, streams >>

MAX_fdAT_CHUNK_LEN == MAX_IDAT_CHUNK_LEN - 4

-----------------------------------------------------------------------------
(* Frame control.  Frames are never empty, so that width 0 is None.        *)

NoFrameControl == [sequence_number |-> 0, width |-> 0, x_offset |-> 0]
is_some(fctl) == fctl.width > 0

WholeImage == [sequence_number |-> 0, width |-> Width, x_offset |-> 0]

\* Whether the setters of Writer and of StreamWriter accept a value.
dimension_fits(fctl, width) == 0 < width /\ width <= Width - fctl.x_offset
position_fits(fctl, x) == x <= Width - fctl.width

\* Fault: to the width of the image, wherever the frame begins.
ResetToWholeWidth(fctl) == [fctl EXCEPT !.width = Width]

reset_frame_dimension(fctl) == [fctl EXCEPT !.width = Width - fctl.x_offset]

-----------------------------------------------------------------------------
(* The sink.                                                               *)

NoSeq == -1

\* frame is what an fcTL chunk says, data what a data chunk holds; seq is the sequence
\* number, if there is one.
Chunk(type, img, seq, frame, data) ==
  [type |-> type, image |-> img, seq |-> seq, frame |-> frame, data |-> data]

Plain(type) == Chunk(type, 0, NoSeq, NoFrameControl, << >>)
\* given: the chunk as the caller had it first.
TextChunk(given, data) ==
  [type |-> given.type, image |-> 0, seq |-> NoSeq, frame |-> NoFrameControl, data |-> << >>,
   given |-> given, text |-> data]
FrameChunk(img, fctl) == Chunk("fcTL", img, fctl.sequence_number, fctl, << >>)

Fail(m) == [m EXCEPT !.failed = TRUE, !.result = "err"]
Err(m) == [m EXCEPT !.result = "err"]

\* The free function write_chunk, and encode() of single chunks.
WriteChunk(m, chunk) == { [m EXCEPT !.out = Append(@, chunk)], Fail(m) }

\* Several chunks in a row, each with `?`.
WriteChunks(m, chunks) ==
  { LET done == [m EXCEPT !.out = @ \o SubSeq(chunks, 1, n)]
    IN IF n = Len(chunks) THEN done ELSE Fail(done) : n \in 0 .. Len(chunks) }

\* `?`: go on with Op where things went well.
Then(S, Op(_)) == UNION { IF m.result = "ok" THEN Op(m) ELSE {m} : m \in S }

\* `let _ =`, which takes an error but no panic.
Ignore(S) == { IF m.result = "panic" THEN m ELSE [m EXCEPT !.result = "ok"] : m \in S }

-----------------------------------------------------------------------------
(* The header.                                                             *)

If(condition, type) == IF condition THEN << Plain(type) >> ELSE << >>

\* "substitutes" in info: source_gamma and source_chromaticities have the values that
\* stand for sRGB.
ColorChunks(info) ==
  IF "sRGB" \in info
  THEN << Plain("sRGB") >>
       \o If("gAMA" \in info /\ "substitutes" \in info, "gAMA")
       \o If("cHRM" \in info /\ "substitutes" \in info, "cHRM")
  ELSE If("gAMA" \in info, "gAMA") \o If("cHRM" \in info, "cHRM") \o If("iCCP" \in info, "iCCP")

\* Fault: transparency comes before the palette it refers to.
encode_header_trns_first(info, animated) ==
  << Plain("IHDR") >> \o If("pHYs" \in info, "pHYs") \o ColorChunks(info)
  \o If("eXIf" \in info, "eXIf") \o If(animated, "acTL")
  \o If("tRNS" \in info, "tRNS") \o If("PLTE" \in info, "PLTE") \o If("tEXt" \in info, "tEXt")

encode_header(info, animated) ==
  << Plain("IHDR") >> \o If("pHYs" \in info, "pHYs") \o ColorChunks(info)
  \o If("eXIf" \in info, "eXIf") \o If(animated, "acTL")
  \o If("PLTE" \in info, "PLTE") \o If("tRNS" \in info, "tRNS") \o If("tEXt" \in info, "tEXt")

-----------------------------------------------------------------------------
(* Images.  The operators take the Writer, w, where nothing is written.    *)

animated(w) == w.num_frames > 0

validate_new_image(w) ==
  w.validate_sequence =>
    IF animated(w) THEN is_some(w.frame_control) ELSE w.images_written = 0

validate_sequence_done(w) ==
  w.validate_sequence =>
    /\ ~ (animated(w) /\ is_some(w.frame_control))
    /\ w.images_written > 0

should_skip_frame_control_on_default_image(w) == w.sep_def_img /\ w.images_written = 0

\* The next image is preceded by its frame control.
TakesFrameControl(w) ==
  is_some(w.frame_control) /\ ~ should_skip_frame_control_on_default_image(w)

\* Fault: compares the images, the default image among them.
IncrementByImages(w) ==
  [w EXCEPT !.images_written = @ + 1,
            !.frame_control = IF animated(w) /\ w.num_frames <= w.images_written + 1
                              THEN NoFrameControl ELSE @]

increment_images_written(w) ==
  [w EXCEPT !.images_written = @ + 1,
            !.frame_control = IF animated(w) /\ w.num_frames <= w.animation_written
                              THEN NoFrameControl ELSE @]

\* slice::chunks: the bytes 1..size in pieces of at most max.
Pieces(size, max) ==
  [i \in 1 .. (size + max - 1) \div max |->
     [k \in 1 .. (IF i * max <= size THEN max ELSE size - (i - 1) * max) |-> (i - 1) * max + k]]

write_zlib_encoded_idat(img, size) ==
  LET pieces == Pieces(size, MAX_IDAT_CHUNK_LEN)
  IN [i \in DOMAIN pieces |-> Chunk("IDAT", img, NoSeq, NoFrameControl, pieces[i])]

\* The loop over zlib_encoded; seq is the next sequence number.
fdAT_chunks(img, size, seq) ==
  LET pieces == Pieces(size, MAX_fdAT_CHUNK_LEN)
  IN [i \in DOMAIN pieces |-> Chunk("fdAT", img, seq + i - 1, NoFrameControl, pieces[i])]

\* Fault: the first frame is taken for the first image.
ImageChunksByFrame(w, img, size) ==
  LET fctl == w.frame_control IN
  IF ~ TakesFrameControl(w) THEN write_zlib_encoded_idat(img, size)
  ELSE << FrameChunk(img, fctl) >>
       \o IF w.animation_written = 0 THEN write_zlib_encoded_idat(img, size)
          ELSE fdAT_chunks(img, size, fctl.sequence_number + 1)

\* The chunks of an image that takes size bytes.
image_chunks(w, img, size) ==
  LET fctl == w.frame_control IN
  IF ~ TakesFrameControl(w) THEN write_zlib_encoded_idat(img, size)
  ELSE << FrameChunk(img, fctl) >>
       \o IF w.images_written = 0 THEN write_zlib_encoded_idat(img, size)
          ELSE fdAT_chunks(img, size, fctl.sequence_number + 1)

Sequenced(chunks) == Cardinality({ i \in DOMAIN chunks : chunks[i].seq # NoSeq })

\* write_image_data behind its checks.  The sequence number and animation_written follow
\* the chunks that were written.
write_image_data(m, size) ==
  LET begun == [m EXCEPT !.image = @ + 1]
      Count(s) ==
        LET new == SubSeq(s.out, Len(m.out) + 1, Len(s.out)) IN
        [s EXCEPT
           !.writer.frame_control.sequence_number = @ + Sequenced(new),
           !.writer.animation_written =
              @ + (IF TakesFrameControl(m.writer) /\ new # << >> THEN 1 ELSE 0)]
  IN Then({ Count(s) : s \in WriteChunks(begun, image_chunks(m.writer, m.image + 1, size)) },
          LAMBDA s : { [s EXCEPT !.writer = increment_images_written(@)] })

write_iend(m) == WriteChunk([m EXCEPT !.writer.iend_written = TRUE], Plain("IEND"))

\* Fault: the chunk is written in any case.
drop_always(m) == Ignore(write_iend(m))

\* Drop for Writer
drop_writer(m) == IF m.writer.iend_written THEN {m} ELSE Ignore(write_iend(m))

\* Writer::finish; the sink may also fail when it is flushed.
finish_writer(m) ==
  IF validate_sequence_done(m.writer)
  THEN Then(write_iend(m), LAMBDA s : {s, Fail(s)})
  ELSE {Err(m)}

-----------------------------------------------------------------------------
Here ==
  [writer |-> writer, out |-> out, failed |-> failed, result |-> "ok", stream |-> stream,
   image |-> image]

Become(m) ==
  /\ writer' = m.writer
  /\ out' = m.out
  /\ failed' = m.failed
  /\ stream' = m.stream
  /\ image' = m.image

\* A call that ends in one of S and says how it went; afterwards the caller holds holder.
Return(S, holder) ==
  /\ \E m \in S : Become(m) /\ result' = m.result
  /\ user' = holder
  /\ UNCHANGED streams

\* Encoder::new.  with_info takes the same fields from an Info, and with them any frame control,
\* whatever its sequence number and its size: an encoder that begins so is not modelled, unless
\* the Info has no animation.
WriterInit ==
  /\ writer = [num_frames |-> 0, sep_def_img |-> FALSE, validate_sequence |-> FALSE,
               compression |-> "Flate2", frame_control |-> NoFrameControl,
               images_written |-> 0, animation_written |-> 0, iend_written |-> FALSE]
  /\ out = << >>
  /\ failed = FALSE
  /\ result = "ok"
  /\ user = "encoder"
  /\ image = 0
  /\ streams = 0

\* A setter that succeeds.  Where it does not, nothing changes.
Set(holder, w) ==
  /\ user = holder
  /\ writer' = w
  /\ result' = "ok"
  /\ UNCHANGED << out, failed, user, stream, image, streams >>

SetAnimated(num_frames) ==
  /\ num_frames > 0
  /\ Set("encoder", [writer EXCEPT !.num_frames = num_frames, !.frame_control = WholeImage])

SetSepDefImg(sep_def_img) ==
  /\ animated(writer)
  /\ Set("encoder", [writer EXCEPT !.sep_def_img = sep_def_img])

ValidateSequence(validate) ==
  Set("encoder", [writer EXCEPT !.validate_sequence = validate])

\* set_deflate_compression; NoCompression and the levels behave alike here.
SetDeflateCompression(compression) ==
  Set("encoder", [writer EXCEPT !.compression = compression])

\* Writer::init.  "invalid": width, height or colour type are refused; "unencodable": one of
\* the texts is, which come last.
init(m, info) ==
  IF "invalid" \in info THEN {Err(m)}
  ELSE Then(WriteChunks(m, encode_header(info, animated(m.writer))),
            LAMBDA s : IF "unencodable" \in info THEN {Err(s)} ELSE {s})

\* write_header; where it fails the Writer is dropped.
WriteHeader(info) ==
  /\ user = "encoder"
  /\ \E m \in init(Here, info) :
       IF m.result = "ok" THEN Return({m}, "writer")
       ELSE Return({ [d EXCEPT !.result = "err"] : d \in drop_writer([m EXCEPT !.result = "ok"]) },
                   "gone")

\* Writer::set_frame_dimension and the setters after it.
SetFrameDimension(width) ==
  /\ is_some(writer.frame_control)
  /\ dimension_fits(writer.frame_control, width)
  /\ Set("writer", [writer EXCEPT !.frame_control.width = width])

SetFramePosition(x) ==
  /\ is_some(writer.frame_control)
  /\ position_fits(writer.frame_control, x)
  /\ Set("writer", [writer EXCEPT !.frame_control.x_offset = x])

ResetFrameDimension ==
  /\ is_some(writer.frame_control)
  /\ Set("writer", [writer EXCEPT !.frame_control = reset_frame_dimension(@)])

ResetFramePosition ==
  /\ is_some(writer.frame_control)
  /\ Set("writer", [writer EXCEPT !.frame_control.x_offset = 0])

IsText(c) == c.type \in {"tEXt", "zTXt", "iTXt"} /\ "given" \in DOMAIN c
TextsWritten == { out[i].given : i \in { j \in DOMAIN out : IsText(out[j]) } }

\* Another image is within the bounds.
Bounded ==
  /\ image < MaxImages /\ Len(out) <= MaxChunks /\ (failed => image < MaxRetried)
  /\ TextsWritten = {}

\* write_image_data with data of the right length and a palette if one is needed.
WriteImageData(size) ==
  /\ user = "writer"
  /\ Bounded
  /\ Return(IF validate_new_image(writer) THEN write_image_data(Here, size) ELSE {Err(Here)},
            "writer")

\* What the caller may have made of a chunk before it writes it, as encode has it.
Encoded ==
  UNION { { [given |-> given, data |-> encode(c)] : c \in Prepared(given, TextLimits) } :
          given \in Texts }

\* Writer::write_text_chunk.  Bound: behind IHDR; no other text and no image come after it.
WriteTextChunk(text) ==
  /\ user = "writer"
  /\ Len(out) = 1
  /\ Return(IF text.data.ok THEN WriteChunk(Here, TextChunk(text.given, text.data.value))
            ELSE {Err(Here)},
            "writer")

\* finish consumes the Writer, which is dropped.
Finish ==
  /\ user = "writer"
  /\ \E m \in finish_writer(Here) :
       Return({ [d EXCEPT !.result = m.result] : d \in drop_writer([m EXCEPT !.result = "ok"]) },
              "gone")

Drop ==
  /\ user = "writer"
  /\ Return({ [d EXCEPT !.result = "none"] : d \in drop_writer(Here) }, "gone")

WriterNext ==
  \/ \E num_frames \in NumFrames : SetAnimated(num_frames)
  \/ \E sep_def_img \in BOOLEAN : SetSepDefImg(sep_def_img)
  \/ \E validate \in BOOLEAN : ValidateSequence(validate)
  \/ \E compression \in {"Flate2", "FDeflate"} : SetDeflateCompression(compression)
  \/ \E info \in Infos : WriteHeader(info)
  \/ \E width \in 1 .. Width : SetFrameDimension(width)
  \/ \E x \in 0 .. Width : SetFramePosition(x)
  \/ ResetFrameDimension
  \/ ResetFramePosition
  \/ \E size \in CompressedSizes : WriteImageData(size)
  \/ \E text \in Encoded : WriteTextChunk(text)
  \/ Finish
  \/ Drop

-----------------------------------------------------------------------------
Positions(types) == { i \in DOMAIN out : out[i].type \in types }

\* The file is what PngFile allows, call by call: by whichever writer, setter or stream it is
\* changed and whatever fails on the way, nothing follows IEND; and as long as nothing fails IHDR
\* is its first chunk, sequence numbers have no gap and no repetition, frames lie within the
\* image, and no compressed byte is lost or out of place.  A Writer that is gone without a
\* failure has completed it.  This is said of frame controls that set_animated has made; one that
\* with_info took over from the caller's Info may have any number and size.
File == INSTANCE PngFile WITH
          chunks <- out, refused <- failed, closed <- user = "gone" /\ result # "panic"

FileIsPng == File!Spec

\* "Attempts to finish the image with missing frames will also return an error", and so
\* do images beyond the announced ones: a file for which no stream was used and that was
\* validated and finished has all its frames and nothing else.  The sentence links to
\* StreamWriter::finish, of which this says nothing: with a compressor open, as it is behind
\* the rows of an image, that method does not look at the sequence, and returns Ok with frames
\* missing.
ValidatedCount ==
  user = "gone" /\ result = "ok" /\ writer.validate_sequence /\ streams = 0 /\ ~ failed =>
    LET default == IF animated(writer) /\ ~ writer.sep_def_img THEN 0 ELSE 1
    IN /\ Cardinality(Positions({"fcTL"})) = writer.num_frames
       /\ image = writer.num_frames + default

\* A text chunk is read as it was given, whatever the caller did in between - compressed it,
\* decompressed it, refused for the limit or not, wrote and read it, changed its compressed field -
\* provided that no field holds the null that ends it.  If the text could be read before, the
\* parser accepts the chunk.
TextsRecovered ==
  \A i \in DOMAIN out :
    IsText(out[i]) /\ Separable(out[i].given) =>
      LET given == out[i].given
          read == parse(out[i].type, out[i].text)
      IN  /\ get_text(given).ok => read.ok
          /\ read.ok =>
               /\ read.value.keyword = given.keyword
               /\ read.value.language_tag = given.language_tag
               /\ read.value.translated_keyword = given.translated_keyword
               /\ get_text(read.value) = get_text(given)

FrameOf(img) == { i \in Positions({"fcTL"}) : out[i].image = img }

\* "Images written will be encoded as fdAT chunks, except for the first image that is
\* still encoded as IDAT": the chunks of an animation's frames.
FrameDataIn(img) ==
  \A i \in Positions({"IDAT", "fdAT"}) :
    out[i].image = img /\ FrameOf(img) # {} =>
      /\ \A f \in FrameOf(img) : f < i
      /\ IF img = 1 THEN out[i].type = "IDAT" /\ out[i].seq = NoSeq
         ELSE out[i].type = "fdAT" /\ out[i].seq # NoSeq

\* The same of the IDAT chunks of an animation that one stream writes to its end.
LaterImagesAreFdat ==
  ~ failed /\ streams = 1 /\ user = "owned" =>
    \A i \in Positions({"IDAT"}) : FrameOf(out[i].image) # {} => out[i].image = 1

\* As long as no stream was used and no chunk refused, every frame is encoded that way,
\* behind its own frame control.
FramesWellFormed == streams = 0 /\ ~ failed => \A img \in 1 .. image : FrameDataIn(img)
===============================================================================
