# A TLA+ model of image-png

This directory models the `png` crate (`src/src/`): the decoder's state machines, the window of
bytes between its inflater and its row reader, interlacing, the methods a program calls, and the
encoder with its streams, down to the bytes of a row. TLC checks the models on small instances;
TLAPS proves nearly all that the runs check, of every part, for every instance.

## Inventory

The crate is single-threaded. What makes it hard is that both halves are state machines driven in
small steps from outside: input arrives in pieces of any size, every call may fail half-way
(a slow stream runs dry, a chunk is corrupt, a buffer is too small) and be repeated, and the caller
may call the methods in any order.

| Component | State | Operations | Interacts with |
|---|---|---|---|
| **Push parser** `decoder/stream.rs`, `StreamingDecoder` | parser state, current chunk (`remaining`, `raw_bytes`, CRC, action), `info`, sequence number, `have_idat`, readiness flags, limits | `update` = `next_state` until an event: four-byte fields, chunk contents, image data, checksums, some twenty chunk parsers; `reset` | hands image data to `ZlibStream`; reports events to `ReadDecoder` |
| **Inflater** `decoder/zlib.rs`, `ZlibStream` | started, done, `fdeflate`'s own state | `decompress`, `finish`, `reset` | writes into the window |
| **Window** `decoder/unfiltering_buffer.rs`, `UnfilteringBuffer` | one vector and the markers `prev_start`, `current_start`, `available`, `filled`, plus `remaining_bytes` | `start_frame`, `with_unfilled_buffer`, `unfilter_curr_row`, `reset_prev_row` | filled by the inflater, drained by `Reader` |
| **Input adapter** `decoder/read_decoder.rs`, `ReadDecoder` | the input, the parser | `read_header_info`, `read_until_image_data`, `decode_image_data`, `finish_decoding_image_data`, `read_until_end_of_input` | one caller, `Reader`; its prerequisites are comments and assertions |
| **Pull API** `decoder/mod.rs`, `Decoder`, `Reader` | `subframe`, `remaining_frames`, `finished`, `transform_fn`, the window | `read_info`, `next_frame`, `next_frame_info`, `next_row`, `read_row`, `finish` | everything above |
| **Interlacing** `adam7.rs`, `decoder/interlace_info.rs` | an iterator over passes and lines; the caller's image | `next`; `expand_pass`, `expand_pass_splat` | row lengths of the window; `next_frame` |
| **Row transformations** `decoder/transform*` | the function and its table of RGBA entries, cached in the `Reader` | `create_transform_fn`, the palette and alpha expansions | the `Info` the choice was made from |
| **Row filters** `filter/*` | none; the encoder keeps a row and an output buffer between calls | `filter`, `unfilter`, the adaptive choices, three Paeth predictors | window, writer |
| **Writer** `encoder.rs`, `Encoder`, `Writer` | the frame control with the next sequence number, `images_written`, `animation_written`, `iend_written`, options | `write_header`, `write_image_data`, frame setters, `finish`, `Drop` | the sink, which may refuse any chunk |
| **Stream** `encoder.rs`, `StreamWriter`, `ChunkWriter` | a row under way, `to_write`, its own copy of the frame control; the `Wrapper` with or without a compressor; the chunk buffer | `write`, `flush`, setters, `finish`, `Drop` of three nested values | borrows or owns the `Writer` |
| **Texts** `text_metadata.rs` | a text, compressed in memory or not, to be compressed in the file or not | `compress_text`, `decompress_text_with_limit`, `encode`, `decode` | parser, encoder |
| **Other metadata** `common.rs`, `srgb.rs`, `chunk.rs` | plain data | conversions | parser, encoder |

What makes each correct, and is hard to test:

- *Parser.* However the input is cut into calls, no byte is read twice or left out, and no valid
  chunk is taken for a corrupt one; a chunk reported as bad or skipped leaves no trace; the frame
  control in force belongs to the data being read; the inflater is new for every frame; the memory that is charged
  to the limits stays within them; of repeated metadata the first counts, and what must be known ahead of the
  image data is not changed behind it; what is announced about image data follows one simple protocol.
- *Window.* The inflater's look-back bytes are never unfiltered before it is through with them; rows
  are unfiltered once, from their own bytes, against the row above; when data is asked for there is
  room for it, and more to come unless a row was lost; a call that reads a row returns.
- *Pull API.* The `Reader`'s idea of where the parser stands is right after any mixture of failed,
  retried, skipped and half-read frames; frames are counted correctly; `next_frame` succeeds only
  when the frame is complete; `info()` describes the frame that was returned; nothing panics.
- *Interlacing.* Every pixel of a ragged image arrives at its place; rows that come later, and the
  repetition of pixels, leave the delivered ones alone.
- *Transformations.* The function that is made agrees with the colour type and depth that are announced, for
  every combination; the table of colours survives being filled four bytes at a time; no row is written
  beyond its end.
- *Filters.* What any filter of the encoder takes away any path of the decoder adds again, whatever the
  build, the size of a pixel and the buffers in between; an adaptive filter chooses the cheapest candidate.
- *Texts.* A text that was compressed, decompressed or refused in any order is read as it was given.
- *Writer and stream.* Whatever is called, refused by the sink, given up or dropped: one IEND and
  nothing behind it, sequence numbers without gap, frames inside the image and encoded as the animation
  demands, no compressed byte lost between compressor, chunk buffer and sink.

`PROJECT.json` lists every hazard at its line, with the properties that would catch it.

## Modules

```
FrameLayout <---- MCUnfilteringBuffer ----> UnfilteringBuffer <---- UnfilteringBuffer_proofs
                                                  | implements
                                                  v
                                              RowQueue
ChunkParsers <---- StreamingDecoder <---- MCStreamingDecoder, StreamingDecoder_proofs
                         | implements
                         v
                   DataSequences <---- Reader <---- Reader_proofs
FrameLayout <---- Adam7 <----+
FrameLayout <---- Transform <+-- InterlacedOutput <---- MCAdam7, Adam7_proofs <---- Transform_proofs
RowFilters <---- Scanlines <---- MCScanlines, Scanlines_proofs
TextMetadata <---- Writer <---- StreamWriter <---- EncodedHeader <---- MCStreamWriter, Writer_proofs
                                      |                  +----> ChunkParsers
                                      |<---- StreamWriter_proofs <---- Writer_proofs
                                      | implements
                                      v
                                   PngFile
```

An arrow points from a module to one it extends or instantiates.

**UnfilteringBuffer** is the window with `ZlibStream::decompress` and `finish`, which fill it, and the
loop of `next_raw_interlaced_row`, which drains it. `buf` is the struct, field by field; offsets count
from 0 as in the code. A byte is abstracted to where it comes from: `Raw(k)` is the k-th byte of the
frame's decompressed stream, `Cooked(k)` the same byte unfiltered, `Zero` a byte `resize` wrote.
Which bytes must survive where is thereby part of the state, while their values are not. `ShiftBack`
and `Grow` are the two halves of the head of `with_unfilled_buffer`; `Refill` is its accounting;
`Decompress`, `Finish` and `Interrupt` are the ways one poll of the decoder can go. `fdeflate` is
external: it may write any number of the bytes it has and may notice the end of its stream late.
A frame may be abandoned for the next at any moment between calls (`StartFrame`).
A row leaves the window (mod.rs:608) before `create_transform_fn` is asked for the function that transforms it
(615), and the iterator moves only behind that (621). `transformable` says whether there is one for the frame: without
it, as for an indexed image under `EXPAND` whose PLTE is missing, `UnfilterCurrRow` takes the row and stays
at it, a repeated call takes the next one in its place, and behind the last one `AssertionFails`.

**RowQueue** is what `Reader` may rely on in its window: bytes arrive in order, a whole row is taken off,
unfiltered against the row above, and becomes the row above. It has no vector, no markers and no look-back.
`WindowIsQueue` says that `UnfilteringBuffer` implements it, with the bytes between `current_start` and
`filled` as those that wait, and those between `prev_start` and `current_start` as the row above. It too
can lose rows.

**FrameLayout** holds the pure operators that give a frame its rows: the Adam7 table, the iterator over
passes and lines, the row lengths, and `frame_bytes`, which `read_until_image_data` computes
independently of the iterator. `MCUnfilteringBuffer` builds its frames from them, so that the window is
checked with the layouts the code derives; the assumptions of the proofs say what a layout must
satisfy, and TLC evaluates them on those layouts.

**StreamingDecoder** is `next_state`, one call per step. `Length` picks the next chunk from the constant
`Chunks`; how many bytes a call brings is chosen from `BufLens` at each step, and whether it brings
a buffer for image data is open. The two steps that consume nothing (the rewind of a type field when
`ImageDataFlushed` is due, the growth of `raw_bytes`) are steps of their own, as in the code. `pos` and
`before` are history: how far into the chunk the input has been consumed, and what the decoder knew
when the chunk began. **ChunkParsers** has the parsers of chunk contents as pure operators from a
chunk, the `Info` and the limits to a verdict, an `Info` and limits. `Inputs` says what a decoder may be
given: chunks, lengths of calls, options, limit.

**DataSequences** is what the parser promises about image data: one run of IDAT chunks, a run of fdAT
chunks per frame control behind it, data within runs only, the end of each run announced once.
`StreamingDecoder` implements it under the mapping `Announced`; the property is `AnnouncesData`.

**Reader** is the pull API over `ReadDecoder`. It takes the parser as `DataSequences` describes it and
adds what only `Reader` sees. One step is one `decode_next` or what happens between two of them;
`call` says which method is running and how far it is, `result` what the last one returned. Every
method may be called whenever none is running; in any read the input may run dry, be invalid, or have
failed before. Of the window only numbers of rows are kept, those that can be delivered (`window`) and those that are
expected (`missing`): `UnfilteringBuffer` covers the bytes. The image is RGB or indexed, with
`Transformations::EXPAND`, so that a tRNS chunk changes the output, and that without a palette no row can be transformed
(`CannotTransform`): the row is lost, the call returns `PaletteRequired`, and may be repeated up to the panic at mod.rs:707.

**Adam7** steps `Adam7Iterator` and puts each row it yields into two images, one by `expand_pass`, one by
`expand_pass_splat`. A unit of an image (a bit or a byte) is abstracted to the set of row units or-ed into
it, so that a wrong place, a pixel written twice and one never written all differ. The reference is
the pattern in the comment of `Adam7Iterator`: which pass holds a pixel is read off it, line and
sample are counted.

**Transform** is one row behind the window: `create_transform_fn`, the table of RGBA entries as its three loops fill
it, every function the choice may fall on, and the sizes and colour types that `Reader` announces. Rows are
bytes, and one step is one turn of a loop: four bytes are written on the place of three, and both the table
and the row depend on what repairs that. **InterlacedOutput** composes the two as `next_frame` does: the iterator says
which row is next, the row is transformed, and put into the image at the size the transformation gave it.

**RowFilters** has the five filters as the encoder subtracts them and as the decoder adds them, the three Paeth
predictors, and the costs of the adaptive choices. **Scanlines** takes rows from an encoder (`Writer` or
`StreamWriter`, with its buffers as they survive from row to row and frame to frame) over a wire of bytes to a
decoder, which unfilters in place: pixel by pixel, or in strides, whose predictions are taken ahead of the pixels
that are committed. A byte has `ByteSize` values.

**Writer** has `Encoder` and `Writer`. A call writes several chunks, the sink may refuse any of them, and `?` then leaves
whatever was changed before. So a call is an operator from a state to the *set* of states it may end
in; `Then` is `?`, `Ignore` is `let _ =`. An action takes one of them. `out` is what the sink holds,
`user` which of encoder, writer or stream the caller has. A frame has one dimension, since
height is treated by the same lines as width; a compressed byte is its number within its image.

**StreamWriter** extends it with `ChunkWriter`, `Wrapper` and `StreamWriter`. The compressors are external: given a row, flushed
or finished they hand on any of `Emissions` bytes, through `ChunkWriter::write`, which is taken byte by byte. The buffer may be
of any size: one of less than four bytes has no place for a sequence number (`PrefixTooLong`, the panic of
encoder.rs:1288), one of four none for a byte behind it (`WriteZero`). Finish and
drop unwind as Rust does: `finish_mut`, then the stream's drop, then its fields (a `ZlibEncoder`
finishes itself when dropped, a `fdeflate::Compressor` does not), the `ChunkWriter`, and an owned
`Writer`.

**EncodedHeader** puts the two halves of the crate together: `Read` gives the file to the parsers of `ChunkParsers`, chunk by
chunk as `parse_chunk` picks them, and `HeaderAccepted` says what they make of it as long as no image is begun. Contents
are in range and the image is indexed, which is the colour type for which the parser asks most of the order; of other
images it says nothing (an RGBA image with palette and transparency is written, and refused at stream.rs:1395).

**TextMetadata** has the three kinds of text chunk with everything that a program, `encode` and the parsers do
to them. A string is a sequence of code points below U+0800, so that Latin-1, two-byte UTF-8 and neither occur; a
zlib stream is a header, which no UTF-8 text begins with, and the bytes themselves. `Writer` lets the caller write
any of the texts that two steps may leave (`Prepared`), each a `compress_text`, a `decompress_text_with_limit`, a
change of `compressed` or an `encode` that is parsed again, and reads each back (`TextsRecovered`). `TextType` is
what the three Rust types hold.

**PngFile** is what all this promises of the file, without encoder or stream: the file only grows, IHDR
is first and IEND once and last, whatever takes a sequence number takes the next one, frames lie in the image, the
data of an image comes in order. `StreamWriter`, and with it `Writer`, implements it (`FileIsPng`); a
step of the one may be several chunks of the other.

The operators commented `Fault:` are variations of the definition that follows them, such as a forgotten marker or
a dropped guard. No action uses them; `PROJECT.json` names, for every property of a passing run,
one that violates it.

## Runs

| Run | Question | Instance | States |
|---|---|---|---|
| `window` | Is the window a queue of rows? Do inflater and rows ever touch each other's bytes? Does every row call return? | frames 2x4 and 3x3 greyscale, 5x3 interlaced at 1 bit, with rows that can be transformed and that cannot; look-back 3, growth 4, shift limit 3, tail copy 2; streams of 0 to 15 bytes | 24.3 k |
| `parser_framing` | Is every byte read once, whatever the cuts? Are limits kept? | 15 chunks, calls of 3 and 64 bytes, `raw_bytes` of 20, limit 21, three option sets, `reset` at any time | 966 k |
| `parser_chunks` | Do frames, frame controls and inflater streams belong together? Does the parser implement `DataSequences`? Which of several, late or bad chunks counts? | whole fields at a time; animations with sequence numbers 0 to 4, valid, corrupt and out-of-place frame controls and data; 19 chunks of metadata for an image with a palette and one without, limit 6 | 1.02 M |
| `reader` | Does the `Reader` stay in step with the parser under any sequence of calls? | RGB and indexed, the palette there, late or missing; no, one or two announced frames; 2 rows; at most 3 frame controls | 4.5 M |
| `adam7` | Do both expansions recover the image? Is every row transformed as announced? | 300 ragged frames: widths and heights 1 to 9, 1, 2, 4, 8 and 16 bits, alone and in a wider image; one 3x3 frame for every kind of picture, palette, tRNS (as long as a colour, and longer) and choice of transformations | 38.4 k |
| `writer` | Is the file well-formed whatever is called, refused or dropped? Does the parser take the header, are texts recovered? | 2x2 pixels, no or two announced frames, separate default image or not, validation or not, both kinds of compressor, buffers of 3 and 6 bytes, a text behind the header | 386 k |
| `scanlines` | Do rows survive filter and unfilter, whatever filter, build and path? Is the cheapest filter chosen? | pixels of 1 to 4 bytes, rows of 2 to 16 bytes, two frames, a stream of a whole frame; bytes of 8 values, strides of 2 pixels, zero runs of 2 | 323 k |

Five further runs show that the code does something other than its documentation says:

| Run | What it shows |
|---|---|
| `parser_reset` | `reset()` leaves `ready_for_idat_chunks` FALSE, so that the next image's IDAT is refused as a second one (stream.rs:619) |
| `reader_finish` | `next_frame_info` after `finish` computes 0 - 1 (mod.rs:344) |
| `reader_late_trns` | a tRNS chunk behind the image data changes the output size of later frames while the cached `transform_fn` stays (mod.rs:614) |
| `writer_stream` | the second frame a stream writes is IDAT again, since the first is never counted, and its data has sequence numbers in front (encoder.rs:1403) |
| `scanlines_stream` | a stream filters the whole of its buffers, which belong to the image and are not cleared: the first row of a second frame, or the rows of a narrower one, cannot be recovered (encoder.rs:1723) |

**What some of the properties say, and do not.**

- `BytesAccounted` and `RoomForData`: that what the rows took is what the iterator has passed, and that the assertion at
  mod.rs:707 holds, is said of frames whose rows can be transformed. For the others the bytes are accounted for up to what
  was taken, and there is room whenever data is to come.
- `NoPanic` has three exceptions, each a behaviour of the code: `finish` was called (the run `reader_finish`), the
  transformation is stale (`reader_late_trns`), or a row was lost for want of a palette (see below).
- `FrameControlGoverns` is about steps: a run of fdAT chunks begins only if the last chunk that was numbered is a frame
  control behind the image data, so that nothing was read under it before; the one in force when IDAT begins covers the
  image; while data is read none is replaced. What follows from a frame control that was refused half-way is thereby part of it.
- `WithinLimits` counts the growth of `raw_bytes`, the profile, and of each text that is kept the length of its chunk, which
  is what `parse_text` and the other two reserve. The strings of a Latin-1 text can take up to twice that (`tEXt` and `zTXt`
  are decoded to UTF-8 behind the reservation at stream.rs:1834): of this memory the property says nothing.
- `ValidatedCount` is about files that `Writer` wrote without a stream and `Writer::finish` ended. The documentation of
  `validate_sequence` (encoder.rs:443) refers to `StreamWriter::finish` as well; that one does not validate while a
  compressor is open (1622), which is the usual case, so that the property does not hold there.
- `PanicsOnlyAfterFailure` excepts a chunk buffer of less than four bytes, and nothing else.

**Why the bounds are enough.** In `window` the look-back, the growth and the shift limit are all shorter
than a frame and differ from multiples of a row, so that shifting (with both copy ranges), growing,
truncating, a full window, and `available` short of `filled` by less than, exactly and more than
a row all occur; the streams are empty, too short, exact and too long for their frames. In
`parser_framing` a call of 3 bytes cuts every four-byte field, one of 64 none; the longest chunk needs
`raw_bytes` to grow, beyond the limit or up to it. In `parser_chunks` sequence numbers allow an image and two more
frames, or an image with a frame control and one more frame, with every wrong order of them; the limit of 6
lets one colour profile in and refuses the second. The
reader's two rows tell the first row, the last row and the middle of a frame apart; three frame
controls allow a skipped frame between two others. In `adam7` widths and heights leave every pass empty once,
cut it in the middle of a block and give it several blocks; palettes are longer than, as long as and shorter than
their tRNS chunks, and end within an entry; rows of three pixels have one that ends the row. In `writer` a buffer
of 3 bytes has no place for a sequence number, one of 6 bytes holds a prefix and two bytes, so that the bytes of a row fill it in the middle, exactly or not at all; two
announced frames tell the first, the last and one too many apart; with chunks of 5 bytes a compressed image of 6
takes two IDAT chunks and six fdAT chunks, one of 1 takes one. Keywords are at most two bytes, so that one of three is too
long; texts are ASCII, Latin-1, neither, or hold a null. In `scanlines` bytes of 8 values wrap, and tie Paeth's
distances in every way; `Stride` leaves rows with whole strides, with a part of one, and with none.

`MaxFctl` (frame controls of the input) and the sequence numbers in the chunks bound the decoder's counters.
The writer has five bounds: another image is begun only while there are fewer than `MaxImages` of them
(`MaxStreamed` by a stream, `MaxRetried` once a chunk was refused) and at most `MaxChunks` chunks, and a
compressor hands on at most `MaxEmitted` bytes of an image before it is finished. Three images are a
default image and two frames, or two frames and one too many; two streamed images show every
change from one frame to the next. A text is written right behind IHDR only, and no image follows it in
that run: texts and images have no state in common but the sink.
`Inputs`, `Frames`, `StreamSizes`, `Jobs`, `Infos`, `Texts`, `TextLimits`, `NumFrames`, `CompressedSizes`,
`Emissions` and `DataLens` are the inputs. Deadlock is not checked because decoding
really stops: after IEND, after a fatal error, after a panic; the iterator and images end, and a writer is gone
when finished or dropped.

**Fairness.** Two properties need it. `RowCallReturns`: weak fairness of `ReaderGoesOn`, one disjunction. Code that has
been entered goes on running (it unfilters a row or returns an error), and since a data sequence is finite,
a caller that polls gets to the chunk behind it (`Finish`). `Decompress` and an input that
runs dry for now need none. `ContentsEnd`: as long as
there is input, `update` is called with it (weak fairness of `ReadChunkData` and `GrowRawBytes`).
Fairness is of single steps inside one sequential program, never of the order of calls.

## Proofs

Eight modules hold theorems; each extends the module it is about and has the same shape: an inductive invariant
as a conjunction of named parts, one lemma per operation of the code that says what the operation keeps, one step
per action, and the properties as corollaries. `Transform_proofs` and `Writer_proofs` also extend the proofs about what feeds them.
Each invariant was checked by TLC before it was proved.
The theorems hold for every value of the constants that satisfies the `ASSUME`s of the module, which TLC
evaluates on the instances of the runs.

**The window** (`UnfilteringBuffer_proofs`): `TypeCorrect`, `MarkersStayOrdered`, `NoByteLost`, `LookbackIsKept`,
`StreamIsIntact`, `PrevRowIsRight`, `DataHasRoom`, all corollaries of `Inductive`, and the refinement
`WindowImplementsQueue`, for every frame, stream size and window parameter, and whether rows can be transformed
or not (`NoByteLost` and `DataHasRoom` say of frames without their palette only what their properties do).
`SizesAssumption`: sizes are natural numbers, growth and shift limit positive. `FramesAssumption`: rows are
at least two bytes (filter byte and a pixel), lie one behind the other within `frame_bytes`, and a row that
does not open a pass is as long as the one before. None of the properties is inductive alone. That
bytes are intact after a shift needs the markers' order; the order after a refill needs to know that the inflater
cannot give more than `remaining_bytes`, hence the byte accounting; that a row may be unfiltered needs
`available` to stay behind the look-back, or the stream to be complete; that there is room needs both the
accounting and the fact that `available` equals `filled` once nothing is missing. `IInv` is the conjunction of the
invariants with these facts (`RawsFrom`, `CookedUpTo`, `AboveCurrentRow`). The lemmas of `ShiftBack` cover both
copy ranges; those of `Grow` need only that `resize` and the truncation never cut below `filled`. The
refinement follows by simulation: a refill is an `Arrive` of the queue or a stutter, unfiltering a row is a
`Deliver`, and what only moves bytes within the vector changes nothing the queue can see.
`TruncatedOnlyBeforeLastPixel` (the property `LenientAfterLastPixel`) holds for the layouts whose `frame_bytes` is
the sum of their rows; for the others it fails (see below). The verdict is given only when the inflater has less for the
window than there is room, and then room is at most `remaining_bytes` (`Shortfall`).

**The parser** (`StreamingDecoder_proofs`), for any chunks, lengths of calls, options and limits
(`ConstantsAssumption`). Under `SpecWithReset`, where `reset` may come at any time: `ParserTypes`,
`ParserKeepsItsPlace`, `ParserReadsWhole`, `ParserWithinLimits`, from `PlaceInv`: types, what is in `raw_bytes`
was read from the input, `pos` is what was gathered, the field under way is the one at that place, and
`limits` and the metadata held add up. Under `Spec`: `FrameControlAlwaysGoverns`, `EveryRunIsFresh`,
`IgnoredChunksLeaveNoTrace`, `FirstChunkAlwaysCounts`, `SettledWhenDataBegins` and the refinement `ParserAnnouncesData`,
from `RunInv`: which chunks may have come for the readiness flags to be as they are, and what is known of
the run of data under way. The chunk parsers are taken through one lemma each, which says what a parser may do to
`Info` and limits (`ParsesTo`); the proofs about steps use only those. `Spec` is without `reset`, behind which
the flags are wrong: that is what the run `parser_reset` shows.

**The pull API** (`Reader_proofs`), for any number of announced frames, rows and frame controls: `TypeCorrect`,
`ReaderInStep`, `FramesAreCounted`, `ReaderDoesNotPanic`, `FramesAreComplete`, `InfoIsOfFrame`. The
invariant says for every phase of every method what the parser has announced, how many frames are left, whether the
rows left in the subframe are those of the sequence in force, and whose frame control `info` holds.
`NoPanic` excepts the two panics that are findings and the one behind rows that were lost; the
invariant says of `window` and `missing` that together they are the rows left of the frame, unless its rows cannot be transformed.

**Filters** (`Scanlines_proofs`), for every range of bytes of more than four values, every width, height,
pixel size, filter, adaptive strategy and build: `PaethPredictorsAgree`, `TypeCorrect` and `RowsAreRecovered`. The last
holds under `WholeRows`: the rows of a stream are as wide as the image, and the stream writes one frame; the finding
of `scanlines_stream` is what happens otherwise. The invariant ties the encoder's buffers, the wire and the decoder's
window to the rows that were given, byte by byte, and for the strides says which predictions
were taken ahead of which pixels. `CheapestIsChosen` needs no `WholeRows`: the row that an adaptive method sends is
one of the least cost, whether all filters were tried or the trials ended at a cost of nothing. `ChoiceInv` says
of every trial so far that its cost is the estimate of what it holds and at least the minimum. That estimates can
be compared is itself to be proved: they are folds over a row, shown to be numbers by induction on the set of
its places, and `entropy`'s powers of two by counting subsets.

**Transformations** (`Transform_proofs`), for every palette, tRNS chunk and size of the table:
`PaletteIsMemoized`. `TableInv` says for each of the three loops which entries are final, which have
the red of the next entry for their alpha, and that the order of the loops repairs the one without
undoing the other. And for every picture, every set of transformations and frames of every size: `RowsAreTransformed`
and `RowsAlwaysFit`. `RowInv` says, for each loop over a row, which pixels are as announced, which bytes the next
turn overwrites, and that what is still to be read is as it was; `RowIsNext` ties the row under way to the
iterator, so that `expand_pass` takes no more than was written.

**Interlacing** (`Adam7_proofs`), for frames of every width, height, depth and stride: `DeliveredPixelsStay`,
`FirstPassCovers`, `ImageIsRecovered`. The geometry is proved from the tables of the seven passes: each pixel is
on the grid of exactly one pass, which is the one in the comment of `Adam7Iterator`; the iterator's counts are
the number of grid points that lie in the image; the block that a splat fills has only pixels of its own pass in the
corner and of later passes elsewhere. Lemmas about units say that two pixels, and two lines, have no unit in common
whatever the stride. The invariant: a delivered pixel is held by both images and one not yet delivered is zero in the
sparse one (`PixelsKept`), whatever the first pass has gone over is written (`Covered`), and what is beside the
frame is untouched (`BesideKept`).

**The encoder** (`StreamWriter_proofs`), for any image, announced frames, sizes of compressed images and of chunks, whatever a compressor hands on and when, any sequence of calls, and a sink that refuses any
chunk: the refinement `StreamWriterWritesPng`, and `NoPanicWithoutFailure` and `NoByteLost`. These theorems, and those of
`Writer_proofs`, have the hypothesis `BuffersHoldData`: chunk buffers are longer than four bytes. The model has shorter
ones, and the run `writer` checks the properties with one of three bytes; without the hypothesis the invariant's claim that
a buffer has room for a byte is false. `PngFile` speaks of every
single chunk, a call may write many: so the invariant is a predicate of a record of state, as the operators of the model
are operators on such records, and there is a lemma per operator, which says that every state it may leave is again
good and that its file is one that `PngFile` lets grow from the file before (`Advances`). `Sound` holds in the middle of a call
too: the frame control's number is the number of numbered chunks in the sink, plus one if the number is in the prefix of
the chunk buffer; the bytes in the buffer go on where those in the sink end; no chunk belongs to an image that has not
begun. To this `Emitting` adds, for an open compressor, that all it has handed on is in sink or buffer, and that the buffer
has room for another byte (without which `ChunkWriter::write` reports `WriteZero` or its assertion fails), and `Rows`
that rows end where the frame ends and that as long as one is missing there is a compressor for it, which is why
`unreachable!()` is. After a refusal only types, the place of IEND and the frames' sizes are left, which is all that `PngFile`
then asks. The bytes that one row hands on go through the buffer one at a time; that is an induction over their
number, for which the library's theorems about `Nat` cannot be used here (they take an operator as
a parameter): `Least` derives the principle from the library's theorem that the
subsets of a finite set are well-founded.

**The Writer's files** (`Writer_proofs`), for any number of announced frames: `FramesAreWellFormed` and
`ValidatedFilesAreComplete`, both about files without streams. They look at a whole file, so the invariant `CountInv` relates the counters to it: as long as
no stream was used and nothing was refused, the frames left and the two counts are those of the frame controls and images
in the sink (`WriterCounts`, `Counts`), and of the images there only the default image can be without a frame control
(`Shaped`). A refusal in the middle of a call breaks the counts; streams break them by the finding of `writer_stream`.

**Texts** (`Writer_proofs`, from `TextMetadata` alone but for the last lemma): `TextsAreRecovered`, for texts of any length
in strings below U+0800, any limits and any longest keyword. That every text chunk in the sink is one that `encode`
accepted is part of `IInv` (`WrittenTexts`). The rest is about operators. `RoundTrip`, by induction over the length of a text with the
principle of `Least`, says that decoding UTF-8 gives back what was encoded; `SplitJoined` that a field which holds no null is
what the parser finds in front of the first one, which for the translated keyword needs that UTF-8 puts a null only for a null
(`EncodedNulls`). From them there is one lemma per type of chunk (`PlainReads`, `DeflatedReads`, `InternationalReads`): what
`encode` writes is read as the same text with the same fields. `WorkedSame` says this of every single thing a program
can do with a chunk, so that the number of them, two in `Prepared`, is no bound of the argument. Strings with characters of three or four
bytes are not covered, and a zlib stream is taken to inflate to what was compressed.

**The header** (`Writer_proofs`): `HeadersAreAccepted`, for an indexed image, whatever is left out of its header, any calls and a sink that refuses any chunk.
`HeaderInv` says that a file without an image is IHDR and chunks whose places (`Place`, the order of `encode_header`) grow;
whatever is left out of a header, each chunk stands where the parser wants it. That needs a fact about the other side:
once an image is begun there is no way back to a file without one, not through a stream that could not be
opened, refused its data or was dropped; so `image # 0` is part of `IInv` for streams and of `Advances` for steps. The
parser's run over such a file is then given outright: behind any chunk its `Info` has an entry for each type so far
(`Parsed`), which is one lemma per kind of chunk (`HeaderRead`, `MetaRead`, `OrphanRead`, `TextRead`), and
`Induction` over the chunks shows that `Read` computes this. A second text behind a header is beyond the bounds of
`WriteTextChunk`, in the proof as in the run.

**Only model-checked.** Liveness (`RowCallReturns`, `ContentsEnd`), which TLAPS as used here does not reach.

## Also observed

Behaviour seen while modelling that is not the subject of a run:

- An interlaced frame of fewer than 5 pixels in width has passes without pixels, for which
  `frame_bytes` counts a filter byte per line that the stream does not hold. `remaining_bytes` then
  never reaches 0, and a stream without its end marker is an error although every pixel arrived:
  `LenientAfterLastPixel` fails for a 1x1 interlaced frame.
- `next_frame` documents its output as a packed matrix of the frame's width (mod.rs:412), but gives interlaced frames
  the stride of the image (mod.rs:452).
- A row that cannot be transformed is lost: of an indexed image without PLTE, under `EXPAND`, each `next_row` or
  `next_frame` takes a row from the window, returns `PaletteRequired` (mod.rs:615) and leaves the iterator where it was; the call
  behind the last row fails the assertion at mod.rs:707. For an image of one row that is the second call.
- Image data is inflated before its chunk's checksum is known; an fdAT chunk with a wrong checksum
  counts as ancillary and is reported as `BadAncillaryChunk`, its data in the frame already.
- When `next_frame_info` has begun to discard a frame and fails, `next_frame` succeeds without a row
  (`FrameComplete` names this exception, `given_up`).
- Bad cICP contents (stream.rs:1551) and a bKGD chunk in front of the palette (1931) are reported by an error that
  `parse_chunk` does not count as benign: decoding ends instead of giving `BadAncillaryChunk`.
- A tRNS chunk longer than one colour is accepted and kept whole for 16-bit images (stream.rs, `parse_trns`); no
  pixel is ever equal to it, so that none is transparent (`TransparencyFits`).
- A PLTE chunk whose length is not a multiple of 3 is accepted; the table of colours then has an incomplete entry
  (`Transform` has palettes of whole entries only).
- `next_frame` called when `next_row` has delivered the last row returns `Ok` without writing to the buffer
  (mod.rs:468).
- `expand_pass` or-s sub-byte pixels into the image, and `next_frame` does not clear it: what the buffer held
  before shows through. `expand_pass_splat` takes the height from the length of the buffer, so that a
  longer buffer has rows repeated below the image.
- Behind a refused chunk a stream may panic: an `unreachable!()` in `write` when `new_frame` failed
  before, `set_fctl` when the last frame of an animation failed behind its fcTL, a slice or a subtraction
  when a row could not be handed on. `PanicsOnlyAfterFailure` shows that nothing else does it.
- `StreamWriter::finish` drops the `ChunkWriter` that comes back from the compressor: an error of the
  last chunk is lost, and the sequence is not validated (encoder.rs:1621-1628).
- Image data whose chunk was refused is written again under new sequence numbers if the caller repeats the
  call; a header that is refused, by the checks or by the sink, is followed by an attempt at IEND when the `Writer` is dropped.
- `write_header` writes the transparency of an indexed image whose `Info` has no palette; the parser
  reports it as `BadAncillaryChunk` and goes on without (`HeaderAccepted` names this exception). `write_image_data` then
  refuses the image, a stream does not.
- Chunk buffers of up to four bytes, which `stream_writer_with_size` accepts, cannot hold the prefix of an fdAT chunk and a
  byte: with less than four `write` panics at encoder.rs:1288, although nothing failed, with four it writes a chunk without data
  and reports `WriteZero`.
- `Info.interlaced`, settable through `with_info`, is written into IHDR (encoder.rs:580), but rows are
  never interlaced.
- A null in a keyword, language tag or translated keyword is accepted by `encode` and read back as the end of that
  field. A compressed iTXt text that is not UTF-8 and whose `compressed` is FALSE is copied to a chunk
  that the parser refuses.
- The encoder does not write `cICP`, `mDCV`, `cLLI`, `sBIT` and `bKGD` of an `Info`.
- `seq_no + 1` and `num_frames + 1` are computed in 32 bits and overflow at the maximum; `entropy`'s integer
  logarithm (filter/mod.rs:552) overflows for rows of 2^27 bytes and more.

## Not modelled

- *Gamma and colour conversions* (`common.rs`, `srgb.rs`): arithmetic on constants, without state.
- *Checksum values and compression.* A chunk is valid or not and its checksum matches or not; what is hashed is
  counted. `fdeflate`, `flate2` and `crc32fast` are external.
- *Decoder*: setters in mid-stream (`set_ignore_crc` and so on; options are fixed at the start) and
  `read_header_info`. In `Reader` limits are not shared with the parser.
- *Encoder*: setters that only change what a chunk holds (palette, delays, blend and dispose operations),
  a frame control handed in by `with_info`, which takes any sequence number and any size (encoder.rs:173-188; `WriterInit`
  begins with the one `set_animated` makes), the encoding of colour profiles;
  `write` and `write_image_data` with arguments they refuse at once.
- *Benchmarks, tests, examples, fuzz targets.*

## Plan

The modules above were written in the order in which they carry the others: window and row layout, parser and its
protocol, pull API, interlacing, writer and streams, then the abstract queue and file, transformations,
filters, texts, and the proofs. What is left, in this order:

1. The decoder's setters between calls, `read_header_info`, and limits shared by parser and `Reader`.
2. The encoder's setters, for the agreement of what `set_fctl` merges with what the stream's copy holds.
