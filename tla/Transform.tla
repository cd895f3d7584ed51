------------------------------- MODULE Transform -------------------------------
(* What becomes of an unfiltered row before the caller gets it:                 *)
(* decoder/transform.rs with transform/palette.rs, and what Reader says of the  *)
(* result, output_color_type and unguarded_output_line_size.                    *)
(*                                                                              *)
(* The function that transforms rows is made when the first row is there; for   *)
(* an image with a palette that includes a table of RGBA entries, which is      *)
(* filled four bytes at a time from entries of three, so that the alpha of an   *)
(* entry is overwritten by the red of the next one and repaired afterwards.     *)
(* Rows of RGB are written in the same way, four bytes on the place of three.   *)
(* One step is one turn of a loop.  Bytes and rows are counted from 1, pixels   *)
(* and the entries of the palette from 0.                                       *)
EXTENDS FrameLayout

CONSTANT PaletteSize   \* entries of the table: 256

\* There is an entry for every byte.
ASSUME PaletteSizeAssumption == PaletteSize \in Nat /\ PaletteSize >= 256

VARIABLES
  picture,        \* of Info and of the Decoder: see PictureType
  transform_fn,   \* the name of the function, "none" before it is made
  rgba_palette,   \* its table
  row,            \* the row that is transformed
  width,          \* its pixels
  output,         \* the caller's buffer, as far as the row reaches
  step            \* how far all this is

transformVars == <<picture, transform_fn, rgba_palette, row, width, output, step>>

ByteValue == 0 .. 255

\* What a buffer holds that was not written.
Unset == -1

ColorTypes == {"Grayscale", "Rgb", "Indexed", "GrayscaleAlpha", "Rgba"}

\* palette and trns are as the parser has stored them, << >> for None: a PLTE chunk has 3 to
\* 768 bytes, a tRNS chunk 1 to 256, and of samples that are smaller than 16 bits it keeps
\* one byte each.  transform is a set of Transformations.
PictureType ==
  [color_type : ColorTypes, bit_depth : {1, 2, 4, 8, 16},
   palette : Seq(ByteValue), trns : Seq(ByteValue),
   transform : SUBSET {"STRIP_16", "EXPAND", "ALPHA"}]

At(phase, k) == [phase |-> phase, k |-> k]

--------------------------------------------------------------------------------
(* Colours.                                                                     *)

samples(color_type) ==
  CASE color_type \in {"Grayscale", "Indexed"} -> 1
    [] color_type = "GrayscaleAlpha" -> 2
    [] color_type = "Rgb" -> 3
    [] color_type = "Rgba" -> 4

\* ColorType::is_combination_invalid
is_combination_invalid(color_type, bit_depth) ==
  \/ bit_depth < 8 /\ color_type \in {"Rgb", "GrayscaleAlpha", "Rgba"}
  \/ bit_depth = 16 /\ color_type = "Indexed"

is_some(option) == option # << >>

\* parse_trns: one color, at 16 bits with whatever is behind it in the chunk.
TransparencyFits(kind) ==
  kind.color_type \in {"Grayscale", "Rgb"} /\ is_some(kind.trns) =>
    IF kind.bit_depth = 16 THEN Len(kind.trns) >= 2 * samples(kind.color_type)
                           ELSE Len(kind.trns) = samples(kind.color_type)

color_type == picture.color_type
bit_depth  == picture.bit_depth
channels   == samples(color_type)
trns       == is_some(picture.trns) \/ "ALPHA" \in picture.transform
expand     == "EXPAND" \in picture.transform \/ "ALPHA" \in picture.transform
strip16    == bit_depth = 16 /\ "STRIP_16" \in picture.transform

\* output_color_type
OutputDepth ==
  IF strip16 \/ (bit_depth < 8 /\ expand) THEN 8 ELSE bit_depth

OutputColor ==
  IF ~ expand THEN color_type
  ELSE CASE color_type = "Grayscale" /\ trns -> "GrayscaleAlpha"
         [] color_type \in {"Rgb", "Indexed"} /\ trns -> "Rgba"
         [] color_type = "Indexed" /\ ~ trns -> "Rgb"
         [] OTHER -> color_type

OutputBits == samples(OutputColor) * OutputDepth

\* Fault: bits that do not fill a byte are left out.
OutputLineSizeFloor(pixels) == (pixels * OutputBits) \div 8

\* unguarded_output_line_size
OutputLineSize(pixels) == raw_row_length(OutputBits, pixels) - 1

--------------------------------------------------------------------------------
(* create_transform_fn                                                          *)

\* The function it makes, or the error it returns.
TransformFor ==
  CASE color_type = "Indexed" /\ expand ->
         IF ~ is_some(picture.palette) THEN "PaletteRequired"
         ELSE IF trns THEN "expand_paletted_into_rgba8"
         ELSE IF bit_depth = 8 THEN "expand_8bit_into_rgb8" ELSE "expand_into_rgb8"
    [] color_type \in {"Grayscale", "GrayscaleAlpha"} /\ bit_depth < 8 /\ expand ->
         IF trns THEN "expand_gray_u8_with_trns" ELSE "expand_gray_u8"
    [] color_type \in {"Grayscale", "Rgb"} /\ bit_depth >= 8 /\ expand /\ trns ->
         IF bit_depth = 8 THEN "expand_trns_line"
         ELSE IF strip16 THEN "expand_trns_and_strip_line16" ELSE "expand_trns_line16"
    [] color_type # "Indexed" /\ strip16 /\ ~ (color_type \in {"Grayscale", "Rgb"} /\ expand /\ trns) ->
         "transform_row_strip16"
    [] OTHER -> "copy_row"

Paletted == {"expand_paletted_into_rgba8", "expand_8bit_into_rgb8", "expand_into_rgb8"}

\* The first row is there.
CreateTransformFn ==
  /\ step.phase = "create"
  /\ IF TransformFor = "PaletteRequired"
     THEN step' = At("refused", 0) /\ UNCHANGED transform_fn
     ELSE /\ transform_fn' = TransformFor
          /\ step' = At(IF TransformFor \in Paletted THEN "colors" ELSE "row", 0)
  /\ UNCHANGED <<picture, rgba_palette, row, width, output>>

\* black, opaque entries
PaletteStart == [i \in 0 .. PaletteSize - 1 |-> <<0, 0, 0, 255>>]

Entries == Len(picture.palette) \div 3

\* A tRNS chunk with more entries than the palette counts as empty.
Alphas == IF Len(picture.trns) <= Entries THEN picture.trns ELSE << >>

\* palette_iter: the bytes that are not copied yet
Left == Len(picture.palette) - 3 * step.k
PaletteByte(i) == picture.palette[3 * step.k + i]

\* Entries of three bytes while there are four; the last one otherwise, if it is whole.
CopyColors ==
  /\ step.phase = "colors"
  /\ IF Left >= 4
     THEN /\ rgba_palette' = [rgba_palette EXCEPT ![step.k] =
                               <<PaletteByte(1), PaletteByte(2), PaletteByte(3), PaletteByte(4)>>]
          /\ step' = At("colors", step.k + 1)
     ELSE IF Left = 3
     THEN /\ rgba_palette' = [rgba_palette EXCEPT ![step.k] =
                               <<PaletteByte(1), PaletteByte(2), PaletteByte(3), @[4]>>]
          /\ step' = At("alphas", 0)
     ELSE step' = At("panicked", 0) /\ UNCHANGED rgba_palette
  /\ UNCHANGED <<picture, transform_fn, row, width, output>>

WithAlpha(entry, alpha) == <<entry[1], entry[2], entry[3], alpha>>

CopyAlphas ==
  /\ step.phase = "alphas"
  /\ IF step.k < Len(Alphas)
     THEN /\ rgba_palette' = [rgba_palette EXCEPT ![step.k] = WithAlpha(@, Alphas[step.k + 1])]
          /\ step' = At("alphas", step.k + 1)
     ELSE step' = At("opaque", step.k) /\ UNCHANGED rgba_palette
  /\ UNCHANGED <<picture, transform_fn, row, width, output>>

\* Fault: the alpha that the last entries were given by their successors stays.
LeaveAlphas ==
  /\ step.phase = "opaque"
  /\ step' = At("row", 0)
  /\ UNCHANGED <<picture, transform_fn, rgba_palette, row, width, output>>

UnclobberAlphas ==
  /\ step.phase = "opaque"
  /\ IF step.k < Entries
     THEN /\ rgba_palette' = [rgba_palette EXCEPT ![step.k] = WithAlpha(@, 255)]
          /\ step' = At("opaque", step.k + 1)
     ELSE step' = At("row", 0) /\ UNCHANGED rgba_palette
  /\ UNCHANGED <<picture, transform_fn, row, width, output>>

--------------------------------------------------------------------------------
(* One row.                                                                     *)

\* The caller asks for a row, and unfilter_curr_row has left this one.
GiveRow(pixels, bytes) ==
  /\ step.phase = "idle"
  /\ row' = SubSeq(bytes, 1, raw_row_length(channels * bit_depth, pixels) - 1)
  /\ width' = pixels
  /\ output' = [i \in 1 .. OutputLineSize(pixels) |-> Unset]
  /\ step' = At(IF transform_fn = "none" THEN "create" ELSE "row", 0)
  /\ UNCHANGED <<picture, transform_fn, rgba_palette>>

\* The output when bytes are written behind the first `from` ones of it.
Overwritten(from, bytes) ==
  [i \in DOMAIN output |-> IF from < i /\ i <= from + Len(bytes) THEN bytes[i - from] ELSE output[i]]

Turn(from, bytes) ==
  /\ output' = Overwritten(from, bytes)
  /\ step' = At("row", step.k + 1)
  /\ UNCHANGED <<picture, transform_fn, rgba_palette, row, width>>

Stop(phase) ==
  /\ step' = At(phase, 0)
  /\ UNCHANGED <<picture, transform_fn, rgba_palette, row, width, output>>

Transforming(names) == step.phase = "row" /\ transform_fn \in names

CopyRow ==
  /\ Transforming({"copy_row"})
  /\ IF step.k > 0 THEN Stop("done")
     ELSE IF Len(row) = Len(output) THEN Turn(0, row) ELSE Stop("panicked")

TransformRowStrip16 ==
  /\ Transforming({"transform_row_strip16"})
  /\ IF step.k = Len(row) \div 2 THEN Stop("done")
     ELSE IF step.k < Len(output) THEN Turn(step.k, <<row[2 * step.k + 1]>>) ELSE Stop("panicked")

\* the loops of expand_trns_line, expand_trns_line16 and expand_trns_and_strip_line16
InChunk  == channels * (bit_depth \div 8)
OutChunk == CASE transform_fn = "expand_trns_line" -> channels + 1
              [] transform_fn = "expand_trns_line16" -> channels * 2 + 2
              [] transform_fn = "expand_trns_and_strip_line16" -> channels + 1

Chunk == SubSeq(row, step.k * InChunk + 1, step.k * InChunk + InChunk)
AlphaByte == IF Chunk = picture.trns THEN 0 ELSE 255
HighBytes(chunk) == [i \in 1 .. channels |-> chunk[2 * i - 1]]

ExpandedChunk ==
  CASE transform_fn = "expand_trns_line" -> Chunk \o <<AlphaByte>>
    [] transform_fn = "expand_trns_line16" -> Chunk \o <<AlphaByte, AlphaByte>>
    [] transform_fn = "expand_trns_and_strip_line16" -> HighBytes(Chunk) \o <<AlphaByte>>

ExpandTrns ==
  /\ Transforming({"expand_trns_line", "expand_trns_line16", "expand_trns_and_strip_line16"})
  /\ IF (step.k + 1) * InChunk <= Len(row) /\ (step.k + 1) * OutChunk <= Len(output)
     THEN Turn(step.k * OutChunk, ExpandedChunk) ELSE Stop("done")

\* unpack_bits: what it is given for channels, its assertion, and one pixel of its input
OutChannels == CASE transform_fn = "expand_gray_u8" -> 1
                 [] transform_fn = "expand_gray_u8_with_trns" -> 2
                 [] transform_fn = "expand_into_rgb8" -> 3
                 [] transform_fn = "expand_paletted_into_rgba8" -> 4

CanUnpack == (8 \div bit_depth) * OutChannels * Len(row) >= Len(output)

\* Fault: the pixels of a byte are taken from its low end.
PixelFromLowEnd == (row[(step.k * bit_depth) \div 8 + 1] \div 2^((step.k * bit_depth) % 8)) % 2^bit_depth

Pixel ==
  LET shift == 8 - bit_depth - ((step.k * bit_depth) % 8)
  IN  (row[(step.k * bit_depth) \div 8 + 1] \div 2^shift) % 2^bit_depth

scaling_factor == 255 \div (2^bit_depth - 1)

UnpackedPixel ==
  CASE transform_fn = "expand_gray_u8" -> <<Pixel * scaling_factor>>
    [] transform_fn = "expand_gray_u8_with_trns" ->
         <<Pixel * scaling_factor,
           IF is_some(picture.trns) /\ Pixel = picture.trns[1] THEN 0 ELSE 255>>
    [] transform_fn = "expand_into_rgb8" -> SubSeq(rgba_palette[Pixel], 1, 3)
    [] transform_fn = "expand_paletted_into_rgba8" -> rgba_palette[Pixel]

UnpackBits ==
  /\ Transforming({"expand_gray_u8", "expand_gray_u8_with_trns", "expand_into_rgb8",
                   "expand_paletted_into_rgba8"})
  /\ IF ~ CanUnpack THEN Stop("panicked")
     ELSE IF (step.k + 1) * OutChannels <= Len(output)
     THEN Turn(step.k * OutChannels, UnpackedPixel) ELSE Stop("done")

\* Fault: four bytes are written wherever the row ends.
FourBytes == rgba_palette[row[step.k + 1]]

\* expand_8bit_into_rgb8: four bytes while there is room for them
ThreeOrFourBytes ==
  IF Len(output) - 3 * step.k >= 4 THEN rgba_palette[row[step.k + 1]]
  ELSE SubSeq(rgba_palette[row[step.k + 1]], 1, 3)

Expand8Bit ==
  /\ Transforming({"expand_8bit_into_rgb8"})
  /\ IF 3 * step.k >= Len(output) THEN Stop("done")
     ELSE IF step.k < Len(row) /\ 3 * step.k + Len(ThreeOrFourBytes) <= Len(output)
     THEN Turn(3 * step.k, ThreeOrFourBytes) ELSE Stop("panicked")

\* The caller has its row.
TakeRow ==
  /\ step.phase = "done"
  /\ Stop("idle")

--------------------------------------------------------------------------------
TransformStart ==
  /\ transform_fn = "none"
  /\ rgba_palette = PaletteStart
  /\ row = << >> /\ width = 0 /\ output = << >>
  /\ step = At("idle", 0)

\* What a row goes through between GiveRow and TakeRow.
TransformStep ==
  \/ CreateTransformFn \/ CopyColors \/ CopyAlphas \/ UnclobberAlphas
  \/ CopyRow \/ TransformRowStrip16 \/ ExpandTrns \/ UnpackBits \/ Expand8Bit

--------------------------------------------------------------------------------
(* The reference: pixels, one by one, without tables.                           *)

\* the n-th sample of a row
Sample(bytes, depth, n) ==
  IF depth = 16 THEN 256 * bytes[2 * n + 1] + bytes[2 * n + 2]
  ELSE (bytes[(n * depth) \div 8 + 1] \div 2^(8 - depth - ((n * depth) % 8))) % 2^depth

InSample(x, s) == Sample(row, bit_depth, x * channels + s)

\* the entry of the palette, black behind its end; opaque where tRNS gives no alpha
PaletteColor(i) == [c \in 1 .. 3 |-> IF i < Entries THEN picture.palette[3 * i + c] ELSE 0]
PaletteAlpha(i) == IF i < Len(Alphas) THEN Alphas[i + 1] ELSE 255

\* the s-th sample of tRNS as one of the image
TrnsSample(s) == IF bit_depth = 16 THEN Sample(picture.trns, 16, s) ELSE picture.trns[s + 1]
\* a chunk that is too long has the color of no pixel
IsTransparent(x) ==
  /\ Len(picture.trns) = channels * (IF bit_depth = 16 THEN 2 ELSE 1)
  /\ \A s \in 0 .. channels - 1 : InSample(x, s) = TrnsSample(s)

\* a sample with the precision of the output
Rescaled(value) ==
  CASE bit_depth = OutputDepth -> value
    [] bit_depth = 16 /\ OutputDepth = 8 -> value \div 256
    [] bit_depth < OutputDepth -> (value * 255) \div (2^bit_depth - 1)

ExpectedSample(x, s) ==
  IF color_type = "Indexed" /\ expand
  THEN IF s < 3 THEN PaletteColor(InSample(x, 0))[s + 1] ELSE PaletteAlpha(InSample(x, 0))
  ELSE IF s < channels THEN Rescaled(InSample(x, s))
  ELSE IF IsTransparent(x) THEN 0 ELSE 2^OutputDepth - 1

Transformed == step.phase \in {"done", "idle"} /\ width > 0

\* Every row comes out as the pixels that output_color_type announces: whichever function was
\* made for the image, whatever it packs into a byte, looks up or overwrites.
RowTransformed ==
  Transformed =>
    \A x \in 0 .. width - 1, s \in 0 .. samples(OutputColor) - 1 :
      Sample(output, OutputDepth, x * samples(OutputColor) + s) = ExpectedSample(x, s)

\* The table has the colours of the palette and the alphas of the tRNS chunk, for all that one
\* is written over the other (create_rgba_palette).
PaletteMemoized ==
  step.phase \in {"row", "done", "idle"} /\ transform_fn \in Paletted =>
    \A i \in 0 .. PaletteSize - 1 :
      /\ \A c \in 1 .. 3 : rgba_palette[i][c] = PaletteColor(i)[c]
      /\ rgba_palette[i][4] = PaletteAlpha(i)

\* A panic has this reason and no other.
LengthsFit == step.phase = "panicked" => (Len(picture.palette) % 3) # 0
================================================================================
