---------------------------- MODULE ChunkParsers ----------------------------
(***************************************************************************)
(* What the parse_* methods of decoder/stream.rs make of a complete chunk, *)
(* and what start_chunk decides from its type and length.  Pure operators. *)
(*                                                                         *)
(* A chunk is a record: its type, its length, whether its checksum matches *)
(* (crc_ok), and of its contents what the parsers tell apart:              *)
(*   valid    the values that are range-checked are in range               *)
(*   value    the identity of the contents; num_frames for acTL, the size  *)
(*            of the profile for iCCP                                      *)
(*   color    the colour type, for IHDR                                    *)
(*   seq      the sequence number, for fcTL and fdAT                       *)
(*   bounds   where the frame lies, for fcTL: on the "whole" image,        *)
(*            "inside" it, or "outside" (which includes empty frames)      *)
(*                                                                         *)
(* Info is a record: the colour type, meta (one entry per Option field     *)
(* that a chunk fills, Absent for None), how many bytes the text chunks    *)
(* that are kept had, and frame_control, the fcTL chunk in force and       *)
(* whether it stood behind the image data.                                 *)
(***************************************************************************)
EXTENDS Integers

Absent == 0
NoInfo == [color |-> "none"]
NoFrameControl == [bounds |-> "none"]

\* chunk::is_critical: the types this model knows whose first letter is a capital.
is_critical(type) == type \in {"IHDR", "PLTE", "IDAT", "IEND", "UNKN"}

TextTypes == {"tEXt", "zTXt", "iTXt"}

\* The Option fields of Info that one chunk fills.
MetaTypes ==
  {"PLTE", "sBIT", "tRNS", "pHYs", "gAMA", "acTL", "cHRM", "sRGB", "cICP",
   "mDCV", "cLLI", "bKGD", "eXIf", "iCCP"}

Lengths(first, last) == [first |-> first, last |-> last]
AnyLength == Lengths(0, 2147483647)

\* The match at the head of start_chunk.
target_length ==
  [IHDR |-> Lengths(13, 13), PLTE |-> Lengths(3, 768), IEND |-> Lengths(0, 0),
   sBIT |-> Lengths(1, 4),   tRNS |-> Lengths(1, 256), pHYs |-> Lengths(9, 9),
   gAMA |-> Lengths(4, 4),   acTL |-> Lengths(8, 8),   fcTL |-> Lengths(26, 26),
   cHRM |-> Lengths(32, 32), sRGB |-> Lengths(1, 1),   cICP |-> Lengths(4, 4),
   mDCV |-> Lengths(24, 24), cLLI |-> Lengths(8, 8),   bKGD |-> Lengths(1, 6),
   eXIf |-> AnyLength, iCCP |-> AnyLength,
   tEXt |-> AnyLength, zTXt |-> AnyLength, iTXt |-> AnyLength]

\* Types start_chunk has no length for: unrecognised ones and those it is told to ignore.
Skipped(type, options) ==
  \/ type \notin DOMAIN target_length
  \/ type = "iCCP" /\ options.ignore_iccp_chunk
  \/ type \in TextTypes /\ options.ignore_text_chunk

InRange(c) ==
  /\ target_length[c.type].first <= c.length
  /\ c.length <= target_length[c.type].last

\* start_chunk: what to do with the chunk, or "Error".
ActionFor(c, options) ==
  IF Skipped(c.type, options)
  THEN IF is_critical(c.type) THEN "Error" ELSE "Skip"
  ELSE IF InRange(c) THEN "Process"
  ELSE IF c.type \in {"IHDR", "PLTE", "IEND", "fcTL"} THEN "Error" ELSE "Reject"

-----------------------------------------------------------------------------
(* The result of a parser: Ok or the kind of DecodingError, with the Info  *)
(* and the limits it leaves.                                               *)
Result(verdict, info, limits) ==
  [verdict |-> verdict, info |-> info, limits |-> limits]

Fill(c, info, limits) == Result("Ok", [info EXCEPT !.meta[c.type] = c.value], limits)

\* Fault: the new colour chunks may be repeated.
DuplicateOldChunk(c, info, have_iccp) ==
  IF c.type = "iCCP" THEN have_iccp
  ELSE c.type \in MetaTypes \ {"cICP", "mDCV", "cLLI"} /\ info.meta[c.type] # Absent

\* DuplicateChunk, AfterPlte and AfterIdat.  Info keeps an acTL only if it counts
\* frames, and an iCCP only if it could be read.
Duplicate(c, info, have_iccp) ==
  IF c.type = "iCCP" THEN have_iccp
  ELSE c.type \in MetaTypes /\ info.meta[c.type] # Absent

AfterPlte(c, info) ==
  c.type \in {"sBIT", "cICP", "mDCV"} /\ info.meta["PLTE"] # Absent

\* Fault: the place of the new colour chunks is not checked.
AfterIdatOldChunk(c, info, have_idat) ==
  /\ have_idat
  /\ c.type \in {"sBIT", "pHYs", "gAMA", "acTL", "cHRM", "sRGB", "bKGD", "iCCP"}

AfterIdat(c, info, have_idat) ==
  /\ have_idat
  /\ \/ c.type \in {"sBIT", "pHYs", "gAMA", "acTL", "cHRM", "sRGB", "cICP", "mDCV",
                    "bKGD", "iCCP"}
     \/ c.type = "tRNS" /\ info.color = "Indexed"

Misplaced(c, info, have_idat, have_iccp) ==
  \/ Duplicate(c, info, have_iccp)
  \/ AfterPlte(c, info)
  \/ AfterIdat(c, info, have_idat)
  \/ c.type = "tRNS" /\ info.color = "Indexed" /\ info.meta["PLTE"] = Absent

SbitLength(color) ==
  CASE color = "Grayscale" -> 1
    [] color \in {"Rgb", "Indexed"} -> 3
    [] color = "GrayscaleAlpha" -> 2
    [] color = "Rgba" -> 4

\* parse_trns; alpha channels leave no room for it.
TrnsFits(c, color) ==
  \/ color = "Indexed"
  \/ color = "Grayscale" /\ c.length >= 2
  \/ color = "Rgb" /\ c.length >= 6

BkgdLength(color) ==
  CASE color = "Indexed" -> 1
    [] color \in {"Grayscale", "GrayscaleAlpha"} -> 2
    [] color \in {"Rgb", "Rgba"} -> 6

\* The contents pass the checks that depend on the image.
Fits(c, color) ==
  CASE c.type = "sBIT" -> c.length = SbitLength(color) /\ c.valid
    [] c.type = "tRNS" -> TrnsFits(c, color)
    [] c.type = "bKGD" -> c.length = BkgdLength(color)
    [] OTHER -> c.valid

\* The parsers that fill one Option field of Info.
parse_meta(c, info, limits, have_idat, have_iccp) ==
  IF Misplaced(c, info, have_idat, have_iccp) THEN Result("Format", info, limits)
  ELSE IF c.type = "bKGD" /\ info.color = "Indexed" /\ info.meta["PLTE"] = Absent
  THEN Result("IoError", info, limits)
  ELSE IF Fits(c, info.color) THEN Fill(c, info, limits)
  ELSE Result(IF c.type = "cICP" THEN "IoError" ELSE "Format", info, limits)

\* parse_iccp swallows whatever goes wrong in parse_iccp_raw.
parse_iccp(c, info, limits, have_idat, have_iccp) ==
  IF Misplaced(c, info, have_idat, have_iccp) THEN Result("Format", info, limits)
  ELSE IF c.valid /\ c.value <= limits THEN Fill(c, info, limits - c.value)
  ELSE Result("Ok", info, limits)

Keep(c, info) == [info EXCEPT !.texts = @ + c.length]

\* Fault: the limits are looked at, and nothing is taken from them.
ParseTextUnreserved(c, info, limits) ==
  IF c.length > limits THEN Result("LimitsExceeded", info, limits)
  ELSE IF c.valid THEN Result("Ok", Keep(c, info), limits)
  ELSE Result("Format", info, limits)

\* parse_text, parse_ztxt and parse_itxt
parse_text(c, info, limits) ==
  IF c.length > limits THEN Result("LimitsExceeded", info, limits)
  ELSE IF c.valid THEN Result("Ok", Keep(c, info), limits - c.length)
  ELSE Result("Format", info, limits - c.length)

parse_ihdr(c, info, limits) ==
  IF info = NoInfo /\ c.valid
  THEN Result("Ok", [color |-> c.color, meta |-> [t \in MetaTypes |-> Absent],
                     texts |-> 0, frame_control |-> NoFrameControl], limits)
  ELSE Result("Format", info, limits)

\* Fault: the image's own frame control may describe a part of it.
FrameFitsEarly(c, have_idat) == c.bounds \in {"whole", "inside"}

\* validate, and validate_default_image for a frame control before the image data.
FrameFits(c, have_idat) ==
  c.bounds = "whole" \/ (c.bounds = "inside" /\ have_idat)

\* The part of parse_fctl after the sequence number.
parse_frame_control(c, info, limits, have_idat) ==
  IF c.valid /\ FrameFits(c, have_idat)
  THEN Result("Ok", [info EXCEPT !.frame_control =
                       [bounds |-> c.bounds, seq |-> c.seq, behind |-> have_idat]], limits)
  ELSE Result("Format", info, limits)
=============================================================================
