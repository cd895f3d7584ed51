------------------------- MODULE MCStreamingDecoder -------------------------
(* Small instances of StreamingDecoder: what the decoder may be given.      *)
EXTENDS StreamingDecoder

Plain(type, length) ==
  [type |-> type, length |-> length, crc_ok |-> TRUE, valid |-> TRUE, value |-> 1,
   color |-> "none", seq |-> 0, bounds |-> "none"]

Corrupted(c) == [c EXCEPT !.crc_ok = FALSE]
Invalid(c) == [c EXCEPT !.valid = FALSE]
Other(c) == [c EXCEPT !.value = 2]

Ihdr(color) == [Plain("IHDR", 13) EXCEPT !.color = color]
Fctl(seq, bounds) == [Plain("fcTL", 26) EXCEPT !.seq = seq, !.bounds = bounds]
Fdat(seq, length) == [Plain("fdAT", length) EXCEPT !.seq = seq]
Iend == Plain("IEND", 0)

Defaults ==
  [ignore_crc |-> FALSE, ignore_text_chunk |-> FALSE, ignore_iccp_chunk |-> FALSE,
   skip_ancillary_crc_failures |-> TRUE]
DefaultOptions == { Defaults }
FramingOptions ==
  { Defaults, [Defaults EXCEPT !.ignore_crc = TRUE, !.ignore_text_chunk = TRUE],
    [Defaults EXCEPT !.skip_ancillary_crc_failures = FALSE, !.ignore_iccp_chunk = TRUE] }

\* How chunks are read: every way to deal them out, empty and corrupt ones, contents
\* that outgrow raw_bytes.
FramingChunks ==
  { Ihdr("Grayscale"), Iend, Plain("IDAT", 0), Plain("IDAT", 3), Plain("tEXt", 9),
    Plain("eXIf", 40), Invalid(Plain("tEXt", 2)), Plain("iCCP", 5), Corrupted(Plain("gAMA", 4)),
    Plain("UNKN", 1), Plain("unkn", 2), Plain("gAMA", 3), Fctl(0, "whole"), Fdat(1, 6),
    Fdat(1, 3) }

\* Animations: the order of frame controls and data.
AnimationChunks ==
  { Ihdr("Rgb"), Iend, Plain("IDAT", 2), Plain("unkn", 0), Plain("acTL", 8) }
  \cup { Fctl(seq, bounds) : seq \in 0 .. 3, bounds \in {"whole", "inside", "outside"} }
  \cup { Fdat(seq, 5) : seq \in 1 .. 4 }
  \cup { Corrupted(Fctl(1, "inside")), Corrupted(Fdat(2, 5)), Invalid(Fctl(1, "whole")) }

\* Metadata of an image with a palette and of one without: what is kept of chunks that
\* come again, come late or are invalid.
MetadataChunks ==
  { Ihdr("Indexed"), Ihdr("Grayscale"), Plain("IDAT", 1), Plain("PLTE", 3), Plain("tRNS", 2),
    Plain("sBIT", 3), Invalid(Plain("sBIT", 3)), Plain("gAMA", 4), Other(Plain("gAMA", 4)),
    Invalid(Plain("gAMA", 4)), Plain("iCCP", 4), Other(Plain("iCCP", 4)),
    Invalid(Plain("iCCP", 4)), Plain("cICP", 4), Other(Plain("cICP", 4)),
    Invalid(Plain("cICP", 4)), Plain("cLLI", 8), Plain("bKGD", 1), Plain("bKGD", 6) }

\* An image, and what may surround it.
ImageChunks == { Ihdr("Grayscale"), Plain("IDAT", 1), Plain("unkn", 0), Iend }

\* Framing: short reads, also byte by byte, and a limit that lets raw_bytes grow once.
FramingInputs ==
  {[chunks |-> FramingChunks, buf_lens |-> {3, 64}, options |-> FramingOptions, limit |-> 21]}

\* Whole fields at a time: an animation within ample limits, or metadata that a colour
\* profile or two fill the limits with.
ChunkInputs ==
  { [chunks |-> AnimationChunks, buf_lens |-> {64}, options |-> DefaultOptions,
     limit |-> 100],
    [chunks |-> MetadataChunks, buf_lens |-> {64}, options |-> DefaultOptions,
     limit |-> 6] }

ImageInputs ==
  {[chunks |-> ImageChunks, buf_lens |-> {64}, options |-> DefaultOptions, limit |-> 100]}
=============================================================================
