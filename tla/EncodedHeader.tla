---------------------------- MODULE EncodedHeader ----------------------------
(* The two halves of the crate put together: what the encoder has written before *)
(* the first image, read by the parsers of the decoder.                          *)
EXTENDS StreamWriter

Decoder == INSTANCE ChunkParsers

\* A chunk of the header with contents that are in range, within limits that it does not exceed.
AsRead(chunk) ==
  [type |-> chunk.type, length |-> 256, valid |-> TRUE, value |-> 1, color |-> "Indexed"]
Limit == 1000

\* parse_chunk, for the types of a header.  The image is Indexed, which asks most of the order.
ReadChunk(chunk, info) ==
  LET c == AsRead(chunk)
      have_iccp == info.meta["iCCP"] # Decoder!Absent
  IN  IF c.type = "IHDR" THEN Decoder!parse_ihdr(c, info, Limit)
      ELSE IF info = Decoder!NoInfo THEN Decoder!Result("ChunkBeforeIhdr", info, Limit)
      ELSE CASE c.type \in Decoder!TextTypes -> Decoder!parse_text(c, info, Limit)
             [] c.type = "iCCP" -> Decoder!parse_iccp(c, info, Limit, FALSE, have_iccp)
             [] c.type \in Decoder!MetaTypes \ {"iCCP"} ->
                  Decoder!parse_meta(c, info, Limit, FALSE, have_iccp)

\* The types that were not Ok, and Info as it is then.
Start == [refused |-> {}, info |-> Decoder!NoInfo]

Follow(sofar, chunk) ==
  LET read == ReadChunk(chunk, sofar.info) IN
  [refused |-> IF read.verdict = "Ok" THEN sofar.refused ELSE sofar.refused \cup {chunk.type},
   info |-> read.info]

\* What the parser makes of a file that is a header, one chunk after the other.
Read(file) ==
  LET after[n \in 0 .. Len(file)] ==
        IF n = 0 THEN Start ELSE Follow(after[n - 1], file[n])
  IN  after[Len(file)]

\* Before the first image this crate's parser takes what the encoder has written as it was meant,
\* whichever metadata Info has, of an indexed image and with contents that fit it (the encoder
\* checks neither), and whichever calls came between: it refuses no chunk and afterwards
\* has an entry for each, except that transparency without a palette, which the encoder writes,
\* is refused and lost.
HeaderAccepted ==
  user = "writer" /\ image = 0 =>
    LET given == File!Types(out)
        orphan == IF "PLTE" \in given THEN {} ELSE {"tRNS"} \cap given
        read == Read(out)
    IN /\ "IHDR" \in given
       /\ read.refused = orphan
       /\ { t \in Decoder!MetaTypes : read.info.meta[t] # Decoder!Absent } =
            (given \cap Decoder!MetaTypes) \ orphan
       /\ read.info.texts > 0 <=> given \cap Decoder!TextTypes # {}
==============================================================================
