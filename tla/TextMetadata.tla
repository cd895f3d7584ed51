----------------------------- MODULE TextMetadata -----------------------------
(* Text chunks, text_metadata.rs: what a program does with one, what encode    *)
(* makes of it and what the parsers of stream.rs make of that.  A string is a  *)
(* sequence of code points below U+0800; chunk data is a sequence of bytes.    *)
(* What may fail returns Ok(value) or Refused; a refused chunk stays as it is. *)
EXTENDS Integers, Sequences

CONSTANT MaxKeyword   \* the longest keyword, in bytes: 79

ASSUME KeywordAssumption == MaxKeyword \in Nat \ {0}

Ok(value) == [ok |-> TRUE, value |-> value]
Refused   == [ok |-> FALSE, value |-> << >>]

\* `?`
AndThen(r, Op(_)) == IF r.ok THEN Op(r.value) ELSE Refused

-------------------------------------------------------------------------------
(* Strings and bytes.                                                          *)

AllBelow(text, limit) == \A i \in DOMAIN text : text[i] < limit

\* A Latin-1 byte is the code point of its character, so that any bytes can be decoded.
encode_iso_8859_1(text) == IF AllBelow(text, 256) THEN Ok(text) ELSE Refused
decode_ascii(bytes)     == IF AllBelow(bytes, 128) THEN Ok(bytes) ELSE Refused

Utf8(char) == IF char < 128 THEN <<char>> ELSE <<192 + (char \div 64), 128 + (char % 64)>>

encode_utf8(text) ==
  LET encoded[n \in 0 .. Len(text)] == IF n = 0 THEN << >> ELSE encoded[n - 1] \o Utf8(text[n])
  IN  encoded[Len(text)]

\* What is known after some bytes, and after one more; lead is the first byte of a character
\* of two, until the second comes.
NothingDecoded == [ok |-> TRUE, lead |-> 0, text |-> << >>]

DecodeByte(s, b) ==
  CASE s.lead # 0 -> [ok |-> s.ok /\ b \in 128 .. 191, lead |-> 0,
                      text |-> Append(s.text, (s.lead - 192) * 64 + b - 128)]
    [] s.lead = 0 /\ b < 128 -> [s EXCEPT !.text = Append(@, b)]
    [] s.lead = 0 /\ b >= 128 -> [s EXCEPT !.ok = @ /\ b \in 194 .. 223, !.lead = b]

Decoded(bytes) ==
  LET after[n \in 0 .. Len(bytes)] ==
        IF n = 0 THEN NothingDecoded ELSE DecodeByte(after[n - 1], bytes[n])
  IN  after[Len(bytes)]

decode_utf8(bytes) ==
  LET end == Decoded(bytes) IN IF end.ok /\ end.lead = 0 THEN Ok(end.text) ELSE Refused

\* A zlib stream: a header, here of two bytes of which the second is in no UTF-8 text, and
\* the bytes compressed.
ZlibHeader == <<120, 255>>
compress(bytes) == ZlibHeader \o bytes
decompress_to_vec(bytes) ==
  IF Len(bytes) >= 2 /\ SubSeq(bytes, 1, 2) = ZlibHeader
  THEN Ok(SubSeq(bytes, 3, Len(bytes))) ELSE Refused

-------------------------------------------------------------------------------
(* TEXtChunk, ZTXtChunk and ITXtChunk: the fields a type lacks stay empty, and *)
(* the text of tEXt is never compressed.                                       *)

Compressed(bytes)    == [compressed |-> TRUE, value |-> bytes]
Uncompressed(string) == [compressed |-> FALSE, value |-> string]

new_text(type, keyword, text) ==
  [type |-> type, keyword |-> keyword, compressed |-> FALSE, language_tag |-> << >>,
   translated_keyword |-> << >>, text |-> Uncompressed(text)]

\* The values of the three types; Optional is OptCompressed.
Character == 0 .. 2047
TextByte == 0 .. 255
Optional  == [compressed : {FALSE}, value : Seq(Character)] \cup [compressed : {TRUE}, value : Seq(TextByte)]

TextType ==
  { c \in [type : {"tEXt", "zTXt", "iTXt"}, keyword : Seq(Character), compressed : BOOLEAN,
           language_tag : Seq(Character), translated_keyword : Seq(Character), text : Optional] :
      /\ c.type # "iTXt" =>
           ~ c.compressed /\ c.language_tag = << >> /\ c.translated_keyword = << >>
      /\ c.type = "tEXt" => ~ c.text.compressed }

\* The text as bytes and back.
TextBytes(type, string) ==
  IF type = "iTXt" THEN Ok(encode_utf8(string)) ELSE encode_iso_8859_1(string)
TextString(type, bytes) == IF type = "iTXt" THEN decode_utf8(bytes) ELSE Ok(bytes)

get_text(c) ==
  IF c.text.compressed
  THEN AndThen(decompress_to_vec(c.text.value), LAMBDA raw : TextString(c.type, raw))
  ELSE Ok(c.text.value)

decompress_text_with_limit(c, limit) ==
  IF ~ c.text.compressed THEN Ok(c)
  ELSE AndThen(decompress_to_vec(c.text.value), LAMBDA raw :
         IF Len(raw) > limit THEN Refused
         ELSE AndThen(TextString(c.type, raw), LAMBDA string :
                Ok([c EXCEPT !.text = Uncompressed(string)])))

\* The text as it stands in a compressed chunk.
\* Fault: what is compressed is compressed once more.
CompressedAgain(c) ==
  AndThen(IF c.text.compressed THEN Ok(c.text.value) ELSE TextBytes(c.type, c.text.value),
          LAMBDA raw : Ok(compress(raw)))

CompressedText(c) ==
  IF c.text.compressed THEN Ok(c.text.value)
  ELSE AndThen(TextBytes(c.type, c.text.value), LAMBDA raw : Ok(compress(raw)))

\* The text as it stands in an iTXt chunk that is not compressed: what was compressed is put
\* there as it comes out of the zlib stream.
PlainText(c) ==
  IF c.text.compressed THEN decompress_to_vec(c.text.value) ELSE TextBytes(c.type, c.text.value)

compress_text(c) ==
  AndThen(CompressedText(c), LAMBDA bytes : Ok([c EXCEPT !.text = Compressed(bytes)]))

-------------------------------------------------------------------------------
(* EncodableTextChunk::encode, up to write_chunk.                              *)

Null == <<0>>

KeywordData(c) ==
  AndThen(encode_iso_8859_1(c.keyword), LAMBDA data :
    IF Len(data) \in 1 .. MaxKeyword THEN Ok(data \o Null) ELSE Refused)

\* keyword, header and text in this order
Assemble(c, header, text) ==
  AndThen(KeywordData(c), LAMBDA keyword : AndThen(text, LAMBDA bytes :
    Ok(keyword \o header \o bytes)))

\* compression flag and method, language tag and translated keyword
InternationalHeader(c) ==
  <<IF c.compressed THEN 1 ELSE 0, 0>>
  \o c.language_tag \o Null \o encode_utf8(c.translated_keyword) \o Null

encode(c) ==
  CASE c.type = "tEXt" -> Assemble(c, << >>, TextBytes(c.type, c.text.value))
    [] c.type = "zTXt" -> Assemble(c, <<0>>, CompressedText(c))
    [] c.type = "iTXt" ->
         IF AllBelow(c.language_tag, 128)
         THEN Assemble(c, InternationalHeader(c),
                       IF c.compressed THEN CompressedText(c) ELSE PlainText(c))
         ELSE Refused

-------------------------------------------------------------------------------
(* parse_text, parse_ztxt and parse_itxt with the decode of each type, behind  *)
(* the check of the limits.                                                    *)

\* The bytes in front of the first null and those behind it.
SplitAtNull(data) ==
  LET nulls == { i \in DOMAIN data : data[i] = 0 }
      null  == CHOOSE i \in nulls : \A j \in nulls : i <= j
  IN  IF nulls = {} THEN Refused
      ELSE Ok([head |-> SubSeq(data, 1, null - 1), tail |-> SubSeq(data, null + 1, Len(data))])

split_keyword(data) ==
  AndThen(SplitAtNull(data), LAMBDA s : IF Len(s.head) \in 1 .. MaxKeyword THEN Ok(s) ELSE Refused)

decode_ztxt(keyword, value) ==
  IF value # << >> /\ value[1] = 0
  THEN Ok([new_text("zTXt", keyword, << >>) EXCEPT !.text = Compressed(Tail(value))])
  ELSE Refused

\* flag and method have been found; a method other than 0 is one of what is not compressed.
decode_itxt(keyword, value) ==
  AndThen(SplitAtNull(SubSeq(value, 3, Len(value))), LAMBDA tag :
  AndThen(SplitAtNull(tag.tail), LAMBDA translated :
  AndThen(decode_ascii(tag.head), LAMBDA language_tag :
  AndThen(decode_utf8(translated.head), LAMBDA translated_keyword :
  AndThen(IF value[1] = 1 THEN Ok(Compressed(translated.tail))
          ELSE AndThen(decode_utf8(translated.tail), LAMBDA text : Ok(Uncompressed(text))),
          LAMBDA text :
    Ok([type |-> "iTXt", keyword |-> keyword, compressed |-> value[1] = 1,
        language_tag |-> language_tag, translated_keyword |-> translated_keyword,
        text |-> text]))))))

parse(type, data) ==
  AndThen(split_keyword(data), LAMBDA s :
    CASE type = "tEXt" -> Ok(new_text(type, s.head, s.tail))
      [] type = "zTXt" -> decode_ztxt(s.head, s.tail)
      [] type = "iTXt" ->
           IF Len(s.tail) >= 2 /\ s.tail[1] \in {0, 1} /\ (s.tail[1] = 1 => s.tail[2] = 0)
           THEN decode_itxt(s.head, s.tail)
           ELSE Refused)

-------------------------------------------------------------------------------
(* What a program may do with a chunk before it writes it.                     *)

\* One call, or the assignment of a public field.  Where it fails the chunk stays.
Worked(c, limits) ==
  LET results == { compress_text(c) } \cup { decompress_text_with_limit(c, l) : l \in limits }
                 \cup (LET e == encode(c) IN IF e.ok THEN {parse(c.type, e.value)} ELSE {})
  IN  {c} \cup (IF c.type = "tEXt" THEN {} ELSE { r.value : r \in { s \in results : s.ok } })
      \cup (IF c.type = "iTXt" THEN {[c EXCEPT !.compressed = ~ @]} ELSE {})

\* Two of them.
Prepared(c, limits) == UNION { Worked(d, limits) : d \in Worked(c, limits) }

\* No field that a null ends holds one.
Separable(c) ==
  \A field \in {c.keyword, c.language_tag, c.translated_keyword} :
    \A i \in DOMAIN field : field[i] # 0
===============================================================================
