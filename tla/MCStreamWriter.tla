---------------------------- MODULE MCStreamWriter ----------------------------
(* Small instances of StreamWriter, with the decoder's view of the header.  *)
EXTENDS EncodedHeader

AllInfos ==
  { {}, {"pHYs", "gAMA", "cHRM", "iCCP", "eXIf", "PLTE", "tRNS", "tEXt"},
    {"sRGB", "gAMA", "cHRM", "substitutes", "tRNS"}, {"invalid"},
    {"eXIf", "tEXt", "unencodable"} }

\* Texts: a, e with acute accent (in Latin-1), lambda (not), a null.  Keywords are at most
\* two bytes long.
a == 97
eacute == 233
lambda == 955

TextStrings == { << >>, <<a, 0>>, <<eacute>>, <<lambda, a>> }

Created ==
  { new_text(type, keyword, text) :
      type \in {"tEXt", "zTXt", "iTXt"}, text \in TextStrings,
      keyword \in { <<eacute, a>>, <<a, 0>>, <<lambda>>, <<a, a, a>>, << >> } }
  \cup { [new_text("iTXt", <<a>>, <<lambda>>) EXCEPT !.compressed = b, !.language_tag = tag,
                                                    !.translated_keyword = translated] :
           b \in BOOLEAN, tag \in { <<a>>, <<eacute>>, <<0>> },
           translated \in { <<eacute, a>>, <<a, 0>> } }

\* Data of other encoders: texts that are no zlib streams, are not UTF-8, have no terminators,
\* flags and methods of all kinds.
ForeignData ==
  { <<a>> \o Null \o rest :
      rest \in { << >>, <<0>>, <<0, a>>, <<1, a>>, <<0>> \o compress(<<eacute>>), <<0, 0, a, 0, 0>>,
                <<0, 1, 0, 0, a>>, <<1, 1, 0, 0>>, <<2, 0, 0, 0>>, <<0, 0, 0, 0, eacute>>,
                <<1, 0, eacute, 0, 0>>, <<1, 0, 0, eacute, 0>>, <<1, 0, 0, 0, a>>, <<1, 0, 0>>,
                <<1, 0, 0, 0>> \o compress(<<eacute>>), <<1, 0, 0, 0>> \o compress(<<a>>) } }
  \cup { <<a>>, <<0, a>> }

AllTexts ==
  Created \cup { r.value : r \in { s \in { parse(type, data) : type \in {"tEXt", "zTXt", "iTXt"},
                                                            data \in ForeignData } : s.ok } }
OneText == { new_text("zTXt", <<eacute, a>>, <<eacute>>) }
===============================================================================
