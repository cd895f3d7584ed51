------------------------------- MODULE MCAdam7 -------------------------------
(* Small instances of InterlacedOutput: ragged frames of every pixel size,      *)
(* alone and in a wider image, and one ragged frame for every kind of image and *)
(* every choice of transformations.                                             *)
EXTENDS InterlacedOutput

Frame(columns, lines, bits_pp, beside, kind, contents) ==
  [width |-> columns, height |-> lines, bits_pp |-> bits_pp, image_width |-> columns + beside,
   picture |-> kind, contents |-> contents]

Kind(type, depth, plte, alphas, transformations) ==
  [color_type |-> type, bit_depth |-> depth, palette |-> plte, trns |-> alphas,
   transform |-> transformations]

\* Every pass is empty in some frames and has several lines and samples in others.  The rows
\* are copied as they are.
PlainKind(bits_pp) ==
  IF bits_pp = 16 THEN Kind("GrayscaleAlpha", 8, << >>, << >>, {})
                  ELSE Kind("Grayscale", bits_pp, << >>, << >>, {})

SmallFrames ==
  { Frame(columns, lines, bits_pp, beside, PlainKind(bits_pp), {[i \in 1 .. 18 |-> i]}) :
      columns \in {1, 2, 3, 4, 5, 9}, lines \in {1, 2, 3, 5, 9},
      bits_pp \in {1, 2, 4, 8, 16}, beside \in {0, 3} }

\* A palette of three entries, one of one, and none; one that ends within an entry.
Palettes == { [i \in 1 .. 9 |-> 10 * i], <<7, 8, 9>>, << >>, [i \in 1 .. 4 |-> i] }

\* tRNS as the parser keeps it: fewer entries than the palette has, as many, more.
IndexedKinds ==
  { Kind("Indexed", depth, plte, alphas, transformations) :
      depth \in {1, 2, 4, 8}, plte \in Palettes, alphas \in {<< >>, <<1>>, <<1, 2, 3>>, <<1, 2, 3, 4>>},
      transformations \in {{}, {"EXPAND"}, {"ALPHA"}, {"EXPAND", "STRIP_16"}} }

TransparentGray(depth) == IF depth = 16 THEN <<0, 1>> ELSE <<1>>
TooLong == TransparentGray(16) \o <<0>>
TransparentRgb(depth)  == IF depth = 16 THEN <<0, 1, 0, 1, 0, 2>> ELSE <<1, 1, 2>>

DirectKinds ==
  { kind \in { Kind(type, depth, << >>, alphas, transformations) :
        type \in ColorTypes \ {"Indexed"}, depth \in {1, 2, 4, 8, 16},
        alphas \in { << >>, TooLong } \cup { TransparentGray(d) : d \in {8, 16} }
                             \cup { TransparentRgb(d) : d \in {8, 16} },
        transformations \in SUBSET {"STRIP_16", "EXPAND", "ALPHA"} } :
      /\ ~ is_combination_invalid(kind.color_type, kind.bit_depth)
      /\ \/ kind.trns = << >>
         \/ kind.color_type = "Grayscale" /\ kind.trns = TransparentGray(kind.bit_depth)
         \/ kind.color_type = "Grayscale" /\ kind.trns = TooLong /\ kind.bit_depth = 16
         \/ kind.color_type = "Rgb" /\ kind.trns = TransparentRgb(kind.bit_depth) }

\* Every size an output pixel may have.
OutputFrames ==
  { Frame(3, 3, bits_pp, 0, kind, contents) :
      bits_pp \in {1, 2, 4, 8, 16, 24, 32, 48, 64},
      kind \in IndexedKinds \cup DirectKinds,
      contents \in {{[i \in 1 .. 24 |-> 1], [i \in 1 .. 24 |-> (i * i) % 5],
                     <<0, 1, 0, 1, 0, 2>> \o [i \in 1 .. 18 |-> 255]}} }

AllFrames == SmallFrames \cup OutputFrames
===============================================================================
