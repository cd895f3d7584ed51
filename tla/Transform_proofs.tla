--------------------------- MODULE Transform_proofs ---------------------------
(* Proofs about Transform within InterlacedOutput, for every palette, every     *)
(* tRNS chunk and rows of every width: the table has what the palette says, a   *)
(* row comes out as its pixels ask for, and expand_pass takes nothing from it   *)
(* that is not there.                                                           *)
EXTENDS Adam7_proofs, SequenceTheorems

Indices == 0 .. PaletteSize - 1

\* The i-th entry has its colour, has its alpha, or is as it was at first.
ColorRight(i) == \A c \in 1 .. 3 : rgba_palette[i][c] = PaletteColor(i)[c]
AlphaRight(i) == rgba_palette[i][4] = PaletteAlpha(i)
Untouched(i)  == rgba_palette[i] = <<0, 0, 0, 255>>

PictureFits == picture \in PictureType /\ Len(picture.palette) <= 3 * PaletteSize

EntriesTyped == rgba_palette \in [Indices -> ByteValue \X ByteValue \X ByteValue \X ByteValue]

\* Where there is no function yet nothing was looked up.
BeforeTable ==
  /\ transform_fn = "none" =>
       step.phase \in {"idle", "create", "refused"} /\ rgba_palette = PaletteStart
  /\ step.phase = "create" => transform_fn = "none"

FillingColors ==
  step.phase = "colors" =>
    /\ 3 * step.k <= Len(picture.palette)
    /\ \A i \in Indices : IF i < step.k THEN ColorRight(i) ELSE Untouched(i)

\* The alphas that were copied are right, and those behind the palette.
FillingAlphas ==
  step.phase = "alphas" =>
    /\ step.k <= Len(Alphas)
    /\ \A i \in Indices :
         ColorRight(i) /\ (i < step.k \/ i >= Entries => AlphaRight(i))

Unclobbering ==
  step.phase = "opaque" =>
    /\ step.k >= Len(Alphas)
    /\ \A i \in Indices :
         ColorRight(i) /\ (i < step.k \/ i >= Entries => AlphaRight(i))

TableInv ==
  /\ PictureFits
  /\ EntriesTyped
  /\ step.k \in Nat
  /\ BeforeTable
  /\ FillingColors
  /\ FillingAlphas
  /\ Unclobbering
  /\ PaletteMemoized

-------------------------------------------------------------------------------
\* What is known of the lengths of the palette and of the alphas.
LEMMA LengthsKnown ==
  PictureFits =>
    /\ Len(picture.palette) \in Nat /\ Entries \in Nat /\ Entries <= PaletteSize
    /\ 3 * Entries <= Len(picture.palette) /\ Len(picture.palette) < 3 * Entries + 3
    /\ \A j \in 1 .. Len(picture.palette) : picture.palette[j] \in ByteValue
    /\ Len(Alphas) \in Nat /\ Len(Alphas) <= Entries
    /\ \A j \in 1 .. Len(Alphas) : Alphas[j] \in ByteValue
<1> SUFFICES ASSUME PictureFits
             PROVE  LengthsKnown!2
  OBVIOUS
<1>1. picture.palette \in Seq(ByteValue) /\ picture.trns \in Seq(ByteValue)
  BY DEF PictureFits, PictureType
<1>2. /\ Len(picture.palette) \in Nat
      /\ \A j \in 1 .. Len(picture.palette) : picture.palette[j] \in ByteValue
  BY <1>1, LenProperties, ElementOfSeq
<1>3. Entries \in Nat /\ 3 * Entries <= Len(picture.palette) /\ Len(picture.palette) < 3 * Entries + 3
  <2>1. \A n \in Nat : n \div 3 \in Nat /\ 3 * (n \div 3) <= n /\ n < 3 * (n \div 3) + 3
    OBVIOUS
  <2> QED  BY <1>2, <2>1 DEF Entries
<1>4. Len(picture.palette) <= 3 * PaletteSize /\ PaletteSize \in Nat
  BY PaletteSizeAssumption DEF PictureFits
<1>5. Entries <= PaletteSize
  BY <1>2, <1>3, <1>4
<1>6. Alphas \in Seq(ByteValue) /\ Len(Alphas) <= Entries
  <2>1. CASE Len(picture.trns) <= Entries
    BY <1>1, <2>1 DEF Alphas
  <2>2. CASE ~ (Len(picture.trns) <= Entries)
    <3>1. Alphas = << >>  BY <2>2 DEF Alphas
    <3> QED  BY <3>1, <1>3, EmptySeq
  <2> QED  BY <2>1, <2>2
<1>7. /\ Len(Alphas) \in Nat
      /\ \A j \in 1 .. Len(Alphas) : Alphas[j] \in ByteValue
  BY <1>6, LenProperties, ElementOfSeq
<1> QED  BY <1>2, <1>3, <1>5, <1>6, <1>7

-------------------------------------------------------------------------------
(* The table.                                                                   *)

\* What Entries, Alphas and the colours mean depends on nothing but the picture.
LEMMA ReferenceIsFixed ==
  UNCHANGED picture =>
    /\ Entries' = Entries /\ Alphas' = Alphas
    /\ \A i \in Indices : PaletteColor(i)' = PaletteColor(i) /\ PaletteAlpha(i)' = PaletteAlpha(i)
BY DEF Entries, Alphas, PaletteColor, PaletteAlpha

LEMMA TableAtFirst == OutputInit => TableInv
<1> SUFFICES ASSUME OutputInit PROVE TableInv  OBVIOUS
<1>1. PictureFits
  BY PicturesAssumption DEF OutputInit, Init, PictureFits
<1>2. rgba_palette = PaletteStart /\ transform_fn = "none" /\ step = At("idle", 0)
  BY DEF OutputInit, TransformStart
<1>3. EntriesTyped
  BY <1>2 DEF EntriesTyped, PaletteStart, Indices, ByteValue
<1> QED
  BY <1>1, <1>2, <1>3 DEF TableInv, BeforeTable, FillingColors, FillingAlphas, Unclobbering,
                          PaletteMemoized, Paletted, At

LEMMA CreateTransformFnKeepsTable == TableInv /\ CreateTransformFn => TableInv'
<1> SUFFICES ASSUME TableInv, CreateTransformFn PROVE TableInv'  OBVIOUS
<1>1. /\ UNCHANGED <<picture, rgba_palette>>
      /\ step.phase = "create" /\ step'.k \in Nat
      /\ step'.phase \in {"refused", "colors", "row"}
      /\ step'.phase = "colors" => step'.k = 0
      /\ step'.phase = "refused" => UNCHANGED transform_fn
      /\ step'.phase = "row" => transform_fn' \notin Paletted
      /\ step'.phase # "refused" => transform_fn' = TransformFor
  BY DEF CreateTransformFn, At
<1>2. TransformFor # "none"
  BY DEF TransformFor
<1>3. PictureFits' /\ EntriesTyped'
  BY <1>1 DEF TableInv, PictureFits, EntriesTyped, Indices
<1>4. BeforeTable'
  BY <1>1, <1>2 DEF TableInv, BeforeTable
<1>5. FillingColors'
  <2>1. Len(picture.palette) \in Nat /\ PaletteSize \in Nat
    BY LengthsKnown, PaletteSizeAssumption DEF TableInv
  <2>2. rgba_palette' = PaletteStart
    BY <1>1 DEF TableInv, BeforeTable
  <2> QED
    BY <1>1, <2>1, <2>2 DEF FillingColors, Untouched, PaletteStart, Indices
<1> QED
  BY <1>1, <1>3, <1>4, <1>5 DEF TableInv, FillingAlphas, Unclobbering, PaletteMemoized, Paletted

\* What the parts of the invariant say after a step that leaves the picture alone.
LEMMA PrimedTable ==
  UNCHANGED picture =>
    \A i \in Indices :
      /\ ColorRight(i)' <=> \A c \in 1 .. 3 : rgba_palette'[i][c] = PaletteColor(i)[c]
      /\ AlphaRight(i)' <=> rgba_palette'[i][4] = PaletteAlpha(i)
      /\ Untouched(i)' <=> rgba_palette'[i] = <<0, 0, 0, 255>>
BY DEF ColorRight, AlphaRight, Untouched, PaletteColor, PaletteAlpha, Entries, Alphas

LEMMA CopyColorsKeepsTable == TableInv /\ CopyColors => TableInv'
<1> SUFFICES ASSUME TableInv, CopyColors PROVE TableInv'  OBVIOUS
<1>1. /\ picture' = picture /\ transform_fn' = transform_fn
      /\ step.phase = "colors" /\ step.k \in Nat /\ 3 * step.k <= Len(picture.palette)
      /\ transform_fn # "none"
      /\ EntriesTyped
      /\ PictureFits
      /\ \A i \in Indices : IF i < step.k THEN ColorRight(i) ELSE Untouched(i)
  BY DEF CopyColors, TableInv, BeforeTable, FillingColors
<1>2. PictureFits'
  BY <1>1 DEF PictureFits
<1>3. /\ Len(picture.palette) \in Nat /\ PaletteSize \in Nat
      /\ Len(picture.palette) <= 3 * PaletteSize
      /\ \A j \in 1 .. Len(picture.palette) : picture.palette[j] \in ByteValue
      /\ Entries \in Nat /\ 3 * Entries <= Len(picture.palette) /\ Len(picture.palette) < 3 * Entries + 3
      /\ Len(Alphas) \in Nat /\ Len(Alphas) <= Entries
  BY <1>1, LengthsKnown, PaletteSizeAssumption DEF PictureFits
<1>a. PICK k \in Nat : k = step.k  BY <1>1
<1>b. PICK n \in Nat : n = Len(picture.palette)  BY <1>3
<1>c. PICK e \in Nat : e = Entries  BY <1>3
<1>d. PICK a \in Nat : a = Len(Alphas)  BY <1>3
<1>e. PICK P : P = picture.palette  OBVIOUS
<1>f. /\ 3 * k <= n /\ n <= 3 * PaletteSize /\ PaletteSize \in Nat
      /\ 3 * e <= n /\ n < 3 * e + 3 /\ a <= e
      /\ \A j \in 1 .. n : P[j] \in 0 .. 255
  BY <1>1, <1>3, <1>a, <1>b, <1>c, <1>d, <1>e DEF ByteValue
<1>g. \A j : PaletteByte(j) = P[3 * k + j]
  BY <1>a, <1>e DEF PaletteByte
<1>h. \A i \in Indices : IF i < k THEN ColorRight(i) ELSE Untouched(i)
  BY <1>1, <1>a
<1>i. \A i \in Indices :
        /\ ColorRight(i)' <=> \A c \in 1 .. 3 : rgba_palette'[i][c] = IF i < e THEN P[3 * i + c] ELSE 0
        /\ AlphaRight(i)' <=> rgba_palette'[i][4] = PaletteAlpha(i)
        /\ Untouched(i)' <=> rgba_palette'[i] = <<0, 0, 0, 255>>
  BY <1>1, <1>c, <1>e, PrimedTable DEF PaletteColor
<1>j. \A i \in Indices : ColorRight(i) => \A c \in 1 .. 3 : rgba_palette[i][c] = IF i < e THEN P[3 * i + c] ELSE 0
  BY <1>c, <1>e DEF ColorRight, PaletteColor
<1>k. Left = n - 3 * k
  BY <1>a, <1>b DEF Left
<1>l. rgba_palette \in [Indices -> ByteValue \X ByteValue \X ByteValue \X ByteValue]
  BY <1>1 DEF EntriesTyped
<1>4. CASE Left >= 4
  <2>1. /\ rgba_palette' = [rgba_palette EXCEPT ![k] = <<P[3 * k + 1], P[3 * k + 2], P[3 * k + 3], P[3 * k + 4]>>]
        /\ step' = At("colors", k + 1)
    BY <1>4, <1>a, <1>g DEF CopyColors
  <2>2. 3 * k + 4 <= n /\ k < e /\ k \in Indices
    BY <1>f, <1>k, <1>4 DEF Indices
  <2>3. /\ P[3 * k + 1] \in ByteValue /\ P[3 * k + 2] \in ByteValue
        /\ P[3 * k + 3] \in ByteValue /\ P[3 * k + 4] \in ByteValue
    <3>1. /\ 3 * k + 1 \in 1 .. n /\ 3 * k + 2 \in 1 .. n /\ 3 * k + 3 \in 1 .. n /\ 3 * k + 4 \in 1 .. n
      BY <2>2
    <3> QED  BY <3>1, <1>f DEF ByteValue
  <2>4. EntriesTyped'
    <3>1. rgba_palette' \in [Indices -> ByteValue \X ByteValue \X ByteValue \X ByteValue]
      BY <1>l, <2>1, <2>3
    <3> QED  BY <3>1 DEF EntriesTyped, Indices
  <2>5. step'.phase = "colors" /\ step'.k = k + 1
    BY <2>1 DEF At
  <2>6. /\ rgba_palette'[k] = <<P[3 * k + 1], P[3 * k + 2], P[3 * k + 3], P[3 * k + 4]>>
        /\ \A i \in Indices : i # k => rgba_palette'[i] = rgba_palette[i]
    BY <1>l, <2>1, <2>2
  <2>7. ASSUME NEW i \in Indices PROVE IF i < k + 1 THEN ColorRight(i)' ELSE Untouched(i)'
    <3>0. i \in Nat  BY DEF Indices
    <3>1. CASE i = k
      <4>1. /\ rgba_palette'[i][1] = P[3 * i + 1] /\ rgba_palette'[i][2] = P[3 * i + 2]
            /\ rgba_palette'[i][3] = P[3 * i + 3]
        BY <2>6, <3>1
      <4>2. ColorRight(i)'  BY <1>i, <2>2, <3>1, <4>1
      <4> QED  BY <4>2, <3>1
    <3>2. CASE i < k
      <4>1. ColorRight(i)  BY <1>h, <3>2
      <4>2. rgba_palette'[i] = rgba_palette[i]  BY <2>6, <3>0, <3>2
      <4>3. ColorRight(i)'  BY <1>i, <1>j, <4>1, <4>2
      <4> QED  BY <4>3, <3>0, <3>2
    <3>3. CASE i > k
      <4>1. Untouched(i)  BY <1>h, <3>0, <3>3
      <4>2. rgba_palette'[i] = rgba_palette[i]  BY <2>6, <3>0, <3>3
      <4>3. Untouched(i)'  BY <1>i, <4>1, <4>2 DEF Untouched
      <4> QED  BY <4>3, <3>0, <3>3
    <3> QED  BY <3>0, <3>1, <3>2, <3>3
  <2>8. FillingColors'
    <3>1. 3 * (k + 1) <= n  BY <2>2
    <3>2. 3 * step'.k <= Len(picture'.palette)  BY <1>1, <1>b, <2>5, <3>1
    <3>3. \A i \in Indices : IF i < step'.k THEN ColorRight(i)' ELSE Untouched(i)'
      BY <2>5, <2>7
    <3> QED  BY <3>2, <3>3 DEF FillingColors, Indices
  <2> QED
    BY <1>1, <1>2, <2>4, <2>5, <2>8
       DEF TableInv, BeforeTable, FillingAlphas, Unclobbering, PaletteMemoized
<1>5. CASE Left = 3
  <2>1. /\ rgba_palette' = [rgba_palette EXCEPT ![k] =
                             <<P[3 * k + 1], P[3 * k + 2], P[3 * k + 3], rgba_palette[k][4]>>]
        /\ step' = At("alphas", 0)
    BY <1>5, <1>a, <1>g DEF CopyColors
  <2>2. 3 * k + 3 = n /\ e = k + 1 /\ k \in Indices
    BY <1>f, <1>k, <1>5 DEF Indices
  <2>3. /\ P[3 * k + 1] \in ByteValue /\ P[3 * k + 2] \in ByteValue /\ P[3 * k + 3] \in ByteValue
        /\ rgba_palette[k][4] \in ByteValue
    <3>1. 3 * k + 1 \in 1 .. n /\ 3 * k + 2 \in 1 .. n /\ 3 * k + 3 \in 1 .. n
      BY <2>2
    <3>2. rgba_palette[k] \in ByteValue \X ByteValue \X ByteValue \X ByteValue  BY <1>l, <2>2
    <3> QED  BY <3>1, <3>2, <1>f DEF ByteValue
  <2>4. EntriesTyped'
    <3>1. rgba_palette' \in [Indices -> ByteValue \X ByteValue \X ByteValue \X ByteValue]
      BY <1>l, <2>1, <2>3
    <3> QED  BY <3>1 DEF EntriesTyped, Indices
  <2>5. step'.phase = "alphas" /\ step'.k = 0
    BY <2>1 DEF At
  <2>6. /\ rgba_palette'[k] = <<P[3 * k + 1], P[3 * k + 2], P[3 * k + 3], rgba_palette[k][4]>>
        /\ \A i \in Indices : i # k => rgba_palette'[i] = rgba_palette[i]
    BY <1>l, <2>1, <2>2
  <2>7. ASSUME NEW i \in Indices PROVE ColorRight(i)' /\ (i >= e => AlphaRight(i)')
    <3>0. i \in Nat  BY DEF Indices
    <3>1. CASE i = k
      <4>1. /\ rgba_palette'[i][1] = P[3 * i + 1] /\ rgba_palette'[i][2] = P[3 * i + 2]
            /\ rgba_palette'[i][3] = P[3 * i + 3]
        BY <2>6, <3>1
      <4> QED  BY <1>i, <2>2, <3>1, <4>1
    <3>2. CASE i < k
      <4>1. ColorRight(i)  BY <1>h, <3>2
      <4>2. rgba_palette'[i] = rgba_palette[i]  BY <2>6, <3>0, <3>2
      <4>3. ColorRight(i)'  BY <1>i, <1>j, <4>1, <4>2
      <4> QED  BY <4>3, <2>2, <3>0, <3>2
    <3>3. CASE i > k
      <4>1. Untouched(i)  BY <1>h, <3>0, <3>3
      <4>2. rgba_palette'[i] = <<0, 0, 0, 255>>  BY <2>6, <3>0, <3>3, <4>1 DEF Untouched
      <4>3. ~ (i < e) /\ ~ (i < a)  BY <1>f, <2>2, <3>0, <3>3
      <4>4. /\ rgba_palette'[i][1] = 0 /\ rgba_palette'[i][2] = 0
            /\ rgba_palette'[i][3] = 0 /\ rgba_palette'[i][4] = 255
        BY <4>2
      <4>5. ColorRight(i)'  BY <1>i, <4>3, <4>4
      <4>6. PaletteAlpha(i) = 255  BY <1>d, <4>3 DEF PaletteAlpha
      <4> QED  BY <1>i, <4>4, <4>5, <4>6
    <3> QED  BY <3>0, <3>1, <3>2, <3>3
  <2>8. FillingAlphas'
    <3>1. \A i \in Indices : ColorRight(i)' /\ (i < step'.k \/ i >= Entries => AlphaRight(i)')
      BY <1>c, <2>5, <2>7 DEF Indices
    <3>2. step'.k <= Len(Alphas)  BY <1>3, <2>5
    <3>3. Entries' = Entries /\ Alphas' = Alphas  BY <1>1, ReferenceIsFixed
    <3> QED  BY <3>1, <3>2, <3>3 DEF FillingAlphas, Indices
  <2> QED
    BY <1>1, <1>2, <2>4, <2>5, <2>8
       DEF TableInv, BeforeTable, FillingColors, Unclobbering, PaletteMemoized
<1>6. CASE ~ (Left >= 4) /\ Left # 3
  <2>1. rgba_palette' = rgba_palette /\ step' = At("panicked", 0)
    BY <1>6 DEF CopyColors
  <2> QED
    BY <1>1, <1>2, <2>1
       DEF TableInv, EntriesTyped, Indices, BeforeTable, FillingColors, FillingAlphas, Unclobbering,
           PaletteMemoized, At
<1> QED  BY <1>4, <1>5, <1>6

\* One entry is given another alpha.
LEMMA WithAlphaChangesAlpha ==
  ASSUME NEW k \in Indices, NEW alpha \in ByteValue, EntriesTyped,
         rgba_palette' = [rgba_palette EXCEPT ![k] = WithAlpha(@, alpha)]
  PROVE  /\ rgba_palette' \in [Indices -> ByteValue \X ByteValue \X ByteValue \X ByteValue]
         /\ \A i \in Indices, c \in 1 .. 3 : rgba_palette'[i][c] = rgba_palette[i][c]
         /\ \A i \in Indices : rgba_palette'[i][4] = IF i = k THEN alpha ELSE rgba_palette[i][4]
<1>1. rgba_palette \in [Indices -> ByteValue \X ByteValue \X ByteValue \X ByteValue]
  BY DEF EntriesTyped
<1>2. PICK w : w = WithAlpha(rgba_palette[k], alpha)  OBVIOUS
<1>3. /\ w \in ByteValue \X ByteValue \X ByteValue \X ByteValue
      /\ w[1] = rgba_palette[k][1] /\ w[2] = rgba_palette[k][2] /\ w[3] = rgba_palette[k][3]
      /\ w[4] = alpha
  <2>1. rgba_palette[k] \in ByteValue \X ByteValue \X ByteValue \X ByteValue  BY <1>1
  <2> QED  BY <1>2, <2>1 DEF WithAlpha
<1>4. rgba_palette' = [rgba_palette EXCEPT ![k] = w]
  BY <1>2
<1>5. rgba_palette' \in [Indices -> ByteValue \X ByteValue \X ByteValue \X ByteValue]
  BY <1>1, <1>3, <1>4
<1>6. \A i \in Indices : rgba_palette'[i] = IF i = k THEN w ELSE rgba_palette[i]
  BY <1>1, <1>4
<1>7. \A i \in Indices, c \in 1 .. 3 : rgba_palette'[i][c] = rgba_palette[i][c]
  BY <1>3, <1>6
<1>8. \A i \in Indices : rgba_palette'[i][4] = IF i = k THEN alpha ELSE rgba_palette[i][4]
  BY <1>3, <1>6
<1> QED  BY <1>5, <1>7, <1>8

LEMMA CopyAlphasKeepsTable == TableInv /\ CopyAlphas => TableInv'
<1> SUFFICES ASSUME TableInv, CopyAlphas PROVE TableInv'  OBVIOUS
<1>1. /\ picture' = picture /\ transform_fn' = transform_fn
      /\ step.phase = "alphas" /\ step.k \in Nat /\ step.k <= Len(Alphas)
      /\ transform_fn # "none"
      /\ EntriesTyped /\ PictureFits
      /\ \A i \in Indices : ColorRight(i) /\ (i < step.k \/ i >= Entries => AlphaRight(i))
  BY DEF CopyAlphas, TableInv, BeforeTable, FillingAlphas
<1>2. PictureFits'
  BY <1>1 DEF PictureFits
<1>3. /\ PaletteSize \in Nat /\ Entries \in Nat /\ Entries <= PaletteSize
      /\ Len(Alphas) \in Nat /\ Len(Alphas) <= Entries
      /\ \A j \in 1 .. Len(Alphas) : Alphas[j] \in ByteValue
  BY <1>1, LengthsKnown, PaletteSizeAssumption
<1>a. PICK k \in Nat : k = step.k  BY <1>1
<1>b. PICK e \in Nat : e = Entries  BY <1>3
<1>c. PICK a \in Nat : a = Len(Alphas)  BY <1>3
<1>d. PICK A : A = Alphas  OBVIOUS
<1>e. Entries' = Entries /\ Alphas' = Alphas
  BY <1>1, ReferenceIsFixed
<1>f. \A i \in Indices : i \in Nat /\ i < PaletteSize
  BY <1>3 DEF Indices
<1>4. CASE step.k < Len(Alphas)
  <2>1. /\ k < a /\ k < e /\ k \in Indices /\ k + 1 \in 1 .. a
    BY <1>3, <1>4, <1>a, <1>b, <1>c DEF Indices
  <2>2. A[k + 1] \in ByteValue
    BY <1>3, <1>c, <1>d, <2>1
  <2>3. rgba_palette' = [rgba_palette EXCEPT ![k] = WithAlpha(@, A[k + 1])] /\ step' = At("alphas", k + 1)
    BY <1>4, <1>a, <1>d DEF CopyAlphas
  <2>4. /\ rgba_palette' \in [Indices -> ByteValue \X ByteValue \X ByteValue \X ByteValue]
        /\ \A i \in Indices, c \in 1 .. 3 : rgba_palette'[i][c] = rgba_palette[i][c]
        /\ \A i \in Indices : rgba_palette'[i][4] = IF i = k THEN A[k + 1] ELSE rgba_palette[i][4]
    BY <1>1, <2>1, <2>2, <2>3, WithAlphaChangesAlpha
  <2>5. EntriesTyped'
    BY <2>4 DEF EntriesTyped, Indices
  <2>6. step'.phase = "alphas" /\ step'.k = k + 1
    BY <2>3 DEF At
  <2>7. ASSUME NEW i \in Indices
        PROVE  ColorRight(i)' /\ (i < k + 1 \/ i >= e => AlphaRight(i)')
    <3>1. ColorRight(i)'
      BY <1>1, <2>4, PrimedTable DEF ColorRight
    <3>2. CASE i = k
      <4>1. PaletteAlpha(i) = A[k + 1]  BY <1>c, <1>d, <2>1, <3>2 DEF PaletteAlpha
      <4> QED  BY <1>1, <2>4, <3>1, <3>2, <4>1, PrimedTable
    <3>3. CASE i # k
      <4>1. i < k + 1 <=> i < k  BY <1>f, <3>3
      <4>2. i < k \/ i >= e => AlphaRight(i)  BY <1>1, <1>a, <1>b
      <4> QED  BY <1>1, <2>4, <3>1, <3>3, <4>1, <4>2, PrimedTable DEF AlphaRight
    <3> QED  BY <3>2, <3>3
  <2>8. FillingAlphas'
    <3>1. \A i \in Indices : ColorRight(i)' /\ (i < step'.k \/ i >= Entries => AlphaRight(i)')
      BY <1>b, <2>6, <2>7
    <3>2. step'.k <= Len(Alphas)  BY <1>c, <2>1, <2>6
    <3> QED  BY <1>e, <3>1, <3>2 DEF FillingAlphas, Indices
  <2> QED
    BY <1>1, <1>2, <2>5, <2>6, <2>8
       DEF TableInv, BeforeTable, FillingColors, Unclobbering, PaletteMemoized
<1>5. CASE ~ (step.k < Len(Alphas))
  <2>1. rgba_palette' = rgba_palette /\ step' = At("opaque", step.k)
    BY <1>5 DEF CopyAlphas
  <2>2. step'.phase = "opaque" /\ step'.k = step.k
    BY <2>1 DEF At
  <2>3. \A i \in Indices : (ColorRight(i)' <=> ColorRight(i)) /\ (AlphaRight(i)' <=> AlphaRight(i))
    BY <1>1, <2>1, PrimedTable DEF ColorRight, AlphaRight
  <2>4. step'.k >= Len(Alphas)
    BY <1>1, <1>3, <1>5, <2>2
  <2>5. Unclobbering'
    <3>1. \A i \in Indices : ColorRight(i)' /\ (i < step'.k \/ i >= Entries => AlphaRight(i)')
      BY <1>1, <2>2, <2>3
    <3> QED  BY <1>e, <3>1, <2>4 DEF Unclobbering, Indices
  <2> QED
    BY <1>1, <1>2, <2>1, <2>2, <2>5
       DEF TableInv, EntriesTyped, Indices, BeforeTable, FillingColors, FillingAlphas, PaletteMemoized
<1> QED  BY <1>4, <1>5

LEMMA UnclobberAlphasKeepsTable == TableInv /\ UnclobberAlphas => TableInv'
<1> SUFFICES ASSUME TableInv, UnclobberAlphas PROVE TableInv'  OBVIOUS
<1>1. /\ picture' = picture /\ transform_fn' = transform_fn
      /\ step.phase = "opaque" /\ step.k \in Nat /\ step.k >= Len(Alphas)
      /\ transform_fn # "none"
      /\ EntriesTyped /\ PictureFits
      /\ \A i \in Indices : ColorRight(i) /\ (i < step.k \/ i >= Entries => AlphaRight(i))
  BY DEF UnclobberAlphas, TableInv, BeforeTable, Unclobbering
<1>2. PictureFits'
  BY <1>1 DEF PictureFits
<1>3. /\ PaletteSize \in Nat /\ Entries \in Nat /\ Entries <= PaletteSize
      /\ Len(Alphas) \in Nat /\ Len(Alphas) <= Entries
  BY <1>1, LengthsKnown, PaletteSizeAssumption
<1>a. PICK k \in Nat : k = step.k  BY <1>1
<1>b. PICK e \in Nat : e = Entries  BY <1>3
<1>c. PICK a \in Nat : a = Len(Alphas)  BY <1>3
<1>e. Entries' = Entries /\ Alphas' = Alphas
  BY <1>1, ReferenceIsFixed
<1>f. \A i \in Indices : i \in Nat /\ i < PaletteSize
  BY <1>3 DEF Indices
<1>4. CASE step.k < Entries
  <2>1. k < e /\ k >= a /\ k \in Indices
    BY <1>1, <1>3, <1>4, <1>a, <1>b, <1>c DEF Indices
  <2>2. rgba_palette' = [rgba_palette EXCEPT ![k] = WithAlpha(@, 255)] /\ step' = At("opaque", k + 1)
    BY <1>4, <1>a DEF UnclobberAlphas
  <2>3. PICK o \in ByteValue : o = 255
    BY DEF ByteValue
  <2>a. rgba_palette' = [rgba_palette EXCEPT ![k] = WithAlpha(@, o)]
    BY <2>2, <2>3
  <2>4. /\ rgba_palette' \in [Indices -> ByteValue \X ByteValue \X ByteValue \X ByteValue]
        /\ \A i \in Indices, c \in 1 .. 3 : rgba_palette'[i][c] = rgba_palette[i][c]
        /\ \A i \in Indices : rgba_palette'[i][4] = IF i = k THEN o ELSE rgba_palette[i][4]
    BY <1>1, <2>1, <2>a, WithAlphaChangesAlpha
  <2>5. EntriesTyped'
    BY <2>4 DEF EntriesTyped, Indices
  <2>6. step'.phase = "opaque" /\ step'.k = k + 1
    BY <2>2 DEF At
  <2>7. ASSUME NEW i \in Indices
        PROVE  ColorRight(i)' /\ (i < k + 1 \/ i >= e => AlphaRight(i)')
    <3>1. ColorRight(i)'
      BY <1>1, <2>4, PrimedTable DEF ColorRight
    <3>2. CASE i = k
      <4>1. ~ (i < a)  BY <2>1, <3>2
      <4>2. PaletteAlpha(i) = 255  BY <1>c, <4>1 DEF PaletteAlpha
      <4> QED  BY <1>1, <2>3, <2>4, <3>1, <3>2, <4>2, PrimedTable
    <3>3. CASE i # k
      <4>1. i < k + 1 <=> i < k  BY <1>f, <3>3
      <4>2. i < k \/ i >= e => AlphaRight(i)  BY <1>1, <1>a, <1>b
      <4> QED  BY <1>1, <2>4, <3>1, <3>3, <4>1, <4>2, PrimedTable DEF AlphaRight
    <3> QED  BY <3>2, <3>3
  <2>8. Unclobbering'
    <3>1. \A i \in Indices : ColorRight(i)' /\ (i < step'.k \/ i >= Entries => AlphaRight(i)')
      BY <1>b, <2>6, <2>7
    <3>2. step'.k >= Len(Alphas)  BY <1>c, <2>1, <2>6
    <3> QED  BY <1>e, <3>1, <3>2 DEF Unclobbering, Indices
  <2> QED
    BY <1>1, <1>2, <2>5, <2>6, <2>8
       DEF TableInv, BeforeTable, FillingColors, FillingAlphas, PaletteMemoized
<1>5. CASE ~ (step.k < Entries)
  <2>1. rgba_palette' = rgba_palette /\ step' = At("row", 0)
    BY <1>5 DEF UnclobberAlphas
  <2>2. step'.phase = "row" /\ step'.k = 0
    BY <2>1 DEF At
  <2>3. \A i \in Indices : ColorRight(i) /\ AlphaRight(i)
    <3>1. ASSUME NEW i \in Indices PROVE i < step.k \/ i >= Entries
      BY <1>3, <1>5, <1>1, <1>f
    <3> QED  BY <1>1, <3>1
  <2>4. \A i \in Indices : ColorRight(i)' /\ AlphaRight(i)'
    BY <1>1, <2>1, <2>3, PrimedTable DEF ColorRight, AlphaRight
  <2>5. PaletteMemoized'
    BY <2>4 DEF PaletteMemoized, ColorRight, AlphaRight, Indices
  <2> QED
    BY <1>1, <1>2, <2>1, <2>2, <2>5
       DEF TableInv, EntriesTyped, Indices, BeforeTable, FillingColors, FillingAlphas, Unclobbering
<1> QED  BY <1>4, <1>5

\* Outside of the making of the table nothing happens to it.
LEMMA RowsKeepTable ==
  ASSUME TableInv, UNCHANGED <<picture, transform_fn, rgba_palette>>, step'.k \in Nat,
         \/ UNCHANGED step
         \/ /\ transform_fn # "none" \/ step'.phase \in {"idle", "create"}
            /\ step.phase \in {"row", "done", "idle"}
            /\ step'.phase \in {"row", "done", "idle", "panicked", "create"}
            /\ step'.phase = "create" => transform_fn = "none"
  PROVE  TableInv'
<1>1. \A i \in Indices :
        (ColorRight(i)' <=> ColorRight(i)) /\ (AlphaRight(i)' <=> AlphaRight(i)) /\ (Untouched(i)' <=> Untouched(i))
  BY PrimedTable DEF ColorRight, AlphaRight, Untouched
<1>2. Entries' = Entries /\ Alphas' = Alphas
  BY ReferenceIsFixed
<1>3. PictureFits' /\ EntriesTyped' /\ BeforeTable'
  BY DEF TableInv, PictureFits, EntriesTyped, Indices, BeforeTable
<1>4. CASE UNCHANGED step
  <2>1. FillingColors'  BY <1>1, <1>4 DEF TableInv, FillingColors, Indices
  <2>2. FillingAlphas'  BY <1>1, <1>2, <1>4 DEF TableInv, FillingAlphas, Indices
  <2>3. Unclobbering'   BY <1>1, <1>2, <1>4 DEF TableInv, Unclobbering, Indices
  <2>4. PaletteMemoized'
    BY <1>1, <1>4 DEF TableInv, PaletteMemoized, Indices, ColorRight, AlphaRight
  <2> QED  BY <1>3, <2>1, <2>2, <2>3, <2>4 DEF TableInv
<1>5. CASE ~ UNCHANGED step
  <2>1. FillingColors' /\ FillingAlphas' /\ Unclobbering'
    BY <1>5 DEF FillingColors, FillingAlphas, Unclobbering
  <2>2. PaletteMemoized'
    BY <1>1, <1>5 DEF TableInv, PaletteMemoized, Indices, ColorRight, AlphaRight
  <2> QED  BY <1>3, <2>1, <2>2 DEF TableInv
<1> QED  BY <1>4, <1>5

LEMMA StepsKeepTable == TableInv /\ [OutputNext]_outputVars => TableInv'
<1> SUFFICES ASSUME TableInv, [OutputNext]_outputVars PROVE TableInv'  OBVIOUS
<1>0. step.k \in Nat /\ 0 \in Nat /\ step.k + 1 \in Nat
  BY DEF TableInv
<1>1. CASE BeginRow
  <2>1. /\ UNCHANGED <<picture, transform_fn, rgba_palette>> /\ step.phase = "idle"
        /\ step' = At(IF transform_fn = "none" THEN "create" ELSE "row", 0)
    BY <1>1 DEF BeginRow, GiveRow
  <2>2. step'.k = 0 /\ step'.phase = IF transform_fn = "none" THEN "create" ELSE "row"
    BY <2>1 DEF At
  <2> QED  BY <1>0, <2>1, <2>2, RowsKeepTable
<1>2. CASE TransformRow
  <2>1. CASE CreateTransformFn  BY <2>1, CreateTransformFnKeepsTable
  <2>2. CASE CopyColors         BY <2>2, CopyColorsKeepsTable
  <2>3. CASE CopyAlphas         BY <2>3, CopyAlphasKeepsTable
  <2>4. CASE UnclobberAlphas    BY <2>4, UnclobberAlphasKeepsTable
  <2>5. CASE CopyRow \/ TransformRowStrip16 \/ ExpandTrns \/ UnpackBits \/ Expand8Bit
    <3>1. /\ UNCHANGED <<picture, transform_fn, rgba_palette>> /\ step.phase = "row"
          /\ \/ step' = At("row", step.k + 1)
             \/ step' = At("done", 0)
             \/ step' = At("panicked", 0)
      BY <2>5 DEF CopyRow, TransformRowStrip16, ExpandTrns, UnpackBits, Expand8Bit, Transforming,
                  Turn, Stop
    <3>2. step'.k \in Nat /\ step'.phase \in {"row", "done", "panicked"}
      BY <1>0, <3>1 DEF At
    <3>3. transform_fn # "none"
      BY <3>1 DEF TableInv, BeforeTable
    <3> QED  BY <3>1, <3>2, <3>3, RowsKeepTable
  <2> QED
    BY <1>2, <2>1, <2>2, <2>3, <2>4, <2>5 DEF TransformRow, TransformStep
<1>3. CASE EndRow
  <2>1. /\ UNCHANGED <<picture, transform_fn, rgba_palette>> /\ step.phase = "done" /\ step' = At("idle", 0)
    BY <1>3 DEF EndRow, TakeRow, Stop
  <2>2. step'.k = 0 /\ step'.phase = "idle"
    BY <2>1 DEF At
  <2> QED  BY <1>0, <2>1, <2>2, RowsKeepTable
<1>4. CASE AdvancePass \/ UNCHANGED outputVars
  <2>1. UNCHANGED <<picture, transform_fn, rgba_palette, step>>
    BY <1>4 DEF AdvancePass, outputVars, transformVars
  <2> QED  BY <1>0, <2>1, RowsKeepTable
<1> QED  BY <1>1, <1>2, <1>3, <1>4 DEF OutputNext

\* PaletteMemoized holds in every state: create_rgba_palette makes the table that the palette
\* and the tRNS chunk ask for, whatever their lengths are, and no row changes it.
THEOREM PaletteIsMemoized == OutputSpec => []PaletteMemoized
<1>1. OutputInit => TableInv  BY TableAtFirst
<1>2. TableInv /\ [OutputNext]_outputVars => TableInv'  BY StepsKeepTable
<1>3. TableInv => PaletteMemoized  BY DEF TableInv
<1> QED  BY <1>1, <1>2, <1>3, PTL DEF OutputSpec

-------------------------------------------------------------------------------
(* Rows: what the invariant says of one that is transformed.                   *)

RowLen     == raw_row_length(channels * bit_depth, width) - 1
OutSamples == samples(OutputColor)

PictureAllowed ==
  /\ picture \in PictureType
  /\ ~ is_combination_invalid(color_type, bit_depth)
  /\ TransparencyFits(picture)

\* The first n pixels of the output, or the first n bytes of a row whose low bytes are dropped.
Converted(n) ==
  \A x \in 0 .. n - 1, s \in 0 .. OutSamples - 1 :
    Sample(output, OutputDepth, x * OutSamples + s) = ExpectedSample(x, s)
Stripped(n) == \A i \in 0 .. n - 1 : output[i + 1] = row[2 * i + 1]

RowFits ==
  /\ width \in Nat
  /\ row \in [1 .. RowLen -> ByteValue]
  /\ output \in [1 .. OutputLineSize(width) -> ByteValue \cup {Unset}]
  /\ step.phase # "idle" => width > 0

Chosen ==
  /\ transform_fn \in {"none", TransformFor}
  /\ step.phase \in {"row", "done", "colors", "alphas", "opaque"} => transform_fn = TransformFor

Progress ==
  step.phase = "row" =>
    CASE transform_fn = "copy_row" -> step.k <= 1 /\ (step.k = 1 => output = row)
      [] transform_fn = "transform_row_strip16" -> step.k <= width * channels /\ Stripped(step.k)
      [] OTHER -> step.k <= width /\ Converted(step.k)

-------------------------------------------------------------------------------
LEMMA PowerOf ==
  \A n : /\ n = 0 => 2^n = 1
         /\ n = 1 => 2^n = 2
         /\ n = 2 => 2^n = 4
         /\ n = 3 => 2^n = 8
         /\ n = 4 => 2^n = 16
         /\ n = 5 => 2^n = 32
         /\ n = 6 => 2^n = 64
         /\ n = 7 => 2^n = 128
         /\ n = 8 => 2^n = 256
<1>0. \A n : n = 0 => 2^n = 1  OBVIOUS
<1>1. \A n : n = 1 => 2^n = 2  OBVIOUS
<1>2. \A n : n = 2 => 2^n = 4  OBVIOUS
<1>3. \A n : n = 3 => 2^n = 8  OBVIOUS
<1>4. \A n : n = 4 => 2^n = 16  OBVIOUS
<1>5. \A n : n = 5 => 2^n = 32  OBVIOUS
<1>6. \A n : n = 6 => 2^n = 64  OBVIOUS
<1>7. \A n : n = 7 => 2^n = 128  OBVIOUS
<1>8. \A n : n = 8 => 2^n = 256  OBVIOUS
<1> QED BY <1>0, <1>1, <1>2, <1>3, <1>4, <1>5, <1>6, <1>7, <1>8

LEMMA SampleOfByte ==
  ASSUME NEW bytes, NEW n \in Nat, bytes[n + 1] \in ByteValue
  PROVE  Sample(bytes, 8, n) = bytes[n + 1]
<1>1. (n * 8) \div 8 = n /\ (n * 8) % 8 = 0
  OBVIOUS
<1>2. PICK zero, eight : zero = 8 - 8 - ((n * 8) % 8) /\ eight = 8
  OBVIOUS
<1>3. Sample(bytes, 8, n) = (bytes[n + 1] \div 2^zero) % 2^eight
  BY <1>1, <1>2 DEF Sample
<1>4. 2^zero = 1 /\ 2^eight = 256
  BY <1>1, <1>2, PowerOf
<1> QED BY <1>3, <1>4 DEF ByteValue

LEMMA SameSample8 ==
  ASSUME NEW A, NEW B, NEW n \in Nat, A[n + 1] = B[n + 1]
  PROVE  Sample(A, 8, n) = Sample(B, 8, n)
<1>1. (n * 8) \div 8 = n
  OBVIOUS
<1> QED BY <1>1 DEF Sample

LEMMA SampleInRange ==
  ASSUME NEW bytes, NEW n \in Nat, NEW depth \in {1, 2, 4, 8}, bytes[(n * depth) \div 8 + 1] \in ByteValue
  PROVE  Sample(bytes, depth, n) \in 0 .. 2^depth - 1 /\ 2^depth - 1 \in 1 .. 255
<1>1. PICK shift : shift = 8 - depth - ((n * depth) % 8)
  OBVIOUS
<1>2. shift \in {0, 1, 2, 3, 4, 5, 6, 7}
  <2>1. depth = 1 => (n * 1) % 8 \in 0 .. 7
    OBVIOUS
  <2>2. depth = 2 => (n * 2) % 8 \in 0 .. 6
    OBVIOUS
  <2>3. depth = 4 => (n * 4) % 8 \in 0 .. 4
    OBVIOUS
  <2>4. depth = 8 => (n * 8) % 8 = 0
    OBVIOUS
  <2> QED BY <1>1, <2>1, <2>2, <2>3, <2>4
<1>3. PICK d \in {1, 2, 4, 8, 16, 32, 64, 128} : d = 2^shift
  BY <1>2, PowerOf
<1>4. PICK v \in Nat : v = bytes[(n * depth) \div 8 + 1] \div 2^shift
  <2>1. PICK b \in Nat : b = bytes[(n * depth) \div 8 + 1]
    BY DEF ByteValue
  <2>2. b \div d \in Nat
    OBVIOUS
  <2> QED BY <1>3, <2>1, <2>2
<1>5. Sample(bytes, depth, n) = v % 2^depth
  BY <1>1, <1>4 DEF Sample
<1>6. 2^depth \in {2, 4, 16, 256}
  BY PowerOf
<1> QED BY <1>5, <1>6

-------------------------------------------------------------------------------
\* What the functions are made for.
LEMMA MadeFor ==
  ASSUME PictureAllowed
  PROVE  /\ channels \in 1 .. 4 /\ bit_depth \in {1, 2, 4, 8, 16} /\ OutSamples \in 1 .. 4
         /\ OutputDepth \in {1, 2, 4, 8, 16} /\ OutputBits = OutSamples * OutputDepth
         /\ (bit_depth < 8 \/ color_type = "Indexed") => channels = 1
         /\ TransformFor = "copy_row" =>
              OutputColor = color_type /\ OutputDepth = bit_depth /\ ~ (color_type = "Indexed" /\ expand)
         /\ TransformFor = "transform_row_strip16" =>
              OutputColor = color_type /\ bit_depth = 16 /\ OutputDepth = 8 /\ color_type # "Indexed"
         /\ TransformFor = "expand_trns_line" =>
              color_type \in {"Grayscale", "Rgb"} /\ bit_depth = 8 /\ OutputDepth = 8 /\ OutSamples = channels + 1
         /\ TransformFor = "expand_trns_line16" =>
              color_type \in {"Grayscale", "Rgb"} /\ bit_depth = 16 /\ OutputDepth = 16 /\ OutSamples = channels + 1
         /\ TransformFor = "expand_trns_and_strip_line16" =>
              color_type \in {"Grayscale", "Rgb"} /\ bit_depth = 16 /\ OutputDepth = 8 /\ OutSamples = channels + 1
         /\ TransformFor = "expand_gray_u8" =>
              color_type = "Grayscale" /\ bit_depth \in {1, 2, 4} /\ OutputDepth = 8 /\ OutSamples = 1
         /\ TransformFor = "expand_gray_u8_with_trns" =>
              color_type = "Grayscale" /\ bit_depth \in {1, 2, 4} /\ OutputDepth = 8 /\ OutSamples = 2
         /\ TransformFor = "expand_into_rgb8" =>
              color_type = "Indexed" /\ expand /\ bit_depth \in {1, 2, 4} /\ OutputDepth = 8 /\ OutSamples = 3
         /\ TransformFor = "expand_8bit_into_rgb8" =>
              color_type = "Indexed" /\ expand /\ bit_depth = 8 /\ OutputDepth = 8 /\ OutSamples = 3
         /\ TransformFor = "expand_paletted_into_rgba8" =>
              color_type = "Indexed" /\ expand /\ bit_depth \in {1, 2, 4, 8} /\ OutputDepth = 8 /\ OutSamples = 4
         /\ TransformFor \in {"copy_row", "transform_row_strip16", "expand_trns_line", "expand_trns_line16",
              "expand_trns_and_strip_line16", "expand_gray_u8", "expand_gray_u8_with_trns", "expand_into_rgb8",
              "expand_8bit_into_rgb8", "expand_paletted_into_rgba8", "PaletteRequired"}
<1>1. /\ color_type \in {"Grayscale", "Rgb", "Indexed", "GrayscaleAlpha", "Rgba"}
      /\ bit_depth \in {1, 2, 4, 8, 16} /\ strip16 \in BOOLEAN /\ expand \in BOOLEAN /\ trns \in BOOLEAN
      /\ bit_depth < 8 => color_type \in {"Grayscale", "Indexed"}
      /\ bit_depth = 16 => color_type # "Indexed"
      /\ strip16 => bit_depth = 16
  BY DEF PictureAllowed, PictureType, ColorTypes, color_type, bit_depth, strip16, expand, trns,
         is_combination_invalid
<1>2. /\ samples("Grayscale") = 1 /\ samples("Indexed") = 1 /\ samples("GrayscaleAlpha") = 2
      /\ samples("Rgb") = 3 /\ samples("Rgba") = 4
  BY DEF samples
<1>3. channels = samples(color_type) /\ OutSamples = samples(OutputColor)
  BY DEF channels, OutSamples
<1> HIDE DEF color_type, bit_depth, strip16, expand, trns, channels, OutSamples, samples
<1>4. /\ OutputColor \in {"Grayscale", "Rgb", "Indexed", "GrayscaleAlpha", "Rgba"}
      /\ ~ expand => OutputColor = color_type
      /\ color_type = "Grayscale" /\ expand => OutputColor = IF trns THEN "GrayscaleAlpha" ELSE "Grayscale"
      /\ color_type \in {"Rgb", "Indexed"} /\ expand => OutputColor = IF trns THEN "Rgba" ELSE "Rgb"
      /\ color_type \in {"GrayscaleAlpha", "Rgba"} => OutputColor = color_type
  BY <1>1 DEF OutputColor
<1>5. /\ OutputDepth = IF strip16 \/ (bit_depth < 8 /\ expand) THEN 8 ELSE bit_depth
  BY DEF OutputDepth
<1>6. OutputBits = OutSamples * OutputDepth
  BY DEF OutputBits, OutSamples
<1> HIDE DEF OutputColor, OutputDepth, OutputBits
<1>7. CASE color_type = "Indexed" /\ expand
  BY <1>1, <1>2, <1>3, <1>4, <1>5, <1>6, <1>7 DEF TransformFor
<1>8. CASE color_type = "Grayscale" /\ bit_depth < 8 /\ expand
  BY <1>1, <1>2, <1>3, <1>4, <1>5, <1>6, <1>8 DEF TransformFor
<1>9. CASE color_type \in {"Grayscale", "Rgb"} /\ bit_depth >= 8 /\ expand /\ trns
  BY <1>1, <1>2, <1>3, <1>4, <1>5, <1>6, <1>9 DEF TransformFor
<1>10. CASE /\ ~ (color_type = "Indexed" /\ expand)
            /\ ~ (color_type = "Grayscale" /\ bit_depth < 8 /\ expand)
            /\ ~ (color_type \in {"Grayscale", "Rgb"} /\ bit_depth >= 8 /\ expand /\ trns)
            /\ color_type # "Indexed" /\ strip16
  BY <1>1, <1>2, <1>3, <1>4, <1>5, <1>6, <1>10 DEF TransformFor
<1>11. CASE /\ ~ (color_type = "Indexed" /\ expand)
            /\ ~ (color_type = "Grayscale" /\ bit_depth < 8 /\ expand)
            /\ ~ (color_type \in {"Grayscale", "Rgb"} /\ bit_depth >= 8 /\ expand /\ trns)
            /\ ~ (color_type # "Indexed" /\ strip16)
  <2>1. TransformFor = "copy_row"
    BY <1>1, <1>11 DEF TransformFor
  <2>2. ~ strip16
    BY <1>1, <1>11
  <2>3. ~ (bit_depth < 8 /\ expand)
    BY <1>1, <1>11
  <2>4. OutputDepth = bit_depth
    BY <1>5, <2>2, <2>3
  <2>5. OutputColor = color_type
    BY <1>1, <1>4, <1>11
  <2> QED BY <1>1, <1>2, <1>3, <1>6, <1>11, <2>1, <2>4, <2>5
<1> QED BY <1>7, <1>8, <1>9, <1>10, <1>11

-------------------------------------------------------------------------------
\* Nothing but the picture and the row decides what is to be put out.
LEMMA Fixed ==
  ASSUME UNCHANGED <<picture, row, width>>
  PROVE  /\ PictureAllowed' = PictureAllowed /\ TransformFor' = TransformFor
         /\ color_type' = color_type /\ bit_depth' = bit_depth /\ channels' = channels
         /\ OutputDepth' = OutputDepth /\ OutSamples' = OutSamples /\ RowLen' = RowLen
         /\ OutputLineSize(width)' = OutputLineSize(width)
         /\ \A x, s : ExpectedSample(x, s)' = ExpectedSample(x, s)
<1>1. /\ color_type' = color_type /\ bit_depth' = bit_depth /\ channels' = channels
      /\ trns' = trns /\ expand' = expand /\ strip16' = strip16
  BY DEF color_type, bit_depth, channels, trns, expand, strip16
<1>2. OutputDepth' = OutputDepth /\ OutputColor' = OutputColor
  BY <1>1 DEF OutputDepth, OutputColor
<1>3. OutSamples' = OutSamples /\ RowLen' = RowLen /\ OutputLineSize(width)' = OutputLineSize(width)
  BY <1>1, <1>2 DEF OutSamples, RowLen, OutputLineSize, OutputBits
<1>4. TransformFor' = TransformFor
  BY <1>1 DEF TransformFor
<1>5. PictureAllowed' = PictureAllowed
  BY <1>1 DEF PictureAllowed
<1>6. ASSUME NEW x, NEW s PROVE ExpectedSample(x, s)' = ExpectedSample(x, s)
  <2>1. \A y, t : InSample(y, t)' = InSample(y, t)
    BY <1>1 DEF InSample
  <2>2. \A t : TrnsSample(t)' = TrnsSample(t)
    BY <1>1 DEF TrnsSample
  <2>3. IsTransparent(x)' = IsTransparent(x)
    BY <1>1, <2>1, <2>2 DEF IsTransparent
  <2>4. \A v : Rescaled(v)' = Rescaled(v)
    BY <1>1, <1>2 DEF Rescaled
  <2>5. \A i : PaletteColor(i)' = PaletteColor(i) /\ PaletteAlpha(i)' = PaletteAlpha(i)
    BY DEF PaletteColor, PaletteAlpha, Entries, Alphas
  <2> QED BY <1>1, <1>2, <2>1, <2>3, <2>4, <2>5 DEF ExpectedSample
<1> QED BY <1>1, <1>2, <1>3, <1>4, <1>5, <1>6

LEMMA Lengths ==
  ASSUME PictureAllowed, width \in Nat
  PROVE  /\ OutputLineSize(width) \in Nat /\ RowLen \in Nat
         /\ OutputLineSize(width) = (width * OutputBits + 7) \div 8
         /\ RowLen = (width * (channels * bit_depth) + 7) \div 8
         /\ OutputDepth = 8 => OutputLineSize(width) = width * OutSamples
         /\ OutputDepth = 16 => OutputLineSize(width) = 2 * (width * OutSamples)
         /\ bit_depth = 8 => RowLen = width * channels
         /\ bit_depth = 16 => RowLen = 2 * (width * channels)
<1>1. /\ channels \in {1, 2, 3, 4} /\ bit_depth \in {1, 2, 4, 8, 16}
      /\ OutSamples \in {1, 2, 3, 4} /\ OutputDepth \in {1, 2, 4, 8, 16}
      /\ OutputBits = OutSamples * OutputDepth
  BY MadeFor
<1>2. \A n \in Nat : (n + 7) \div 8 \in Nat
  OBVIOUS
<1>3. \A c \in {1, 2, 3, 4} :
        /\ (width * (c * 8) + 7) \div 8 = width * c
        /\ (width * (c * 16) + 7) \div 8 = 2 * (width * c)
  OBVIOUS
<1>4. /\ OutputLineSize(width) = (width * OutputBits + 7) \div 8
      /\ RowLen = (width * (channels * bit_depth) + 7) \div 8
  <2>1. \A b : b \in Nat => raw_row_length(b, width) - 1 = (width * b + 7) \div 8
    BY <1>2 DEF raw_row_length
  <2>2. OutputBits \in Nat /\ channels * bit_depth \in Nat
    BY <1>1
  <2> QED BY <2>1, <2>2 DEF OutputLineSize, RowLen
<1>5. width * OutputBits \in Nat /\ width * (channels * bit_depth) \in Nat
  BY <1>1
<1> QED BY <1>1, <1>2, <1>3, <1>4, <1>5

\* What a turn of a loop writes, and what it leaves.
LEMMA TurnWrites ==
  ASSUME PictureAllowed, RowFits, width > 0, NEW from \in Nat, NEW bytes, NEW m \in Nat,
         DOMAIN bytes = 1 .. m, Len(bytes) = m, \A j \in 1 .. m : bytes[j] \in ByteValue,
         Turn(from, bytes)
  PROVE  /\ RowFits'
         /\ \A i \in 1 .. OutputLineSize(width) :
              output'[i] = IF from < i /\ i <= from + m THEN bytes[i - from] ELSE output[i]
<1>1. /\ OutputLineSize(width) \in Nat
      /\ output \in [1 .. OutputLineSize(width) -> ByteValue \cup {Unset}]
  BY Lengths DEF RowFits
<1>2. output' = [i \in 1 .. OutputLineSize(width) |->
                   IF from < i /\ i <= from + m THEN bytes[i - from] ELSE output[i]]
  BY <1>1 DEF Turn, Overwritten
<1>3. \A i \in 1 .. OutputLineSize(width) : from < i /\ i <= from + m => i - from \in 1 .. m
  BY <1>1
<1>4. output' \in [1 .. OutputLineSize(width) -> ByteValue \cup {Unset}]
  BY <1>1, <1>2, <1>3
<1>5. RowFits'
  BY <1>4, Fixed DEF RowFits, Turn
<1> QED BY <1>2, <1>5

LEMMA NextPixel8 ==
  ASSUME PictureAllowed, RowFits, OutputDepth = 8, NEW k \in Nat, k < width, Converted(k),
         NEW bytes, NEW m \in Nat, DOMAIN bytes = 1 .. m, Len(bytes) = m, m >= OutSamples,
         \A j \in 1 .. m : bytes[j] \in ByteValue,
         \A s \in 0 .. OutSamples - 1 : bytes[s + 1] = ExpectedSample(k, s),
         Turn(k * OutSamples, bytes)
  PROVE  RowFits' /\ Converted(k + 1)'
<1>1. UNCHANGED <<picture, row, width>> /\ width \in Nat
  BY DEF Turn, RowFits
<1>2. PICK c \in {1, 2, 3, 4} : c = OutSamples
  BY MadeFor
<1>3. OutputLineSize(width) = width * c
  BY <1>1, <1>2, Lengths
<1>4. k * c \in Nat
  BY <1>2
<1>5. /\ RowFits'
      /\ \A i \in 1 .. width * c :
           output'[i] = IF k * c < i /\ i <= k * c + m THEN bytes[i - k * c] ELSE output[i]
  <2>1. Turn(k * c, bytes)
    BY <1>2
  <2> HIDE DEF Turn
  <2>2. width > 0
    BY <1>1
  <2> QED BY <1>3, <1>4, <2>1, <2>2, TurnWrites
<1>6. ASSUME NEW x \in 0 .. k, NEW s \in 0 .. c - 1
      PROVE  Sample(output', 8, x * c + s) = ExpectedSample(x, s)
  <2>1. x * c + s \in Nat /\ x * c + s + 1 \in 1 .. width * c
    BY <1>1, <1>2
  <2>2. CASE x < k
    <3>1. x * c + s + 1 <= k * c
      BY <1>2, <2>2
    <3>2. output'[x * c + s + 1] = output[x * c + s + 1]
      BY <1>4, <1>5, <2>1, <3>1
    <3>3. Sample(output', 8, x * c + s) = Sample(output, 8, x * c + s)
      BY <2>1, <3>2, SameSample8
    <3> QED BY <1>2, <2>2, <3>3 DEF Converted
  <2>3. CASE x = k
    <3>1. output'[k * c + s + 1] = bytes[s + 1]
      <4>1. PICK q \in Nat : q = k * c
        BY <1>4
      <4>2. q < q + s + 1 /\ q + s + 1 <= q + m /\ q + s + 1 - q = s + 1
        BY <1>2
      <4>3. q + s + 1 \in 1 .. width * c
        BY <2>1, <2>3, <4>1
      <4>4. output'[q + s + 1] =
              IF q < q + s + 1 /\ q + s + 1 <= q + m THEN bytes[q + s + 1 - q] ELSE output[q + s + 1]
        BY <1>5, <4>1, <4>3
      <4> QED BY <4>1, <4>2, <4>4
    <3>2. bytes[s + 1] \in ByteValue
      BY <1>2
    <3>3. Sample(output', 8, k * c + s) = bytes[s + 1]
      BY <2>1, <2>3, <3>1, <3>2, SampleOfByte
    <3> QED BY <1>2, <2>3, <3>3
  <2> QED BY <2>2, <2>3
<1>7. Converted(k + 1)'
  BY <1>1, <1>2, <1>6, Fixed DEF Converted
<1> QED BY <1>5, <1>7

-------------------------------------------------------------------------------
(* Lookups.                                                                    *)

\* A table that has the palette.
TableReady ==
  /\ PictureFits /\ EntriesTyped
  /\ \A i \in Indices : ColorRight(i) /\ AlphaRight(i)

LEMMA TableIsReady ==
  ASSUME TableInv, step.phase = "row", transform_fn \in Paletted
  PROVE  TableReady
BY DEF TableInv, TableReady, PaletteMemoized, ColorRight, AlphaRight, Indices

\* An entry is the color and the alpha that the reference asks for.
LEMMA EntryIsExpected ==
  ASSUME TableReady, NEW x, NEW v \in 0 .. 255, InSample(x, 0) = v, color_type = "Indexed", expand
  PROVE  /\ rgba_palette[v] \in ByteValue \X ByteValue \X ByteValue \X ByteValue
         /\ \A s \in 0 .. 3 : rgba_palette[v][s + 1] = ExpectedSample(x, s)
<1>1. v \in Indices
  BY PaletteSizeAssumption DEF Indices
<1>2. rgba_palette[v] \in ByteValue \X ByteValue \X ByteValue \X ByteValue
  BY <1>1 DEF TableReady, EntriesTyped
<1>3. \A s \in 0 .. 3 : ExpectedSample(x, s) = IF s < 3 THEN PaletteColor(v)[s + 1] ELSE PaletteAlpha(v)
  BY DEF ExpectedSample
<1>7. \A s \in 0 .. 3 : rgba_palette[v][s + 1] = IF s < 3 THEN PaletteColor(v)[s + 1] ELSE PaletteAlpha(v)
  <2>1. \A c \in 1 .. 3 : rgba_palette[v][c] = PaletteColor(v)[c]
    BY <1>1 DEF TableReady, ColorRight
  <2>2. rgba_palette[v][4] = PaletteAlpha(v)
    BY <1>1 DEF TableReady, AlphaRight
  <2>3. \A s \in 0 .. 3 : IF s < 3 THEN s + 1 \in 1 .. 3 ELSE s + 1 = 4
    OBVIOUS
  <2> QED BY <2>1, <2>2, <2>3
<1> QED BY <1>2, <1>3, <1>7

LEMMA BetweenEntries ==
  ASSUME NEW k \in Nat
  PROVE  (3 * k + 1) % 3 = 1 /\ (3 * k + 2) % 3 = 2
BY SMTT(30)

\* The one sample of the k-th pixel of a row that has one.
LEMMA SingleSample ==
  ASSUME PictureAllowed, RowFits, channels = 1, bit_depth \in {1, 2, 4, 8}, NEW k \in Nat, k = step.k, k < width
  PROVE  /\ InSample(k, 0) = Pixel
         /\ InSample(k, 0) \in 0 .. 2^bit_depth - 1 /\ 2^bit_depth - 1 \in 1 .. 255
         /\ bit_depth = 8 => row[k + 1] = InSample(k, 0) /\ k + 1 \in 1 .. RowLen
<1>1. width \in Nat /\ row \in [1 .. RowLen -> ByteValue]
  BY DEF RowFits
<1>2. RowLen = (width * bit_depth + 7) \div 8
  BY <1>1, Lengths
<1>3. (k * bit_depth) \div 8 + 1 \in 1 .. RowLen
  <2>1. CASE bit_depth = 1  BY <1>1, <1>2, <2>1
  <2>2. CASE bit_depth = 2  BY <1>1, <1>2, <2>2
  <2>3. CASE bit_depth = 4  BY <1>1, <1>2, <2>3
  <2>4. CASE bit_depth = 8  BY <1>1, <1>2, <2>4
  <2> QED BY <2>1, <2>2, <2>3, <2>4
<1>4. row[(k * bit_depth) \div 8 + 1] \in ByteValue
  BY <1>1, <1>3
<1>5. InSample(k, 0) = Sample(row, bit_depth, k)
  BY DEF InSample
<1>6. Sample(row, bit_depth, k) = Pixel
  BY DEF Sample, Pixel
<1>7. bit_depth = 8 => row[k + 1] = InSample(k, 0) /\ k + 1 \in 1 .. RowLen
  <2> SUFFICES ASSUME bit_depth = 8 PROVE row[k + 1] = InSample(k, 0) /\ k + 1 \in 1 .. RowLen
    OBVIOUS
  <2>1. (k * bit_depth) \div 8 = k
    OBVIOUS
  <2> QED BY <1>3, <1>4, <1>5, <2>1, SampleOfByte
<1>8. Sample(row, bit_depth, k) \in 0 .. 2^bit_depth - 1 /\ 2^bit_depth - 1 \in 1 .. 255
  <2>1. PICK depth \in {1, 2, 4, 8} : depth = bit_depth
    OBVIOUS
  <2>2. row[(k * depth) \div 8 + 1] \in ByteValue
    BY <1>4, <2>1
  <2>3. Sample(row, depth, k) \in 0 .. 2^depth - 1 /\ 2^depth - 1 \in 1 .. 255
    BY <2>2, SampleInRange, ZenonT(30)
  <2> QED BY <2>1, <2>3, Zenon
<1> QED BY <1>5, <1>6, <1>7, <1>8

-------------------------------------------------------------------------------
(* The functions: what each keeps while it goes through a row.                 *)

\* How far the loop is, and that everything behind it is as expected.
AtPixel(names) ==
  /\ PictureAllowed /\ RowFits /\ step.phase = "row"
  /\ transform_fn = TransformFor /\ transform_fn \in names
  /\ step.k \in Nat /\ step.k <= width /\ Converted(step.k) /\ width > 0

LEMMA GrayPixel ==
  ASSUME PictureAllowed, RowFits, color_type = "Grayscale", bit_depth \in {1, 2, 4}, OutputDepth = 8,
         step.k \in Nat, step.k < width
  PROVE  /\ Pixel * scaling_factor \in ByteValue /\ Pixel * scaling_factor = ExpectedSample(step.k, 0)
         /\ (IF is_some(picture.trns) /\ Pixel = picture.trns[1] THEN 0 ELSE 255) = ExpectedSample(step.k, 1)
<1>1. PICK k \in Nat : k = step.k
  OBVIOUS
<1>2. channels = 1
  BY DEF channels, samples
<1>3. PICK v \in 0 .. 2^bit_depth - 1 : v = Pixel /\ v = InSample(k, 0)
  BY <1>1, <1>2, SingleSample
<1>4. PICK p \in {2, 4, 16} : p = 2^bit_depth
  BY PowerOf
<1>5. v * (255 \div (p - 1)) \in 0 .. 255 /\ v * (255 \div (p - 1)) = (v * 255) \div (p - 1)
  <2>1. CASE p = 2   BY <1>3, <1>4, <2>1
  <2>2. CASE p = 4   BY <1>3, <1>4, <2>2
  <2>3. CASE p = 16  BY <1>3, <1>4, <2>3
  <2> QED BY <2>1, <2>2, <2>3
<1>6. Pixel * scaling_factor = v * (255 \div (p - 1))
  BY <1>3, <1>4 DEF scaling_factor
<1>7. Rescaled(v) = (v * 255) \div (p - 1)
  BY <1>4 DEF Rescaled
<1>8. ExpectedSample(k, 0) = Rescaled(v)
  BY <1>2, <1>3 DEF ExpectedSample
<1>9. ExpectedSample(k, 1) = IF IsTransparent(k) THEN 0 ELSE 2^OutputDepth - 1
  BY <1>2 DEF ExpectedSample
<1>10. 2^OutputDepth - 1 = 255
  BY PowerOf
<1>11. IsTransparent(k) <=> is_some(picture.trns) /\ v = picture.trns[1]
  <2>1. picture.trns \in Seq(ByteValue)
    BY DEF PictureAllowed, PictureType
  <2>2. is_some(picture.trns) <=> Len(picture.trns) = 1
    <3>1. is_some(picture.trns) => Len(picture.trns) = 1
      BY DEF PictureAllowed, TransparencyFits, color_type, bit_depth, samples
    <3>2. Len(picture.trns) = 1 => is_some(picture.trns)
      <4>1. picture.trns = << >> => Len(picture.trns) = 0
        OBVIOUS
      <4> QED BY <4>1 DEF is_some
    <3> QED BY <3>1, <3>2
  <2>3. TrnsSample(0) = picture.trns[1]
    BY DEF TrnsSample
  <2>4. 0 .. channels - 1 = {0}
    BY <1>2
  <2>5. channels * (IF bit_depth = 16 THEN 2 ELSE 1) = 1
    BY <1>2
  <2>6. IsTransparent(k) <=> Len(picture.trns) = 1 /\ InSample(k, 0) = TrnsSample(0)
    <3> DEFINE Same(s) == InSample(k, s) = TrnsSample(s)
    <3> DEFINE Bytes == channels * (IF bit_depth = 16 THEN 2 ELSE 1)
    <3>1. IsTransparent(k) <=> Len(picture.trns) = Bytes /\ \A s \in 0 .. channels - 1 : Same(s)
      BY DEF IsTransparent
    <3>4. Bytes = 1
      BY <2>5
    <3> HIDE DEF Same, Bytes
    <3>2. (\A s \in 0 .. channels - 1 : Same(s)) <=> Same(0)
      BY <2>4
    <3>3. Same(0) <=> InSample(k, 0) = TrnsSample(0)
      BY DEF Same
    <3> QED BY <3>1, <3>2, <3>3, <3>4
  <2> QED BY <1>3, <2>2, <2>3, <2>6
<1> QED BY <1>1, <1>3, <1>5, <1>6, <1>7, <1>8, <1>9, <1>10, <1>11 DEF ByteValue

\* A pixel that is looked up.
LEMMA LookedUp ==
  ASSUME PictureAllowed, RowFits, TableReady, color_type = "Indexed", expand, bit_depth \in {1, 2, 4, 8},
         step.k \in Nat, step.k < width
  PROVE  /\ rgba_palette[Pixel] \in ByteValue \X ByteValue \X ByteValue \X ByteValue
         /\ \A s \in 0 .. 3 : rgba_palette[Pixel][s + 1] = ExpectedSample(step.k, s)
         /\ bit_depth = 8 => Pixel = row[step.k + 1] /\ step.k + 1 \in 1 .. RowLen
<1>1. PICK k \in Nat : k = step.k
  OBVIOUS
<1>2. channels = 1
  BY DEF channels, samples
<1>3. /\ InSample(k, 0) = Pixel /\ Pixel \in 0 .. 2^bit_depth - 1 /\ 2^bit_depth - 1 \in 1 .. 255
      /\ bit_depth = 8 => row[k + 1] = Pixel /\ k + 1 \in 1 .. RowLen
  BY <1>1, <1>2, SingleSample
<1>4. Pixel \in 0 .. 255
  BY <1>3
<1> QED BY <1>1, <1>3, <1>4, EntryIsExpected

Unpacking == {"expand_gray_u8", "expand_gray_u8_with_trns", "expand_into_rgb8", "expand_paletted_into_rgba8"}

LEMMA EntryIsSequence ==
  ASSUME NEW e \in ByteValue \X ByteValue \X ByteValue \X ByteValue
  PROVE  e \in Seq(ByteValue) /\ Len(e) = 4 /\ DOMAIN e = 1 .. 4 /\ \A j \in 1 .. 4 : e[j] \in ByteValue
<1>1. PICK a, b, c, d : e = <<a, b, c, d>> /\ {a, b, c, d} \subseteq ByteValue
  <2>1. e = <<e[1], e[2], e[3], e[4]>> /\ {e[1], e[2], e[3], e[4]} \subseteq ByteValue
    OBVIOUS
  <2> QED BY <2>1
<1> QED BY <1>1

LEMMA UnpackedPixelIsExpected ==
  ASSUME AtPixel(Unpacking), transform_fn \in Paletted => TableReady, step.k < width
  PROVE  /\ OutChannels = OutSamples
         /\ DOMAIN UnpackedPixel = 1 .. OutChannels /\ Len(UnpackedPixel) = OutChannels
         /\ \A j \in 1 .. OutChannels : UnpackedPixel[j] \in ByteValue
         /\ \A s \in 0 .. OutChannels - 1 : UnpackedPixel[s + 1] = ExpectedSample(step.k, s)
<1>0. /\ PictureAllowed /\ RowFits /\ transform_fn = TransformFor /\ step.k \in Nat
      /\ transform_fn \in Unpacking
  BY DEF AtPixel
<1>1. CASE transform_fn = "expand_gray_u8"
  <2>1. color_type = "Grayscale" /\ bit_depth \in {1, 2, 4} /\ OutputDepth = 8 /\ OutSamples = 1
    BY <1>0, <1>1, MadeFor
  <2>2. OutChannels = 1 /\ UnpackedPixel = <<Pixel * scaling_factor>>
    BY <1>1 DEF OutChannels, UnpackedPixel
  <2>3. Pixel * scaling_factor \in ByteValue /\ Pixel * scaling_factor = ExpectedSample(step.k, 0)
    BY <1>0, <2>1, GrayPixel
  <2> QED BY <2>1, <2>2, <2>3
<1>2. CASE transform_fn = "expand_gray_u8_with_trns"
  <2>1. color_type = "Grayscale" /\ bit_depth \in {1, 2, 4} /\ OutputDepth = 8 /\ OutSamples = 2
    BY <1>0, <1>2, MadeFor
  <2>2. PICK alpha : alpha = IF is_some(picture.trns) /\ Pixel = picture.trns[1] THEN 0 ELSE 255
    OBVIOUS
  <2>3. OutChannels = 2 /\ UnpackedPixel = <<Pixel * scaling_factor, alpha>>
    BY <1>2, <2>2 DEF OutChannels, UnpackedPixel
  <2>4. /\ Pixel * scaling_factor \in ByteValue /\ Pixel * scaling_factor = ExpectedSample(step.k, 0)
        /\ alpha = ExpectedSample(step.k, 1)
    BY <1>0, <2>1, <2>2, GrayPixel
  <2>5. alpha \in ByteValue
    BY <2>2 DEF ByteValue
  <2> QED BY <2>1, <2>3, <2>4, <2>5
<1>3. CASE transform_fn \in {"expand_into_rgb8", "expand_paletted_into_rgba8"}
  <2>1. /\ color_type = "Indexed" /\ expand /\ bit_depth \in {1, 2, 4, 8}
        /\ OutSamples = IF transform_fn = "expand_into_rgb8" THEN 3 ELSE 4
    BY <1>0, <1>3, MadeFor
  <2>2. TableReady
    BY <1>3 DEF Paletted
  <2>3. PICK e \in ByteValue \X ByteValue \X ByteValue \X ByteValue :
          e = rgba_palette[Pixel] /\ \A s \in 0 .. 3 : e[s + 1] = ExpectedSample(step.k, s)
    BY <1>0, <2>1, <2>2, LookedUp
  <2>4. /\ OutChannels = OutSamples
        /\ UnpackedPixel = IF transform_fn = "expand_into_rgb8" THEN SubSeq(e, 1, 3) ELSE e
    BY <1>3, <2>1, <2>3 DEF OutChannels, UnpackedPixel
  <2>5. /\ e \in Seq(ByteValue) /\ Len(e) = 4 /\ DOMAIN e = 1 .. 4 /\ \A j \in 1 .. 4 : e[j] \in ByteValue
        /\ Len(SubSeq(e, 1, 3)) = 3 /\ DOMAIN SubSeq(e, 1, 3) = 1 .. 3
        /\ \A j \in 1 .. 3 : SubSeq(e, 1, 3)[j] = e[j]
    <3>1. e \in Seq(ByteValue) /\ Len(e) = 4 /\ \A j \in 1 .. 4 : e[j] \in ByteValue
      BY EntryIsSequence
    <3>2. Len(SubSeq(e, 1, 3)) = 3 /\ \A j \in 1 .. 3 : SubSeq(e, 1, 3)[j] = e[j]
      BY <3>1, SubSeqProperties
    <3> QED BY <3>1, <3>2
  <2>6. \A s \in 0 .. 2 : s \in 0 .. 3 /\ s + 1 \in 1 .. 3
    OBVIOUS
  <2>7. CASE transform_fn = "expand_into_rgb8"
    BY <2>1, <2>3, <2>4, <2>5, <2>6, <2>7
  <2>8. CASE transform_fn # "expand_into_rgb8"
    BY <2>1, <2>3, <2>4, <2>5, <2>8
  <2> QED BY <2>7, <2>8
<1> QED BY <1>0, <1>1, <1>2, <1>3 DEF Unpacking

LEMMA UnpackBitsKeeps ==
  ASSUME AtPixel(Unpacking), transform_fn \in Paletted => TableReady, UnpackBits, NEW k \in Nat, k = step.k
  PROVE  /\ RowFits'
         /\ \/ step' = At("row", k + 1) /\ k < width /\ Converted(k + 1)'
            \/ step' = At("done", 0) /\ k = width /\ UNCHANGED output
<1>0. /\ PictureAllowed /\ RowFits /\ transform_fn = TransformFor /\ width \in Nat /\ width > 0
      /\ transform_fn \in Unpacking /\ Converted(step.k)
  BY DEF AtPixel, RowFits
<1>1. k = step.k /\ k <= width
  BY DEF AtPixel
<1>2. PICK c \in {1, 2, 3, 4} : c = OutChannels /\ c = OutSamples
  <2>1. OutChannels = OutSamples
    BY <1>0, MadeFor DEF OutChannels, Unpacking
  <2> QED BY <1>0, <2>1, MadeFor
<1>3. bit_depth \in {1, 2, 4, 8} /\ OutputDepth = 8 /\ channels = 1
  BY <1>0, MadeFor DEF Unpacking
<1>4. OutputLineSize(width) = width * c /\ Len(output) = width * c
  <2>1. OutputLineSize(width) = width * c /\ OutputLineSize(width) \in Nat
    BY <1>0, <1>2, <1>3, Lengths
  <2> QED BY <2>1, <1>0 DEF RowFits
<1>5. RowLen = (width * bit_depth + 7) \div 8 /\ Len(row) = RowLen
  <2>1. RowLen = (width * bit_depth + 7) \div 8 /\ RowLen \in Nat
    BY <1>0, <1>3, Lengths
  <2> QED BY <2>1, <1>0 DEF RowFits
<1>6. CanUnpack
  <2>1. (8 \div bit_depth) * Len(row) >= width /\ (8 \div bit_depth) * Len(row) \in Nat
    <3>1. CASE bit_depth = 1  BY <1>0, <1>5, <3>1
    <3>2. CASE bit_depth = 2  BY <1>0, <1>5, <3>2
    <3>3. CASE bit_depth = 4  BY <1>0, <1>5, <3>3
    <3>4. CASE bit_depth = 8  BY <1>0, <1>5, <3>4
    <3> QED BY <1>3, <3>1, <3>2, <3>3, <3>4
  <2>2. PICK n \in Nat : n = Len(row)
    BY <1>0, <1>5, Lengths
  <2>3. PICK q \in Nat : q = 8 \div bit_depth
    BY <1>3
  <2>4. q * c * n = c * (q * n)
    BY <1>2
  <2>5. c * (q * n) >= c * width
    BY <1>0, <1>2, <2>1, <2>2, <2>3
  <2> QED BY <1>0, <1>2, <1>4, <2>2, <2>3, <2>4, <2>5 DEF CanUnpack
<1>7. (k + 1) * c <= width * c <=> k < width
  BY <1>0, <1>2
<1>8. CASE k < width
  <2>1. Turn(k * OutSamples, UnpackedPixel)
    BY <1>1, <1>2, <1>4, <1>6, <1>7, <1>8 DEF UnpackBits
  <2>2. /\ DOMAIN UnpackedPixel = 1 .. c /\ Len(UnpackedPixel) = c
        /\ \A j \in 1 .. c : UnpackedPixel[j] \in ByteValue
        /\ \A s \in 0 .. c - 1 : UnpackedPixel[s + 1] = ExpectedSample(k, s)
    BY <1>1, <1>2, <1>8, UnpackedPixelIsExpected
  <2>3. step' = At("row", k + 1)
    BY <1>1, <2>1 DEF Turn
  <2> HIDE DEF Turn
  <2>4. RowFits' /\ Converted(k + 1)'
    BY <1>0, <1>1, <1>2, <1>3, <1>8, <2>1, <2>2, NextPixel8
  <2> QED BY <1>1, <1>8, <2>3, <2>4
<1>9. CASE ~ (k < width)
  <2>1. Stop("done")
    BY <1>1, <1>2, <1>4, <1>6, <1>7, <1>9 DEF UnpackBits
  <2>2. RowFits'
    BY <1>0, <2>1, Fixed DEF Stop, RowFits, At
  <2>3. step' = At("done", 0) /\ UNCHANGED output
    BY <2>1 DEF Stop
  <2>4. k = width
    BY <1>0, <1>1, <1>9
  <2> QED BY <2>2, <2>3, <2>4
<1> QED BY <1>8, <1>9


LEMMA Expand8BitKeeps ==
  ASSUME AtPixel({"expand_8bit_into_rgb8"}), TableReady, Expand8Bit, NEW k \in Nat, k = step.k
  PROVE  /\ RowFits'
         /\ \/ step' = At("row", k + 1) /\ k < width /\ Converted(k + 1)'
            \/ step' = At("done", 0) /\ k = width /\ UNCHANGED output
<1>0. /\ PictureAllowed /\ RowFits /\ transform_fn = TransformFor /\ width \in Nat /\ width > 0
      /\ transform_fn = "expand_8bit_into_rgb8" /\ Converted(k) /\ k <= width
  BY DEF AtPixel, RowFits
<1>1. color_type = "Indexed" /\ expand /\ bit_depth = 8 /\ OutputDepth = 8 /\ OutSamples = 3 /\ channels = 1
  BY <1>0, MadeFor
<1>2. Len(output) = width * 3 /\ Len(row) = width
  <2>1. OutputLineSize(width) = width * 3 /\ OutputLineSize(width) \in Nat /\ RowLen = width * 1 /\ RowLen \in Nat
    BY <1>0, <1>1, Lengths
  <2> QED BY <2>1, <1>0 DEF RowFits
<1>3. CASE k < width
  <2>1. PICK e \in ByteValue \X ByteValue \X ByteValue \X ByteValue :
          e = rgba_palette[row[k + 1]] /\ \A s \in 0 .. 3 : e[s + 1] = ExpectedSample(k, s)
    BY <1>0, <1>1, <1>3, LookedUp
  <2>2. /\ e \in Seq(ByteValue) /\ Len(e) = 4 /\ DOMAIN e = 1 .. 4 /\ \A j \in 1 .. 4 : e[j] \in ByteValue
        /\ Len(SubSeq(e, 1, 3)) = 3 /\ DOMAIN SubSeq(e, 1, 3) = 1 .. 3
        /\ \A j \in 1 .. 3 : SubSeq(e, 1, 3)[j] = e[j]
    <3>1. e \in Seq(ByteValue) /\ Len(e) = 4 /\ \A j \in 1 .. 4 : e[j] \in ByteValue
      BY EntryIsSequence
    <3>2. Len(SubSeq(e, 1, 3)) = 3 /\ \A j \in 1 .. 3 : SubSeq(e, 1, 3)[j] = e[j]
      BY <3>1, SubSeqProperties
    <3> QED BY <3>1, <3>2
  <2>3. ThreeOrFourBytes = IF width * 3 - 3 * k >= 4 THEN e ELSE SubSeq(e, 1, 3)
    BY <1>2, <2>1 DEF ThreeOrFourBytes
  <2>4. PICK m \in {3, 4} : /\ Len(ThreeOrFourBytes) = m /\ DOMAIN ThreeOrFourBytes = 1 .. m
                            /\ \A j \in 1 .. m : ThreeOrFourBytes[j] = e[j] /\ e[j] \in ByteValue
                            /\ m = IF width * 3 - 3 * k >= 4 THEN 4 ELSE 3
    BY <2>2, <2>3
  <2>5. 3 * k + m <= width * 3 /\ 3 * k < width * 3
    BY <1>0, <1>3, <2>4
  <2>6. Turn(k * OutSamples, ThreeOrFourBytes)
    <3>1. 3 * k = k * OutSamples
      BY <1>1
    <3> QED BY <1>0, <1>2, <1>3, <2>4, <2>5, <3>1 DEF Expand8Bit
  <2>7. step' = At("row", k + 1)
    BY <2>6 DEF Turn
  <2>8. \A s \in 0 .. OutSamples - 1 : ThreeOrFourBytes[s + 1] = ExpectedSample(k, s)
    <3>1. \A s \in 0 .. 2 : s \in 0 .. 3 /\ s + 1 \in 1 .. m
      BY <2>4
    <3> QED BY <1>1, <2>1, <2>4, <3>1
  <2>9. m >= OutSamples /\ m \in Nat
    BY <1>1
  <2> HIDE DEF Turn
  <2>10. RowFits' /\ Converted(k + 1)'
    BY <1>0, <1>1, <1>3, <2>4, <2>6, <2>8, <2>9, NextPixel8
  <2> QED BY <1>3, <2>7, <2>10
<1>4. CASE ~ (k < width)
  <2>1. Stop("done")
    BY <1>0, <1>2, <1>4 DEF Expand8Bit
  <2>2. RowFits'
    BY <1>0, <2>1, Fixed DEF Stop, RowFits, At
  <2>3. step' = At("done", 0) /\ UNCHANGED output
    BY <2>1 DEF Stop
  <2>4. k = width
    BY <1>0, <1>4
  <2> QED BY <2>2, <2>3, <2>4
<1> QED BY <1>3, <1>4

-------------------------------------------------------------------------------
(* A colour that tRNS makes transparent.                                       *)

Expanding == {"expand_trns_line", "expand_trns_line16", "expand_trns_and_strip_line16"}

\* The k-th chunk of a row.
LEMMA ChunkIs ==
  ASSUME PictureAllowed, RowFits, color_type \in {"Grayscale", "Rgb"}, bit_depth \in {8, 16},
         NEW k \in Nat, k = step.k, k < width
  PROVE  /\ InChunk = (IF bit_depth = 16 THEN 2 * channels ELSE channels)
         /\ Chunk \in Seq(ByteValue) /\ Len(Chunk) = InChunk /\ DOMAIN Chunk = 1 .. InChunk
         /\ (k + 1) * InChunk <= Len(row)
         /\ \A j \in 1 .. InChunk : Chunk[j] = row[k * InChunk + j] /\ Chunk[j] \in ByteValue
<1>1. PICK c \in {1, 3} : c = channels
  BY DEF channels, samples
<1>2. PICK n \in {1, 2, 3, 6} : n = InChunk /\ n = IF bit_depth = 16 THEN 2 * c ELSE c
  <2>1. CASE bit_depth = 8   BY <1>1, <2>1 DEF InChunk
  <2>2. CASE bit_depth = 16  BY <1>1, <2>2 DEF InChunk
  <2> QED BY <2>1, <2>2
<1>3. width \in Nat /\ row \in [1 .. RowLen -> ByteValue]
  BY DEF RowFits
<1>4. RowLen = width * n
  <2>1. CASE bit_depth = 8
    BY <1>1, <1>2, <1>3, <2>1, Lengths
  <2>2. CASE bit_depth = 16
    <3>1. RowLen = 2 * (width * c)
      BY <1>1, <1>3, <2>2, Lengths
    <3> QED BY <1>1, <1>2, <1>3, <2>2, <3>1
  <2> QED BY <2>1, <2>2
<1>5. width * n \in Nat /\ (k + 1) * n <= width * n /\ k * n \in Nat /\ (k + 1) * n = k * n + n
  <2>1. CASE n = 1  BY <1>3, <2>1
  <2>2. CASE n = 2  BY <1>3, <2>2
  <2>3. CASE n = 3  BY <1>3, <2>3
  <2>4. CASE n = 6  BY <1>3, <2>4
  <2> QED BY <1>2, <2>1, <2>2, <2>3, <2>4
<1>6. row \in Seq(ByteValue) /\ Len(row) = width * n
  BY <1>3, <1>4, <1>5
<1>7. PICK from \in Nat : from = k * n /\ from + n <= Len(row)
  BY <1>5, <1>6
<1>8. Chunk = SubSeq(row, from + 1, from + n)
  BY <1>2, <1>7 DEF Chunk
<1>9. /\ Chunk \in Seq(ByteValue) /\ Len(Chunk) = n
      /\ \A j \in 1 .. n : Chunk[j] = row[from + j] /\ row[from + j] \in ByteValue
  <2>1. PICK m \in Int, l \in Int : m = from + 1 /\ l = from + n /\ m <= l /\ l - m + 1 = n
    BY <1>2
  <2>2. \A i \in m .. l : row[i] \in ByteValue
    <3>1. \A i \in m .. l : i \in 1 .. Len(row)
      <4>1. PICK len \in Nat : len = Len(row)
        BY <1>6, LenProperties
      <4>2. 1 <= m /\ l <= len
        BY <1>2, <1>7, <2>1, <4>1
      <4> QED BY <4>1, <4>2
    <3> QED BY <1>6, <3>1, ElementOfSeq
  <2>3. Chunk = SubSeq(row, m, l)
    BY <1>8, <2>1
  <2>4. /\ Chunk \in Seq(ByteValue) /\ Len(Chunk) = n
        /\ \A j \in 1 .. n : Chunk[j] = row[m + j - 1]
    BY <2>1, <2>2, <2>3, SubSeqProperties
  <2>5. \A j \in 1 .. n : m + j - 1 = from + j /\ from + j \in m .. l
    BY <1>2, <2>1
  <2> QED BY <2>2, <2>4, <2>5
<1> QED BY <1>1, <1>2, <1>5, <1>6, <1>7, <1>9

\* AlphaByte compares what the reference compares.
LEMMA AlphaIsExpected ==
  ASSUME PictureAllowed, RowFits, color_type \in {"Grayscale", "Rgb"}, bit_depth \in {8, 16},
         NEW k \in Nat, k = step.k, k < width
  PROVE  /\ AlphaByte = IF IsTransparent(k) THEN 0 ELSE 255
         /\ \A s \in 0 .. channels - 1 :
              InSample(k, s) = IF bit_depth = 16 THEN 256 * Chunk[2 * s + 1] + Chunk[2 * s + 2] ELSE Chunk[s + 1]
<1>1. PICK c \in {1, 3} : c = channels
  BY DEF channels, samples
<1>2. /\ Chunk \in Seq(ByteValue) /\ Len(Chunk) = IF bit_depth = 16 THEN 2 * c ELSE c
      /\ \A j \in 1 .. Len(Chunk) : Chunk[j] = row[k * InChunk + j] /\ Chunk[j] \in ByteValue
      /\ InChunk = IF bit_depth = 16 THEN 2 * c ELSE c
  BY <1>1, ChunkIs
<1>3. picture.trns \in Seq(ByteValue)
  BY DEF PictureAllowed, PictureType
<1>4. Chunk = picture.trns <=>
        Len(picture.trns) = Len(Chunk) /\ \A j \in 1 .. Len(Chunk) : Chunk[j] = picture.trns[j]
  BY <1>2, <1>3, SeqEqual
<1>5. AlphaByte = IF Chunk = picture.trns THEN 0 ELSE 255
  BY DEF AlphaByte
<1>6. \A s \in 0 .. c - 1 :
        InSample(k, s) = IF bit_depth = 16 THEN 256 * Chunk[2 * s + 1] + Chunk[2 * s + 2] ELSE Chunk[s + 1]
  <2> TAKE s \in 0 .. c - 1
  <2>1. PICK n \in Nat : n = k * c + s
    BY <1>1
  <2>2. InSample(k, s) = Sample(row, bit_depth, n)
    BY <1>1, <2>1 DEF InSample
  <2>3. CASE bit_depth = 8
    <3>0. InChunk = c /\ Len(Chunk) = c
      BY <1>2, <2>3
    <3>1. s + 1 \in 1 .. Len(Chunk) /\ k * InChunk + (s + 1) = n + 1
      <4>1. CASE c = 1  BY <2>1, <3>0, <4>1
      <4>2. CASE c = 3  BY <2>1, <3>0, <4>2
      <4> QED BY <1>1, <4>1, <4>2
    <3>2. row[n + 1] = Chunk[s + 1] /\ row[n + 1] \in ByteValue
      BY <1>2, <3>1
    <3> QED BY <2>2, <2>3, <3>2, SampleOfByte
  <2>4. CASE bit_depth = 16
    <3>1. /\ 2 * s + 1 \in 1 .. Len(Chunk) /\ k * InChunk + (2 * s + 1) = 2 * n + 1
          /\ 2 * s + 2 \in 1 .. Len(Chunk) /\ k * InChunk + (2 * s + 2) = 2 * n + 2
      <4>0. InChunk = 2 * c /\ Len(Chunk) = 2 * c
        BY <1>2, <2>4
      <4>1. CASE c = 1  BY <2>1, <4>0, <4>1
      <4>2. CASE c = 3  BY <2>1, <4>0, <4>2
      <4> QED BY <1>1, <4>1, <4>2
    <3>2. row[2 * n + 1] = Chunk[2 * s + 1] /\ row[2 * n + 2] = Chunk[2 * s + 2]
      <4>1. PICK p, q : p = 2 * s + 1 /\ q = 2 * s + 2
        OBVIOUS
      <4>2. p \in 1 .. Len(Chunk) /\ q \in 1 .. Len(Chunk)
        BY <3>1, <4>1
      <4>3. Chunk[p] = row[k * InChunk + p] /\ Chunk[q] = row[k * InChunk + q]
        BY <1>2, <4>2
      <4>4. k * InChunk + p = 2 * n + 1 /\ k * InChunk + q = 2 * n + 2
        BY <3>1, <4>1
      <4> QED BY <4>1, <4>3, <4>4
    <3> QED BY <2>2, <2>4, <3>2 DEF Sample
  <2> QED BY <2>3, <2>4
<1>7. IsTransparent(k) <=> Chunk = picture.trns
  <2> DEFINE Same(s) == InSample(k, s) = TrnsSample(s)
             Bytes == channels * (IF bit_depth = 16 THEN 2 ELSE 1)
  <2>1. IsTransparent(k) <=> Len(picture.trns) = Bytes /\ \A s \in 0 .. channels - 1 : Same(s)
    BY DEF IsTransparent
  <2>2. Bytes = Len(Chunk)
    BY <1>1, <1>2
  <2>3. Len(picture.trns) = Len(Chunk) =>
          ((\A s \in 0 .. c - 1 : Same(s)) <=> \A j \in 1 .. Len(Chunk) : Chunk[j] = picture.trns[j])
    <3> HIDE DEF Bytes
    <3> SUFFICES ASSUME Len(picture.trns) = Len(Chunk)
                 PROVE (\A s \in 0 .. c - 1 : Same(s)) <=> \A j \in 1 .. Len(Chunk) : Chunk[j] = picture.trns[j]
      OBVIOUS
    <3>1. \A j \in 1 .. Len(Chunk) : picture.trns[j] \in ByteValue
      BY <1>3
    <3>2. CASE bit_depth = 8
      <4>1. \A s \in 0 .. c - 1 : Same(s) <=> Chunk[s + 1] = picture.trns[s + 1]
        BY <1>6, <3>2 DEF TrnsSample
      <4> HIDE DEF Same
      <4>2. Len(Chunk) = c
        BY <1>2, <3>2
      <4>3. \A j \in 1 .. c : j - 1 \in 0 .. c - 1 /\ (j - 1) + 1 = j
        BY <1>1
      <4>4. \A s \in 0 .. c - 1 : s + 1 \in 1 .. c
        BY <1>1
      <4> QED BY <4>1, <4>2, <4>3, <4>4
    <3>3. CASE bit_depth = 16
      <4>2. Len(Chunk) = 2 * c
        BY <1>2, <3>3
      <4>1. \A s \in 0 .. c - 1 :
              Same(s) <=> Chunk[2 * s + 1] = picture.trns[2 * s + 1] /\ Chunk[2 * s + 2] = picture.trns[2 * s + 2]
        <5> TAKE s \in 0 .. c - 1
        <5>1. 2 * s + 1 \in 1 .. Len(Chunk) /\ 2 * s + 2 \in 1 .. Len(Chunk)
          BY <1>1, <4>2
        <5>2. PICK a, b, d, e \in ByteValue : /\ a = Chunk[2 * s + 1] /\ b = Chunk[2 * s + 2]
                                              /\ d = picture.trns[2 * s + 1] /\ e = picture.trns[2 * s + 2]
          BY <1>2, <3>1, <5>1
        <5>3. Same(s) <=> 256 * a + b = 256 * d + e
          BY <1>6, <3>3, <5>2 DEF TrnsSample, Sample
        <5>4. 256 * a + b = 256 * d + e <=> a = d /\ b = e
          BY DEF ByteValue
        <5> QED BY <5>2, <5>3, <5>4
      <4> HIDE DEF Same
      <4>3. \A j \in 1 .. 2 * c : \E s \in 0 .. c - 1 : j = 2 * s + 1 \/ j = 2 * s + 2
        <5>1. CASE c = 1
          BY <5>1
        <5>2. CASE c = 3
          <6>1. {0, 1, 2} = 0 .. c - 1
            BY <5>2
          <6>2. \A j \in 1 .. 2 * c : \E s \in {0, 1, 2} : j = 2 * s + 1 \/ j = 2 * s + 2
            BY <5>2
          <6> QED BY <6>1, <6>2
        <5> QED BY <5>1, <5>2
      <4>4. \A s \in 0 .. c - 1 : 2 * s + 1 \in 1 .. 2 * c /\ 2 * s + 2 \in 1 .. 2 * c
        BY <1>1
      <4>5. ASSUME \A s \in 0 .. c - 1 : Same(s), NEW j \in 1 .. 2 * c PROVE Chunk[j] = picture.trns[j]
        BY <4>1, <4>3, <4>5
      <4>6. ASSUME \A j \in 1 .. 2 * c : Chunk[j] = picture.trns[j], NEW s \in 0 .. c - 1 PROVE Same(s)
        BY <4>1, <4>4, <4>6
      <4> QED BY <4>2, <4>5, <4>6
    <3> QED BY <3>2, <3>3
  <2> HIDE DEF Same, Bytes
  <2> QED BY <1>1, <1>4, <2>1, <2>2, <2>3
<1> QED BY <1>1, <1>5, <1>6, <1>7

LEMMA NextPixel16 ==
  ASSUME PictureAllowed, RowFits, OutputDepth = 16, NEW k \in Nat, k < width, Converted(k),
         NEW bytes, NEW m \in Nat, DOMAIN bytes = 1 .. m, Len(bytes) = m, m = 2 * OutSamples,
         \A j \in 1 .. m : bytes[j] \in ByteValue,
         \A s \in 0 .. OutSamples - 1 : 256 * bytes[2 * s + 1] + bytes[2 * s + 2] = ExpectedSample(k, s),
         Turn(k * m, bytes)
  PROVE  RowFits' /\ Converted(k + 1)'
<1>1. UNCHANGED <<picture, row, width>> /\ width \in Nat
  BY DEF Turn, RowFits
<1>2. PICK c \in {1, 2, 3, 4} : c = OutSamples
  BY MadeFor
<1>3. OutputLineSize(width) = 2 * (width * c) /\ m = 2 * c
  BY <1>1, <1>2, Lengths
<1>4. PICK from \in Nat : from = k * m /\ from = 2 * (k * c)
  <2>1. k * (2 * c) = 2 * (k * c) /\ 2 * (k * c) \in Nat
    BY <1>2
  <2> QED BY <1>3, <2>1
<1>5. /\ RowFits'
      /\ \A i \in 1 .. 2 * (width * c) :
           output'[i] = IF from < i /\ i <= from + m THEN bytes[i - from] ELSE output[i]
  <2>1. Turn(from, bytes)
    BY <1>4
  <2> HIDE DEF Turn
  <2>2. width > 0
    BY <1>1
  <2> QED BY <1>3, <2>1, <2>2, TurnWrites
<1>6. ASSUME NEW x \in 0 .. k, NEW s \in 0 .. c - 1
      PROVE  Sample(output', 16, x * c + s) = ExpectedSample(x, s)
  <2>1. PICK n \in Nat : n = x * c + s /\ n < width * c
    BY <1>1, <1>2
  <2>2. 2 * n + 1 \in 1 .. 2 * (width * c) /\ 2 * n + 2 \in 1 .. 2 * (width * c)
    BY <1>1, <1>2, <2>1
  <2>3. Sample(output', 16, n) = 256 * output'[2 * n + 1] + output'[2 * n + 2]
    BY DEF Sample
  <2>4. CASE x < k
    <3>1. 2 * n + 2 <= from
      BY <1>2, <1>4, <2>1, <2>4
    <3>2. output'[2 * n + 1] = output[2 * n + 1] /\ output'[2 * n + 2] = output[2 * n + 2]
      <4>1. PICK p, q : p = 2 * n + 1 /\ q = 2 * n + 2
        OBVIOUS
      <4>2. p \in 1 .. 2 * (width * c) /\ q \in 1 .. 2 * (width * c) /\ ~ (from < p) /\ ~ (from < q)
        BY <2>2, <3>1, <4>1
      <4> QED BY <1>5, <4>1, <4>2
    <3>3. Sample(output, 16, n) = ExpectedSample(x, s)
      BY <1>2, <2>1, <2>4 DEF Converted
    <3> QED BY <2>1, <2>3, <3>2, <3>3 DEF Sample
  <2>5. CASE x = k
    <3>1. output'[2 * n + 1] = bytes[2 * s + 1] /\ output'[2 * n + 2] = bytes[2 * s + 2]
      <4>1. PICK p, q : p = 2 * n + 1 /\ q = 2 * n + 2
        OBVIOUS
      <4>2. n = k * c + s
        BY <2>1, <2>5
      <4>3. /\ p - from = 2 * s + 1 /\ q - from = 2 * s + 2
            /\ from < p /\ from < q /\ p <= from + m /\ q <= from + m
        BY <1>2, <1>3, <1>4, <4>1, <4>2
      <4>4. p \in 1 .. 2 * (width * c) /\ q \in 1 .. 2 * (width * c)
        BY <2>2, <4>1
      <4>5. output'[p] = bytes[p - from] /\ output'[q] = bytes[q - from]
        BY <1>5, <4>3, <4>4
      <4> QED BY <4>1, <4>3, <4>5
    <3> QED BY <1>2, <2>1, <2>3, <2>5, <3>1
  <2> QED BY <2>4, <2>5
<1>7. Converted(k + 1)'
  BY <1>1, <1>2, <1>6, Fixed DEF Converted
<1> QED BY <1>5, <1>7

LEMMA ExpectedWithAlpha ==
  ASSUME PictureAllowed, color_type \in {"Grayscale", "Rgb"}, OutputDepth \in {8, 16},
         bit_depth \in {OutputDepth, 16}, NEW k
  PROVE  /\ \A s \in 0 .. channels - 1 :
              ExpectedSample(k, s) = IF bit_depth = OutputDepth THEN InSample(k, s) ELSE InSample(k, s) \div 256
         /\ ExpectedSample(k, channels) = IF IsTransparent(k) THEN 0 ELSE IF OutputDepth = 8 THEN 255 ELSE 65535
<1>1. channels \in {1, 3}
  BY DEF channels, samples
<1>2. \A s \in 0 .. channels - 1 : ExpectedSample(k, s) = Rescaled(InSample(k, s))
  BY <1>1 DEF ExpectedSample
<1>3. \A v : Rescaled(v) = IF bit_depth = OutputDepth THEN v ELSE v \div 256
  BY DEF Rescaled
<1>4. ExpectedSample(k, channels) = IF IsTransparent(k) THEN 0 ELSE 2^OutputDepth - 1
  BY <1>1 DEF ExpectedSample
<1>5. 2^OutputDepth - 1 = IF OutputDepth = 8 THEN 255 ELSE 65535
  <2>1. \A n : n = 8 => 2^n = 256
    OBVIOUS
  <2>2. \A n : n = 16 => 2^n = 65536
    OBVIOUS
  <2>3. CASE OutputDepth = 8
    BY <2>1, <2>3
  <2>4. CASE OutputDepth = 16
    BY <2>2, <2>4
  <2> QED BY <2>3, <2>4
<1> QED BY <1>2, <1>3, <1>4, <1>5

\* One byte, or one byte twice, behind the bytes of a pixel.
LEMMA WithAlphaBehind ==
  ASSUME NEW bytes \in Seq(ByteValue), NEW alpha \in Seq(ByteValue), NEW m \in Nat,
         m = Len(bytes) + Len(alpha)
  PROVE  /\ DOMAIN (bytes \o alpha) = 1 .. m /\ Len(bytes \o alpha) = m
         /\ \A j \in 1 .. m : /\ (bytes \o alpha)[j] \in ByteValue
                              /\ (bytes \o alpha)[j] = IF j <= Len(bytes) THEN bytes[j] ELSE alpha[j - Len(bytes)]
<1>1. /\ bytes \o alpha \in Seq(ByteValue) /\ Len(bytes \o alpha) = m
      /\ \A j \in 1 .. m : (bytes \o alpha)[j] = IF j <= Len(bytes) THEN bytes[j] ELSE alpha[j - Len(bytes)]
  BY ConcatProperties
<1> QED BY <1>1, ElementOfSeq

\* What is put out for the k-th pixel.
LEMMA ExpandedChunkIsExpected ==
  ASSUME AtPixel(Expanding), NEW k \in Nat, k = step.k, k < width
  PROVE  /\ OutChunk \in Nat /\ OutChunk = (IF OutputDepth = 16 THEN 2 * OutSamples ELSE OutSamples)
         /\ OutputDepth \in {8, 16} /\ OutSamples \in {2, 4}
         /\ DOMAIN ExpandedChunk = 1 .. OutChunk /\ Len(ExpandedChunk) = OutChunk
         /\ \A j \in 1 .. OutChunk : ExpandedChunk[j] \in ByteValue
         /\ OutputDepth = 8 =>
              \A s \in 0 .. OutSamples - 1 : ExpandedChunk[s + 1] = ExpectedSample(k, s)
         /\ OutputDepth = 16 =>
              \A s \in 0 .. OutSamples - 1 :
                256 * ExpandedChunk[2 * s + 1] + ExpandedChunk[2 * s + 2] = ExpectedSample(k, s)
<1>0. /\ PictureAllowed /\ RowFits /\ transform_fn = TransformFor /\ transform_fn \in Expanding
  BY DEF AtPixel
<1>1. /\ color_type \in {"Grayscale", "Rgb"} /\ bit_depth \in {8, 16} /\ OutputDepth \in {8, 16}
      /\ bit_depth \in {OutputDepth, 16} /\ OutSamples = channels + 1
  BY <1>0, MadeFor DEF Expanding
<1>2. PICK c \in {1, 3} : c = channels
  BY <1>1 DEF channels, samples
<1>3. PICK a \in {0, 255} : a = AlphaByte /\ a = IF IsTransparent(k) THEN 0 ELSE 255
  BY <1>0, <1>1, AlphaIsExpected
<1>4. PICK chunk \in Seq(ByteValue) :
        /\ chunk = Chunk /\ Len(chunk) = IF bit_depth = 16 THEN 2 * c ELSE c
        /\ \A s \in 0 .. c - 1 :
             InSample(k, s) = IF bit_depth = 16 THEN 256 * chunk[2 * s + 1] + chunk[2 * s + 2] ELSE chunk[s + 1]
  BY <1>0, <1>1, <1>2, ChunkIs, AlphaIsExpected
<1>5. /\ \A s \in 0 .. c - 1 :
           ExpectedSample(k, s) = IF bit_depth = OutputDepth THEN InSample(k, s) ELSE InSample(k, s) \div 256
      /\ ExpectedSample(k, c) = IF a = 0 THEN 0 ELSE IF OutputDepth = 8 THEN 255 ELSE 65535
  BY <1>0, <1>1, <1>2, <1>3, ExpectedWithAlpha
<1>6. /\ <<a>> \in Seq(ByteValue) /\ Len(<<a>>) = 1 /\ <<a>>[1] = a
      /\ <<a, a>> \in Seq(ByteValue) /\ Len(<<a, a>>) = 2 /\ <<a, a>>[1] = a /\ <<a, a>>[2] = a
  BY DEF ByteValue
<1>7. CASE transform_fn = "expand_trns_line"
  <2>1. bit_depth = 8 /\ OutputDepth = 8
    BY <1>0, <1>7, MadeFor
  <2>2. OutChunk = c + 1 /\ ExpandedChunk = chunk \o <<a>>
    BY <1>2, <1>3, <1>4, <1>7 DEF OutChunk, ExpandedChunk
  <2>3. PICK out : out = chunk \o <<a>>
    OBVIOUS
  <2>4. /\ DOMAIN out = 1 .. c + 1 /\ Len(out) = c + 1
        /\ \A j \in 1 .. c + 1 : out[j] \in ByteValue /\ out[j] = IF j <= c THEN chunk[j] ELSE <<a>>[j - c]
    <3>1. c + 1 \in Nat /\ Len(chunk) = c
      BY <1>4, <2>1
    <3> QED BY <1>6, <2>3, <3>1, WithAlphaBehind
  <2>5. ASSUME NEW s \in 0 .. c PROVE out[s + 1] = ExpectedSample(k, s)
    <3>1. CASE s < c
      <4>1. PICK j \in 1 .. c + 1 : j = s + 1 /\ j <= c
        BY <3>1
      <4> QED BY <1>4, <1>5, <2>1, <2>4, <3>1, <4>1
    <3>2. CASE s = c
      <4>1. PICK j \in 1 .. c + 1 : j = s + 1 /\ ~ (j <= c) /\ j - c = 1
        BY <3>2
      <4>2. out[j] = a
        BY <1>6, <2>4, <4>1
      <4> QED BY <1>5, <2>1, <3>2, <4>1, <4>2
    <3> QED BY <3>1, <3>2
  <2> QED BY <1>1, <1>2, <2>1, <2>2, <2>3, <2>4, <2>5
<1>8. CASE transform_fn = "expand_trns_line16"
  <2>1. bit_depth = 16 /\ OutputDepth = 16
    BY <1>0, <1>8, MadeFor
  <2>2. OutChunk = 2 * c + 2 /\ ExpandedChunk = chunk \o <<a, a>>
    BY <1>2, <1>3, <1>4, <1>8 DEF OutChunk, ExpandedChunk
  <2>3. PICK out : out = chunk \o <<a, a>>
    OBVIOUS
  <2>4. /\ DOMAIN out = 1 .. 2 * c + 2 /\ Len(out) = 2 * c + 2
        /\ \A j \in 1 .. 2 * c + 2 :
             out[j] \in ByteValue /\ out[j] = IF j <= 2 * c THEN chunk[j] ELSE <<a, a>>[j - 2 * c]
    <3>1. 2 * c + 2 \in Nat /\ Len(chunk) = 2 * c
      BY <1>4, <2>1
    <3> QED BY <1>6, <2>3, <3>1, WithAlphaBehind
  <2>5. ASSUME NEW s \in 0 .. c PROVE 256 * out[2 * s + 1] + out[2 * s + 2] = ExpectedSample(k, s)
    <3>0. PICK i \in 1 .. 2 * c + 2, j \in 1 .. 2 * c + 2 : i = 2 * s + 1 /\ j = 2 * s + 2
      OBVIOUS
    <3>1. CASE s < c
      <4>1. i <= 2 * c /\ j <= 2 * c
        BY <3>0, <3>1
      <4>2. out[i] = chunk[i] /\ out[j] = chunk[j]
        BY <2>4, <4>1
      <4> QED BY <1>4, <1>5, <2>1, <3>0, <3>1, <4>2
    <3>2. CASE s = c
      <4>1. ~ (i <= 2 * c) /\ ~ (j <= 2 * c) /\ i - 2 * c = 1 /\ j - 2 * c = 2
        BY <3>0, <3>2
      <4>2. out[i] = a /\ out[j] = a
        BY <1>6, <2>4, <4>1
      <4> QED BY <1>5, <2>1, <3>0, <3>2, <4>2
    <3> QED BY <3>1, <3>2
  <2>6. 2 * OutSamples = 2 * c + 2 /\ OutSamples - 1 = c /\ OutSamples \in {2, 4} /\ 2 * c + 2 \in Nat
    BY <1>1, <1>2
  <2>7. \A s \in 0 .. OutSamples - 1 : 256 * out[2 * s + 1] + out[2 * s + 2] = ExpectedSample(k, s)
    BY <2>5, <2>6
  <2>8. ExpandedChunk = out /\ OutChunk = 2 * c + 2
    BY <2>2, <2>3
  <2> QED BY <2>1, <2>4, <2>6, <2>7, <2>8
<1>9. CASE transform_fn = "expand_trns_and_strip_line16"
  <2>1. bit_depth = 16 /\ OutputDepth = 8
    BY <1>0, <1>9, MadeFor
  <2>2. PICK high \in Seq(ByteValue) :
          high = HighBytes(chunk) /\ Len(high) = c /\ \A j \in 1 .. c : high[j] = chunk[2 * j - 1]
    <3>1. Len(chunk) = 2 * c /\ c \in Nat
      BY <1>4, <2>1
    <3>2. \A j \in 1 .. c : chunk[2 * j - 1] \in ByteValue
      <4> TAKE j \in 1 .. c
      <4>1. 2 * j - 1 \in 1 .. Len(chunk)
        BY <3>1
      <4> QED BY <4>1, ElementOfSeq
    <3>3. HighBytes(chunk) = [j \in 1 .. c |-> chunk[2 * j - 1]]
      BY <1>2 DEF HighBytes
    <3>4. HighBytes(chunk) \in Seq(ByteValue)
      BY <3>1, <3>2, <3>3
    <3> QED BY <3>1, <3>3, <3>4
  <2>3. OutChunk = c + 1 /\ ExpandedChunk = high \o <<a>>
    BY <1>2, <1>3, <1>4, <1>9, <2>2 DEF OutChunk, ExpandedChunk
  <2>4. PICK out : out = high \o <<a>>
    OBVIOUS
  <2>5. /\ DOMAIN out = 1 .. c + 1 /\ Len(out) = c + 1
        /\ \A j \in 1 .. c + 1 : out[j] \in ByteValue /\ out[j] = IF j <= c THEN high[j] ELSE <<a>>[j - c]
    <3>1. c + 1 \in Nat
      OBVIOUS
    <3> QED BY <1>6, <2>2, <2>4, <3>1, WithAlphaBehind
  <2>6. ASSUME NEW s \in 0 .. c PROVE out[s + 1] = ExpectedSample(k, s)
    <3>1. CASE s < c
      <4>1. PICK j \in 1 .. c : j = s + 1 /\ 2 * j - 1 = 2 * s + 1 /\ j <= c
        BY <3>1
      <4>2. out[j] = chunk[2 * s + 1]
        BY <2>2, <2>5, <4>1
      <4>3. PICK h \in ByteValue, l \in ByteValue : h = chunk[2 * s + 1] /\ l = chunk[2 * s + 2]
        <5>1. Len(chunk) = 2 * c
          BY <1>4, <2>1
        <5>2. 2 * s + 1 \in 1 .. Len(chunk) /\ 2 * s + 2 \in 1 .. Len(chunk)
          BY <3>1, <5>1
        <5> QED BY <5>2, ElementOfSeq
      <4>4. (256 * h + l) \div 256 = h
        BY DEF ByteValue
      <4>5. ExpectedSample(k, s) = (256 * h + l) \div 256
        BY <1>4, <1>5, <2>1, <3>1, <4>3
      <4> QED BY <4>1, <4>2, <4>3, <4>4, <4>5
    <3>2. CASE s = c
      <4>1. PICK j \in 1 .. c + 1 : j = s + 1 /\ ~ (j <= c) /\ j - c = 1
        BY <3>2
      <4>2. out[j] = a
        BY <1>6, <2>5, <4>1
      <4> QED BY <1>5, <2>1, <3>2, <4>1, <4>2
    <3> QED BY <3>1, <3>2
  <2> QED BY <1>1, <1>2, <2>1, <2>3, <2>4, <2>5, <2>6
<1> QED BY <1>0, <1>7, <1>8, <1>9 DEF Expanding

LEMMA ExpandTrnsKeeps ==
  ASSUME AtPixel(Expanding), ExpandTrns, NEW k \in Nat, k = step.k
  PROVE  /\ RowFits'
         /\ \/ step' = At("row", k + 1) /\ k < width /\ Converted(k + 1)'
            \/ step' = At("done", 0) /\ k = width /\ UNCHANGED output
<1>0. /\ PictureAllowed /\ RowFits /\ transform_fn = TransformFor /\ width \in Nat /\ width > 0
      /\ transform_fn \in Expanding /\ Converted(k) /\ k <= width
  BY DEF AtPixel, RowFits
<1>1. /\ color_type \in {"Grayscale", "Rgb"} /\ bit_depth \in {8, 16} /\ OutputDepth \in {8, 16}
      /\ OutSamples = channels + 1
      /\ OutputDepth = 16 <=> transform_fn = "expand_trns_line16"
  BY <1>0, MadeFor DEF Expanding
<1>2. PICK c \in {1, 3} : c = channels
  BY <1>1 DEF channels, samples
<1>3. PICK m \in {2, 4, 8} : m = OutChunk /\ m = IF OutputDepth = 16 THEN 2 * OutSamples ELSE OutSamples
  BY <1>0, <1>1, <1>2 DEF OutChunk, Expanding
<1>4. PICK n \in {1, 2, 3, 6} : n = InChunk /\ n = IF bit_depth = 16 THEN 2 * c ELSE c
  <2>1. CASE bit_depth = 8   BY <1>2, <2>1 DEF InChunk
  <2>2. CASE bit_depth = 16  BY <1>2, <2>2 DEF InChunk
  <2> QED BY <1>1, <2>1, <2>2
<1>5. Len(output) = width * m
  <2>1. OutputLineSize(width) \in Nat /\ OutputLineSize(width) = width * m
    <3>1. CASE OutputDepth = 8
      BY <1>0, <1>3, <3>1, Lengths
    <3>2. CASE OutputDepth = 16
      <4>1. OutputLineSize(width) = 2 * (width * OutSamples) /\ OutputLineSize(width) \in Nat
        BY <1>0, <3>2, Lengths
      <4>2. m = 2 * OutSamples
        BY <1>3, <3>2
      <4>3. PICK o \in {2, 4} : o = OutSamples
        BY <1>1, <1>2
      <4>4. 2 * (width * o) = width * (2 * o)
        BY <1>0
      <4> QED BY <4>1, <4>2, <4>3, <4>4
    <3> QED BY <1>1, <3>1, <3>2
  <2> QED BY <2>1, <1>0 DEF RowFits
<1>6. Len(row) = width * n
  <2>1. RowLen \in Nat /\ RowLen = width * n
    <3>1. CASE bit_depth = 8
      BY <1>0, <1>2, <1>4, <3>1, Lengths
    <3>2. CASE bit_depth = 16
      <4>1. RowLen = 2 * (width * c) /\ RowLen \in Nat
        BY <1>0, <1>2, <3>2, Lengths
      <4>2. 2 * (width * c) = width * (2 * c)
        BY <1>0
      <4> QED BY <1>4, <3>2, <4>1, <4>2
    <3> QED BY <1>1, <3>1, <3>2
  <2> QED BY <2>1, <1>0 DEF RowFits
<1>7. /\ (k + 1) * n <= width * n <=> k < width
      /\ (k + 1) * m <= width * m <=> k < width
  <2>1. \A q \in {1, 2, 3, 4, 6, 8} : (k + 1) * q <= width * q <=> k < width
    BY <1>0
  <2> QED BY <2>1
<1>8. CASE k < width
  <2>1. Turn(k * m, ExpandedChunk)
    BY <1>3, <1>4, <1>5, <1>6, <1>7, <1>8 DEF ExpandTrns
  <2>2. step' = At("row", k + 1)
    BY <2>1 DEF Turn
  <2>3. /\ DOMAIN ExpandedChunk = 1 .. m /\ Len(ExpandedChunk) = m
        /\ \A j \in 1 .. m : ExpandedChunk[j] \in ByteValue
        /\ OutputDepth = 8 =>
             \A s \in 0 .. OutSamples - 1 : ExpandedChunk[s + 1] = ExpectedSample(k, s)
        /\ OutputDepth = 16 =>
             \A s \in 0 .. OutSamples - 1 :
               256 * ExpandedChunk[2 * s + 1] + ExpandedChunk[2 * s + 2] = ExpectedSample(k, s)
    BY <1>3, <1>8, ExpandedChunkIsExpected
  <2>4. m \in Nat
    OBVIOUS
  <2> HIDE DEF Turn
  <2>5. CASE OutputDepth = 8
    <3>1. m = OutSamples /\ m >= OutSamples
      BY <1>3, <2>5
    <3>2. Turn(k * OutSamples, ExpandedChunk)
      BY <2>1, <3>1
    <3>3. RowFits' /\ Converted(k + 1)'
      BY <1>0, <1>8, <2>3, <2>4, <2>5, <3>1, <3>2, NextPixel8
    <3> QED BY <1>8, <2>2, <3>3
  <2>6. CASE OutputDepth = 16
    <3>1. m = 2 * OutSamples
      BY <1>3, <2>6
    <3>2. RowFits' /\ Converted(k + 1)'
      BY <1>0, <1>8, <2>1, <2>3, <2>4, <2>6, <3>1, NextPixel16
    <3> QED BY <1>8, <2>2, <3>2
  <2> QED BY <1>1, <2>5, <2>6
<1>9. CASE ~ (k < width)
  <2>1. Stop("done")
    BY <1>3, <1>4, <1>5, <1>6, <1>7, <1>9 DEF ExpandTrns
  <2>2. RowFits'
    BY <1>0, <2>1, Fixed DEF Stop, RowFits, At
  <2>3. step' = At("done", 0) /\ UNCHANGED output
    BY <2>1 DEF Stop
  <2>4. k = width
    BY <1>0, <1>9
  <2> QED BY <2>2, <2>3, <2>4
<1> QED BY <1>8, <1>9


-------------------------------------------------------------------------------
(* A row as a whole.                                                           *)

\* Every sample of the row is as expected.
RowConverted == Converted(width)

LEMMA CopyRowKeeps ==
  ASSUME PictureAllowed, RowFits, step.phase = "row", transform_fn = TransformFor, CopyRow, width > 0,
         NEW k \in Nat, k = step.k, Progress
  PROVE  /\ RowFits'
         /\ \/ step' = At("row", k + 1) /\ k = 0 /\ output' = row
            \/ step' = At("done", 0) /\ UNCHANGED output /\ RowConverted
<1>0. width \in Nat /\ transform_fn = "copy_row"
  BY DEF RowFits, CopyRow, Transforming
<1>1. /\ OutputColor = color_type /\ OutputDepth = bit_depth /\ OutSamples = channels
      /\ channels \in 1 .. 4 /\ OutputBits = channels * bit_depth /\ ~ (color_type = "Indexed" /\ expand)
  <2>1. OutputColor = color_type /\ OutputDepth = bit_depth /\ ~ (color_type = "Indexed" /\ expand)
    BY <1>0, MadeFor
  <2>2. OutSamples = channels
    BY <2>1 DEF OutSamples, channels
  <2> QED BY <2>1, <2>2, MadeFor
<1>2. RowLen \in Nat /\ OutputLineSize(width) = RowLen
  BY <1>0, <1>1, Lengths
<1>3. Len(row) = RowLen /\ Len(output) = RowLen /\ DOMAIN output = 1 .. RowLen /\ DOMAIN row = 1 .. RowLen
  BY <1>2 DEF RowFits
<1>4. CASE k = 0
  <2>1. Turn(0, row)
    BY <1>3, <1>4 DEF CopyRow
  <2>2. step' = At("row", k + 1) /\ UNCHANGED <<picture, row, width>>
    BY <2>1 DEF Turn
  <2>3. output' = row
    <3>1. output' = [i \in 1 .. RowLen |-> IF 0 < i /\ i <= 0 + RowLen THEN row[i - 0] ELSE output[i]]
      BY <1>3, <2>1 DEF Turn, Overwritten
    <3>2. \A i \in 1 .. RowLen : 0 < i /\ i <= 0 + RowLen /\ i - 0 = i
      BY <1>2
    <3>3. row = [i \in 1 .. RowLen |-> row[i]]
      BY DEF RowFits
    <3> QED BY <3>1, <3>2, <3>3
  <2>4. RowFits'
    <3>1. row \in [1 .. OutputLineSize(width) -> ByteValue \cup {Unset}]
      BY <1>2 DEF RowFits
    <3>2. row' \in [1 .. RowLen' -> ByteValue] /\ width' > 0 /\ width' \in Nat
      BY <1>0, <2>2, Fixed DEF RowFits
    <3>3. output' \in [1 .. OutputLineSize(width)' -> ByteValue \cup {Unset}]
      BY <2>2, <2>3, <3>1, Fixed
    <3> QED BY <3>2, <3>3 DEF RowFits
  <2> QED BY <1>4, <2>2, <2>3, <2>4
<1>5. CASE k # 0
  <2>1. Stop("done")
    BY <1>5 DEF CopyRow
  <2>2. RowFits'
    BY <1>0, <2>1, Fixed DEF Stop, RowFits, At
  <2>3. output = row
    BY <1>0, <1>5 DEF Progress
  <2>4. ASSUME NEW x \in 0 .. width - 1, NEW s \in 0 .. OutSamples - 1
        PROVE  Sample(output, OutputDepth, x * OutSamples + s) = ExpectedSample(x, s)
    <3>1. s < channels
      BY <1>1
    <3>2. ExpectedSample(x, s) = Rescaled(InSample(x, s))
      BY <1>1, <3>1 DEF ExpectedSample
    <3>3. Rescaled(InSample(x, s)) = InSample(x, s)
      <4>1. bit_depth \in {1, 2, 4, 8, 16}
        BY MadeFor
      <4> QED BY <1>1, <4>1 DEF Rescaled
    <3> QED BY <1>1, <2>3, <3>2, <3>3 DEF InSample
  <2> QED BY <2>1, <2>2, <2>4 DEF Stop, RowConverted, Converted
<1> QED BY <1>4, <1>5

LEMMA StripKeeps ==
  ASSUME PictureAllowed, RowFits, step.phase = "row", transform_fn = TransformFor, TransformRowStrip16, width > 0,
         NEW k \in Nat, k = step.k, Progress
  PROVE  /\ RowFits'
         /\ \/ step' = At("row", k + 1) /\ k + 1 <= width * channels /\ Stripped(k + 1)'
            \/ step' = At("done", 0) /\ UNCHANGED output /\ RowConverted
<1>0. width \in Nat /\ transform_fn = "transform_row_strip16"
  BY DEF RowFits, TransformRowStrip16, Transforming
<1>1. /\ OutputColor = color_type /\ OutputDepth = 8 /\ bit_depth = 16 /\ OutSamples = channels
      /\ channels \in 1 .. 4 /\ color_type # "Indexed"
  <2>1. OutputColor = color_type /\ OutputDepth = 8 /\ bit_depth = 16 /\ color_type # "Indexed"
    BY <1>0, MadeFor
  <2>2. OutSamples = channels
    BY <2>1 DEF OutSamples, channels
  <2> QED BY <2>1, <2>2, MadeFor
<1>2. PICK c \in {1, 2, 3, 4} : c = channels
  BY <1>1
<1>3. PICK n \in Nat : n = width * c
  BY <1>0, <1>2
<1>4. RowLen = 2 * n /\ OutputLineSize(width) = n
  BY <1>0, <1>1, <1>2, <1>3, Lengths
<1>5. Len(row) = 2 * n /\ Len(output) = n /\ DOMAIN output = 1 .. n
  BY <1>3, <1>4 DEF RowFits
<1>6. k <= n /\ Stripped(k)
  BY <1>0, <1>2, <1>3 DEF Progress
<1>7. CASE k < n
  <2>1. (2 * n) \div 2 = n
    OBVIOUS
  <2>2. PICK v : v = row[2 * k + 1]
    OBVIOUS
  <2>3. Turn(k, <<v>>)
    BY <1>5, <1>7, <2>1, <2>2 DEF TransformRowStrip16
  <2>4. v \in ByteValue
    <3>1. 2 * k + 1 \in 1 .. RowLen
      BY <1>4, <1>7
    <3> QED BY <2>2, <3>1 DEF RowFits
  <2>5. step' = At("row", k + 1) /\ UNCHANGED <<picture, row, width>>
    BY <2>3 DEF Turn
  <2> HIDE DEF Turn
  <2>6. /\ RowFits'
        /\ \A i \in 1 .. n : output'[i] = IF k < i /\ i <= k + 1 THEN <<v>>[i - k] ELSE output[i]
    <3>0. PICK one \in Nat : one = 1
      OBVIOUS
    <3>1. PICK bytes : bytes = <<v>>
      OBVIOUS
    <3>2. DOMAIN bytes = 1 .. one /\ Len(bytes) = one /\ \A j \in 1 .. one : bytes[j] \in ByteValue
      BY <2>4, <3>0, <3>1
    <3>3. Turn(k, bytes)
      BY <2>3, <3>1
    <3>4. /\ RowFits'
          /\ \A i \in 1 .. n : output'[i] = IF k < i /\ i <= k + one THEN bytes[i - k] ELSE output[i]
      BY <1>4, <3>2, <3>3, TurnWrites
    <3> QED BY <3>0, <3>1, <3>4
  <2>7. ASSUME NEW i \in 0 .. k PROVE output'[i + 1] = row'[2 * i + 1]
    <3>1. CASE i < k
      <4>1. i + 1 \in 1 .. n /\ ~ (k < i + 1)
        BY <1>7, <3>1
      <4>2. output[i + 1] = row[2 * i + 1]
        BY <1>6, <3>1 DEF Stripped
      <4> QED BY <2>5, <2>6, <4>1, <4>2
    <3>2. CASE i = k
      <4>1. i + 1 \in 1 .. n /\ k < i + 1 /\ i + 1 <= k + 1 /\ i + 1 - k = 1
        BY <1>7, <3>2
      <4>2. output'[i + 1] = <<v>>[1]
        BY <2>6, <4>1
      <4> QED BY <2>2, <2>5, <3>2, <4>2
    <3> QED BY <3>1, <3>2
  <2>8. Stripped(k + 1)'
    BY <2>7 DEF Stripped
  <2>9. k + 1 <= width * channels
    BY <1>2, <1>3, <1>7
  <2> QED BY <2>5, <2>6, <2>8, <2>9
<1>8. CASE ~ (k < n)
  <2>1. k = n /\ (2 * n) \div 2 = n
    BY <1>6, <1>8
  <2>2. Stop("done")
    BY <1>5, <2>1 DEF TransformRowStrip16
  <2>3. RowFits'
    BY <1>0, <2>2, Fixed DEF Stop, RowFits, At
  <2>4. ASSUME NEW x \in 0 .. width - 1, NEW s \in 0 .. OutSamples - 1
        PROVE  Sample(output, OutputDepth, x * OutSamples + s) = ExpectedSample(x, s)
    <3>1. PICK p \in Nat : p = x * c + s /\ p < n
      BY <1>0, <1>1, <1>2, <1>3
    <3>2. output[p + 1] = row[2 * p + 1]
      BY <1>6, <2>1, <3>1 DEF Stripped
    <3>3. PICK h, l \in ByteValue : h = row[2 * p + 1] /\ l = row[2 * p + 2]
      <4>1. 2 * p + 1 \in 1 .. RowLen /\ 2 * p + 2 \in 1 .. RowLen
        BY <1>4, <3>1
      <4> QED BY <4>1 DEF RowFits
    <3>4. Sample(output, 8, p) = h
      BY <3>2, <3>3, SampleOfByte
    <3>5. InSample(x, s) = 256 * h + l
      BY <1>1, <1>2, <3>1, <3>3 DEF InSample, Sample
    <3>6. ExpectedSample(x, s) = Rescaled(InSample(x, s))
      BY <1>1 DEF ExpectedSample
    <3>7. Rescaled(InSample(x, s)) = (256 * h + l) \div 256
      BY <1>1, <3>5 DEF Rescaled
    <3>8. (256 * h + l) \div 256 = h
      BY DEF ByteValue
    <3> QED BY <1>1, <1>2, <3>1, <3>4, <3>6, <3>7, <3>8
  <2> QED BY <2>2, <2>3, <2>4 DEF Stop, RowConverted, Converted
<1> QED BY <1>7, <1>8


-------------------------------------------------------------------------------
(* The invariant of a row.                                                     *)

\* There is a colour to copy.
ColorsLeft == step.phase = "colors" => 3 * step.k < Len(picture.palette)

RowInv ==
  /\ PictureAllowed /\ RowFits /\ Chosen /\ Progress
  /\ ColorsLeft /\ RowTransformed /\ LengthsFit

LEMMA ConvertedIsTransformed ==
  ASSUME RowConverted
  PROVE  RowTransformed
BY DEF RowConverted, Converted, OutSamples, RowTransformed

LEMMA ProgressFromStart == PictureAllowed /\ RowFits /\ step.k = 0 => Progress
<1> SUFFICES ASSUME PictureAllowed, RowFits, step.k = 0 PROVE Progress
  OBVIOUS
<1>1. width \in Nat /\ width * channels \in Nat
  BY MadeFor DEF RowFits
<1>2. Stripped(0) /\ Converted(0)
  BY DEF Stripped, Converted
<1> QED BY <1>1, <1>2 DEF Progress

\* Steps that touch neither the row nor its output.
LEMMA BetweenRows ==
  ASSUME RowInv, UNCHANGED <<picture, row, width, output>>, step'.k = 0 \/ step'.phase # "row",
         step.phase # "idle" \/ step'.phase = "idle",
         transform_fn' \in {"none", TransformFor},
         step'.phase \in {"row", "done", "colors", "alphas", "opaque"} => transform_fn' = TransformFor,
         step'.phase = "colors" => 3 * step'.k < Len(picture.palette),
         step'.phase = "panicked" => (Len(picture.palette) % 3) # 0,
         step'.phase \in {"done", "idle"} /\ width > 0 => RowConverted
  PROVE  RowInv'
<1>1. PictureAllowed' /\ TransformFor' = TransformFor
  BY Fixed DEF RowInv
<1>2. RowFits'
  BY Fixed DEF RowInv, RowFits
<1>3. Chosen'
  BY <1>1 DEF Chosen
<1>4. step'.k = 0 => Progress'
  <2>1. (PictureAllowed /\ RowFits /\ step.k = 0 => Progress)'
    BY ProgressFromStart, PTL
  <2> QED BY <1>1, <1>2, <2>1
<1>5. Progress'
  BY <1>4 DEF Progress
<1>6. ColorsLeft' /\ LengthsFit'
  BY DEF ColorsLeft, LengthsFit
<1>7. RowTransformed'
  <2> SUFFICES ASSUME step'.phase \in {"done", "idle"}, width > 0
               PROVE  RowTransformed'
    BY DEF RowTransformed, Transformed
  <2>1. RowConverted
    OBVIOUS
  <2>2. RowConverted'
    BY <2>1, Fixed DEF RowConverted, Converted
  <2> QED BY <2>2 DEF RowConverted, Converted, OutSamples, RowTransformed
<1> QED BY <1>1, <1>2, <1>3, <1>5, <1>6, <1>7 DEF RowInv


\* A function at work.
LEMMA WorkKeeps ==
  ASSUME RowInv, TableInv,
         CopyRow \/ TransformRowStrip16 \/ ExpandTrns \/ UnpackBits \/ Expand8Bit
  PROVE  RowInv'
<1>0. /\ PictureAllowed /\ RowFits /\ Chosen /\ Progress /\ step.phase = "row" /\ transform_fn = TransformFor
      /\ width \in Nat /\ width > 0 /\ step.k \in Nat
  <2>1. step.phase = "row"
    BY DEF CopyRow, TransformRowStrip16, ExpandTrns, UnpackBits, Expand8Bit, Transforming
  <2> QED BY <2>1 DEF RowInv, Chosen, RowFits, TableInv
<1>1. PICK k \in Nat : k = step.k
  BY <1>0
<1>2. UNCHANGED <<picture, transform_fn, row, width>>
  BY DEF CopyRow, TransformRowStrip16, ExpandTrns, UnpackBits, Expand8Bit, Turn, Stop
<1>3. PictureAllowed' /\ TransformFor' = TransformFor
  BY <1>0, <1>2, Fixed
<1>4. ASSUME step' = At("done", 0), UNCHANGED output, RowConverted
      PROVE  RowInv'
  <2>1. step'.phase = "done" /\ step'.k = 0
    BY <1>4 DEF At
  <2> QED BY <1>0, <1>2, <1>4, <2>1, BetweenRows
<1>5. ASSUME step' = At("row", k + 1), RowFits', Progress'
      PROVE  RowInv'
  <2>1. step'.phase = "row"
    BY <1>5 DEF At
  <2> QED
    BY <1>0, <1>2, <1>3, <1>5, <2>1 DEF RowInv, Chosen, ColorsLeft, RowTransformed, Transformed, LengthsFit
<1>6. CASE CopyRow
  <2>1. CASE step' = At("row", k + 1) /\ k = 0 /\ output' = row /\ RowFits'
    <3>1. transform_fn' = "copy_row" /\ step'.k = 1
      BY <1>2, <1>6, <2>1 DEF CopyRow, Transforming, At
    <3>2. Progress'
      BY <1>2, <2>1, <3>1 DEF Progress
    <3> QED BY <1>5, <2>1, <3>2
  <2> QED BY <1>0, <1>1, <1>4, <1>6, <2>1, CopyRowKeeps
<1>7. CASE TransformRowStrip16
  <2>1. CASE step' = At("row", k + 1) /\ k + 1 <= width * channels /\ Stripped(k + 1)' /\ RowFits'
    <3>1. transform_fn' = "transform_row_strip16" /\ step'.k = k + 1
      BY <1>2, <1>7, <2>1 DEF TransformRowStrip16, Transforming, At
    <3>2. channels' = channels
      BY <1>2, Fixed
    <3>3. Progress'
      BY <1>2, <2>1, <3>1, <3>2 DEF Progress, Stripped
    <3> QED BY <1>5, <2>1, <3>3
  <2> QED BY <1>0, <1>1, <1>4, <1>7, <2>1, StripKeeps
<1>8. CASE ExpandTrns \/ UnpackBits \/ Expand8Bit
  <2>1. transform_fn \in Expanding \cup Unpacking \cup {"expand_8bit_into_rgb8"}
    BY <1>8 DEF ExpandTrns, UnpackBits, Expand8Bit, Transforming, Expanding, Unpacking
  <2>2. transform_fn # "copy_row" /\ transform_fn # "transform_row_strip16"
    BY <2>1 DEF Expanding, Unpacking
  <2>3. k <= width /\ Converted(k)
    BY <1>0, <1>1, <2>2 DEF Progress
  <2>4. \A names : transform_fn \in names => AtPixel(names)
    BY <1>0, <1>1, <2>3 DEF AtPixel
  <2>5. transform_fn \in Paletted => TableReady
    BY <1>0, TableIsReady
  <2>6. /\ RowFits'
        /\ \/ step' = At("row", k + 1) /\ k < width /\ Converted(k + 1)'
           \/ step' = At("done", 0) /\ k = width /\ UNCHANGED output
    <3>1. CASE ExpandTrns
      <4>1. AtPixel(Expanding)
        BY <2>4, <3>1 DEF ExpandTrns, Transforming, Expanding
      <4> QED BY <1>1, <3>1, <4>1, ExpandTrnsKeeps
    <3>2. CASE UnpackBits
      <4>1. AtPixel(Unpacking)
        BY <2>4, <3>2 DEF UnpackBits, Transforming, Unpacking
      <4> QED BY <1>1, <2>5, <3>2, <4>1, UnpackBitsKeeps
    <3>3. CASE Expand8Bit
      <4>1. AtPixel({"expand_8bit_into_rgb8"}) /\ TableReady
        BY <2>4, <2>5, <3>3 DEF Expand8Bit, Transforming, Paletted
      <4> QED BY <1>1, <3>3, <4>1, Expand8BitKeeps
    <3> QED BY <1>8, <3>1, <3>2, <3>3
  <2>7. CASE step' = At("row", k + 1) /\ k < width /\ Converted(k + 1)' /\ RowFits'
    <3>1. step'.k = k + 1
      BY <2>7 DEF At
    <3>2. transform_fn' # "copy_row" /\ transform_fn' # "transform_row_strip16"
      BY <1>2, <2>2
    <3>3. k + 1 <= width
      BY <1>0, <2>7
    <3>4. Progress'
      BY <1>2, <2>7, <3>1, <3>2, <3>3 DEF Progress, Converted
    <3> QED BY <1>5, <2>7, <3>4
  <2>8. CASE step' = At("done", 0) /\ k = width /\ UNCHANGED output
    <3>1. RowConverted
      BY <2>3, <2>8 DEF RowConverted
    <3> QED BY <1>4, <2>8, <3>1
  <2> QED BY <2>6, <2>7, <2>8
<1> QED BY <1>6, <1>7, <1>8

\* The making of the function and of its table.
LEMMA MakingKeeps ==
  ASSUME RowInv, TableInv,
         CreateTransformFn \/ CopyColors \/ CopyAlphas \/ UnclobberAlphas
  PROVE  RowInv'
<1>0. UNCHANGED <<picture, row, width, output>>
  BY DEF CreateTransformFn, CopyColors, CopyAlphas, UnclobberAlphas
<1>1. /\ PictureAllowed /\ Chosen /\ ColorsLeft /\ step.k \in Nat
      /\ Len(picture.palette) \in Nat
  BY LengthsKnown DEF RowInv, TableInv
<1>2. CASE CreateTransformFn
  <2>1. CASE TransformFor = "PaletteRequired"
    <3>1. step'.phase = "refused" /\ step'.k = 0 /\ transform_fn' = transform_fn /\ step.phase = "create"
      BY <1>2, <2>1 DEF CreateTransformFn, At
    <3> QED BY <1>0, <1>1, <3>1, BetweenRows DEF Chosen
  <2>2. CASE TransformFor # "PaletteRequired"
    <3>1. /\ step'.phase = IF TransformFor \in Paletted THEN "colors" ELSE "row"
          /\ step'.k = 0 /\ transform_fn' = TransformFor /\ step.phase = "create"
      BY <1>2, <2>2 DEF CreateTransformFn, At
    <3>2. TransformFor \in Paletted => Len(picture.palette) > 0
      <4>1. TransformFor \in Paletted => is_some(picture.palette)
        <5>1. PICK palette_is : palette_is = is_some(picture.palette) /\ palette_is \in BOOLEAN
          BY DEF is_some
        <5> QED BY <2>2 DEF TransformFor, Paletted
      <4>2. picture.palette \in Seq(ByteValue)
        BY <1>1 DEF PictureAllowed, PictureType
      <4> QED BY <4>1, <4>2, EmptySeq DEF is_some
    <3>3. step'.phase = "colors" => 3 * step'.k < Len(picture.palette)
      BY <1>1, <3>1, <3>2
    <3>4. step'.phase \in {"colors", "row"}
      BY <3>1
    <3> QED BY <1>0, <3>1, <3>3, <3>4, BetweenRows
  <2> QED BY <2>1, <2>2
<1>3. CASE CopyColors
  <2>1. step.phase = "colors" /\ transform_fn' = transform_fn /\ transform_fn = TransformFor
    BY <1>1, <1>3 DEF CopyColors, Chosen
  <2>2. PICK k \in Nat : k = step.k /\ 3 * k < Len(picture.palette)
    BY <1>1, <2>1 DEF ColorsLeft
  <2>3. Left = Len(picture.palette) - 3 * k
    BY <2>2 DEF Left
  <2>4. CASE Left >= 4
    <3>1. step'.phase = "colors" /\ step'.k = k + 1
      BY <1>3, <2>2, <2>4 DEF CopyColors, At
    <3>2. 3 * (k + 1) < Len(picture.palette)
      BY <1>1, <2>2, <2>3, <2>4
    <3> QED BY <1>0, <2>1, <3>1, <3>2, BetweenRows
  <2>5. CASE Left = 3
    <3>1. step'.phase = "alphas"
      BY <1>3, <2>5 DEF CopyColors, At
    <3> QED BY <1>0, <2>1, <3>1, BetweenRows
  <2>6. CASE ~ (Left >= 4) /\ Left # 3
    <3>1. step'.phase = "panicked"
      BY <1>3, <2>6 DEF CopyColors, At
    <3>2. (Len(picture.palette) % 3) # 0
      <4>1. PICK n \in Nat : n = Len(picture.palette)
        BY <1>1
      <4>2. n = 3 * k + 1 \/ n = 3 * k + 2
        BY <2>2, <2>3, <2>6, <4>1, SMTT(30)
      <4>3. (3 * k + 1) % 3 = 1 /\ (3 * k + 2) % 3 = 2
        BY BetweenEntries
      <4>4. n % 3 = 1 \/ n % 3 = 2
        BY <4>2, <4>3
      <4>5. (n % 3) # 0
        BY <4>4
      <4>6. \A m : m = n => (m % 3) # 0
        BY <4>5
      <4> QED BY <4>1, <4>6
    <3> QED BY <1>0, <2>1, <3>1, <3>2, BetweenRows
  <2> QED BY <2>4, <2>5, <2>6
<1>4. CASE CopyAlphas
  <2>1. /\ step.phase = "alphas" /\ transform_fn' = transform_fn /\ step'.phase \in {"alphas", "opaque"}
        /\ transform_fn = TransformFor
    BY <1>1, <1>4 DEF CopyAlphas, At, Chosen
  <2> QED BY <1>0, <2>1, BetweenRows
<1>5. CASE UnclobberAlphas
  <2>1. /\ step.phase = "opaque" /\ transform_fn' = transform_fn /\ transform_fn = TransformFor
        /\ step'.phase = "opaque" \/ (step'.phase = "row" /\ step'.k = 0)
    BY <1>1, <1>5 DEF UnclobberAlphas, At, Chosen
  <2> QED BY <1>0, <2>1, BetweenRows
<1> QED BY <1>2, <1>3, <1>4, <1>5


-------------------------------------------------------------------------------
(* The frame that the rows belong to.                                          *)

\* The row that is transformed is the one that the iterator has yielded.
RowIsNext ==
  /\ picture = frame.picture
  /\ frame.bits_pp = OutputBits
  /\ step.phase # "idle" => HasLine /\ width = it.line_width

OutputRowInv == IInv /\ TableInv /\ RowInv /\ RowIsNext

LEMMA PictureFixed ==
  ASSUME UNCHANGED picture
  PROVE  /\ PictureAllowed' = PictureAllowed /\ TransformFor' = TransformFor /\ OutputBits' = OutputBits
         /\ channels' = channels /\ bit_depth' = bit_depth
         /\ \A pixels : OutputLineSize(pixels)' = OutputLineSize(pixels)
<1>1. /\ color_type' = color_type /\ bit_depth' = bit_depth /\ channels' = channels
      /\ trns' = trns /\ expand' = expand /\ strip16' = strip16
  BY DEF color_type, bit_depth, channels, trns, expand, strip16
<1>2. OutputDepth' = OutputDepth /\ OutputColor' = OutputColor
  BY <1>1 DEF OutputDepth, OutputColor
<1>3. OutputBits' = OutputBits
  BY <1>2 DEF OutputBits
<1>4. \A pixels : OutputLineSize(pixels)' = OutputLineSize(pixels)
  BY <1>3 DEF OutputLineSize
<1>5. TransformFor' = TransformFor
  BY <1>1 DEF TransformFor
<1>6. PictureAllowed' = PictureAllowed
  BY <1>1 DEF PictureAllowed
<1> QED BY <1>1, <1>3, <1>4, <1>5, <1>6

LEMMA RowAtFirst == OutputInit => OutputRowInv
<1> SUFFICES ASSUME OutputInit PROVE OutputRowInv
  OBVIOUS
<1>1. IInv /\ TableInv
  BY InitEstablishes, TableAtFirst DEF OutputInit
<1>2. /\ picture = frame.picture /\ frame.bits_pp = OutputBits /\ frame \in Frames
      /\ transform_fn = "none" /\ row = << >> /\ width = 0 /\ output = << >>
      /\ step.phase = "idle" /\ step.k = 0
  BY DEF OutputInit, Init, TransformStart, At
<1>3. PictureAllowed
  BY <1>2, PicturesAssumption DEF PictureAllowed, color_type, bit_depth
<1>4. RowFits
  <2>1. OutputLineSize(width) = 0 /\ RowLen = 0
    <3>1. channels * bit_depth \in Nat /\ OutputBits \in Nat
      BY <1>3, MadeFor
    <3>2. 0 * OutputBits = 0 /\ 0 * (channels * bit_depth) = 0
      BY <3>1
    <3>3. (0 + 7) \div 8 = 0
      OBVIOUS
    <3>4. width \in Nat
      BY <1>2
    <3> QED BY <1>2, <1>3, <3>2, <3>3, <3>4, Lengths
  <2>2. 1 .. 0 = {}
    OBVIOUS
  <2> QED BY <1>2, <2>1, <2>2 DEF RowFits
<1>5. RowInv
  BY <1>2, <1>3, <1>4 DEF RowInv, Chosen, Progress, ColorsLeft, RowTransformed, Transformed, LengthsFit
<1> QED BY <1>1, <1>2, <1>5 DEF OutputRowInv, RowIsNext

LEMMA BeginRowKeepsRow ==
  ASSUME OutputRowInv, BeginRow
  PROVE  RowInv'
<1>0. /\ PictureAllowed /\ Chosen /\ frame \in Frames /\ picture = frame.picture
      /\ it.current_pass \in 1 .. 7 /\ it.line_width = count_samples(it.current_pass, frame.width)
      /\ it.line_width > 0
  BY DEF OutputRowInv, RowInv, RowIsNext, IInv, Iterating, BeginRow, HasLine
<1>1. PICK bytes \in frame.contents : GiveRow(it.line_width, bytes)
  BY DEF BeginRow
<1>2. /\ UNCHANGED <<picture, transform_fn, rgba_palette>> /\ width' = it.line_width
      /\ step'.k = 0 /\ step'.phase = IF transform_fn = "none" THEN "create" ELSE "row"
      /\ row' = SubSeq(bytes, 1, raw_row_length(channels * bit_depth, it.line_width) - 1)
      /\ output' = [i \in 1 .. OutputLineSize(it.line_width) |-> Unset]
  BY <1>1 DEF GiveRow, At
<1>3. /\ PictureAllowed' /\ TransformFor' = TransformFor /\ channels' = channels /\ bit_depth' = bit_depth
      /\ \A pixels : OutputLineSize(pixels)' = OutputLineSize(pixels)
  BY <1>0, <1>2, PictureFixed
<1>4. it.line_width \in Nat /\ frame.width \in Nat /\ it.line_width <= frame.width
  <2>1. frame.width \in Nat
    BY <1>0, UnitFacts
  <2>2. /\ it.line_width \in Nat
        /\ \A i \in Nat : i < it.line_width <=> xs(it.current_pass) * i + xo(it.current_pass) < frame.width
    BY <1>0, <2>1, CountsCover
  <2>3. PICK i \in Nat : i = it.line_width - 1
    BY <1>0, <2>2
  <2>4. xs(it.current_pass) * i + xo(it.current_pass) < frame.width
    BY <2>2, <2>3
  <2>5. PICK a \in {1, 2, 4, 8}, b \in 0 .. 7 : a = xs(it.current_pass) /\ b = xo(it.current_pass)
    BY <1>0, GridConstants
  <2>6. a * i >= i
    BY <2>5
  <2> QED BY <2>1, <2>2, <2>3, <2>4, <2>5, <2>6
<1>5. PICK n \in Nat : n = raw_row_length(channels * bit_depth, it.line_width) - 1
  BY <1>0, <1>4, MadeFor DEF raw_row_length
<1>6. bytes \in Seq(ByteValue) /\ n <= Len(bytes)
  <2>1. PICK b \in Nat : b = channels * bit_depth
    BY <1>0, MadeFor
  <2>2. bytes \in Seq(ByteValue) /\ Len(bytes) >= raw_row_length(b, frame.width) - 1
    BY <1>0, <2>1, PicturesAssumption DEF channels, color_type, bit_depth
  <2>3. /\ it.line_width * b \in Nat /\ frame.width * b \in Nat
        /\ it.line_width * b <= frame.width * b
    BY <1>4, ProductGrows
  <2>4. raw_row_length(b, it.line_width) - 1 <= raw_row_length(b, frame.width) - 1
    <3>1. \A i, j \in Nat : i <= j => 1 + (i + 7) \div 8 - 1 <= 1 + (j + 7) \div 8 - 1
      OBVIOUS
    <3> QED BY <2>3, <3>1 DEF raw_row_length
  <2>5. raw_row_length(b, frame.width) \in Nat /\ Len(bytes) \in Nat
    BY <2>2, <2>3 DEF raw_row_length
  <2> QED BY <1>5, <2>1, <2>2, <2>4, <2>5
<1>7. row' \in [1 .. n -> ByteValue]
  <2>1. /\ SubSeq(bytes, 1, n) \in Seq(ByteValue) /\ Len(SubSeq(bytes, 1, n)) = n
    <3>1. \A i \in 1 .. n : bytes[i] \in ByteValue
      BY <1>6, ElementOfSeq
    <3>2. (IF 1 <= n THEN n - 1 + 1 ELSE 0) = n
      OBVIOUS
    <3> QED BY <3>1, <3>2, SubSeqProperties
  <2>2. PICK r \in Seq(ByteValue) : r = row' /\ Len(r) = n
    BY <1>2, <1>5, <2>1
  <2>3. r \in [1 .. n -> ByteValue]
    BY <2>2
  <2> QED BY <2>2, <2>3
<1>8. RowFits'
  <2>1. RowLen' = n
    BY <1>2, <1>3, <1>5 DEF RowLen
  <2>2. output' \in [1 .. OutputLineSize(it.line_width) -> ByteValue \cup {Unset}]
    BY <1>2
  <2>3. OutputLineSize(width)' = OutputLineSize(it.line_width)
    BY <1>2, <1>3 DEF OutputLineSize
  <2> QED BY <1>0, <1>2, <1>4, <1>7, <2>1, <2>2, <2>3 DEF RowFits
<1>9. Progress'
  <2>1. (PictureAllowed /\ RowFits /\ step.k = 0 => Progress)'
    BY ProgressFromStart, PTL
  <2> QED BY <1>2, <1>3, <1>8, <2>1
<1>10. Chosen'
  BY <1>0, <1>2, <1>3 DEF Chosen
<1>11. ColorsLeft' /\ RowTransformed' /\ LengthsFit'
  BY <1>2 DEF ColorsLeft, RowTransformed, Transformed, LengthsFit
<1> QED BY <1>3, <1>8, <1>9, <1>10, <1>11 DEF RowInv

LEMMA RowStepKeeps == OutputRowInv /\ [OutputNext]_outputVars => OutputRowInv'
<1> SUFFICES ASSUME OutputRowInv, [OutputNext]_outputVars PROVE OutputRowInv'
  OBVIOUS
<1>1. IInv'
  <2>1. [Next]_vars
    BY DEF OutputNext, outputVars, BeginRow, TransformRow, EndRow, AdvancePass, Next
  <2> QED BY <2>1, StepKeeps DEF OutputRowInv
<1>2. TableInv'
  BY StepsKeepTable DEF OutputRowInv
<1>3. UNCHANGED <<picture, frame>>
  BY DEF OutputNext, outputVars, vars, transformVars, BeginRow, GiveRow, TransformRow, TransformStep, EndRow, TakeRow,
         AdvancePass, NextLine, NextPass, Stop, Turn, CreateTransformFn, CopyColors, CopyAlphas, UnclobberAlphas,
         CopyRow, TransformRowStrip16, ExpandTrns, UnpackBits, Expand8Bit
<1>4. picture' = frame'.picture /\ frame'.bits_pp = OutputBits'
  BY <1>3, PictureFixed DEF OutputRowInv, RowIsNext
<1>5. CASE BeginRow
  <2>1. HasLine' /\ width' = it'.line_width
    BY <1>5 DEF BeginRow, GiveRow, vars, HasLine
  <2> QED BY <1>1, <1>2, <1>4, <1>5, <2>1, BeginRowKeepsRow DEF OutputRowInv, RowIsNext
<1>6. CASE TransformRow
  <2>1. RowInv'
    BY <1>6, WorkKeeps, MakingKeeps DEF OutputRowInv, TransformRow, TransformStep
  <2>2. UNCHANGED <<width, it>> /\ step.phase # "idle"
    BY <1>6 DEF TransformRow, TransformStep, vars, Stop, Turn, CreateTransformFn, CopyColors, CopyAlphas,
                UnclobberAlphas, CopyRow, TransformRowStrip16, ExpandTrns, UnpackBits, Expand8Bit, Transforming
  <2>3. HasLine' /\ width' = it'.line_width
    BY <2>2 DEF OutputRowInv, RowIsNext, HasLine
  <2> QED BY <1>1, <1>2, <1>4, <2>1, <2>3 DEF OutputRowInv, RowIsNext
<1>7. CASE EndRow
  <2>1. /\ UNCHANGED <<picture, transform_fn, row, width, output>> /\ step.phase = "done"
        /\ step'.phase = "idle" /\ step'.k = 0
    BY <1>7 DEF EndRow, TakeRow, Stop, At
  <2>2. /\ RowInv /\ width > 0 => RowConverted
    BY <2>1 DEF OutputRowInv, RowInv, RowTransformed, Transformed, RowConverted, Converted, OutSamples
  <2>3. transform_fn' \in {"none", TransformFor}
    BY <2>1 DEF OutputRowInv, RowInv, Chosen
  <2>4. RowInv'
    BY <2>1, <2>2, <2>3, BetweenRows DEF OutputRowInv, RowInv
  <2> QED BY <1>1, <1>2, <1>4, <2>1, <2>4 DEF OutputRowInv, RowIsNext
<1>8. CASE AdvancePass \/ UNCHANGED outputVars
  <2>1. /\ UNCHANGED <<picture, transform_fn, row, width, output, step>>
        /\ step.phase = "idle" \/ UNCHANGED it
    BY <1>8 DEF AdvancePass, outputVars, transformVars, vars
  <2>2. RowInv'
    <3>1. PictureAllowed' /\ RowFits' /\ Chosen' /\ ColorsLeft' /\ LengthsFit'
      BY <2>1, Fixed DEF OutputRowInv, RowInv, RowFits, Chosen, ColorsLeft, LengthsFit
    <3>2. \A n : Converted(n) => Converted(n)'
      BY <2>1, Fixed DEF Converted
    <3>3. \A n : Stripped(n) => Stripped(n)'
      BY <2>1 DEF Stripped
    <3>4. Progress'
      <4>1. channels' = channels
        BY <2>1, Fixed
      <4>2. PICK n : n = step.k
        OBVIOUS
      <4>3. (Converted(n) => Converted(n)') /\ (Stripped(n) => Stripped(n)')
        BY <3>2, <3>3
      <4>4. (Converted(step.k)' <=> Converted(n)') /\ (Stripped(step.k)' <=> Stripped(n)')
        BY <2>1, <4>2 DEF Converted, Stripped
      <4> QED BY <2>1, <4>1, <4>2, <4>3, <4>4 DEF OutputRowInv, RowInv, Progress
    <3>5. RowTransformed'
      <4>1. Transformed' => RowConverted
        BY <2>1 DEF OutputRowInv, RowInv, RowTransformed, Transformed, RowConverted, Converted, OutSamples
      <4>2. RowConverted => RowConverted'
        BY <2>1, Fixed DEF RowConverted, Converted
      <4> QED BY <4>1, <4>2 DEF RowConverted, Converted, OutSamples, RowTransformed
    <3> QED BY <3>1, <3>4, <3>5 DEF RowInv
  <2>3. step'.phase # "idle" => HasLine' /\ width' = it'.line_width
    BY <2>1 DEF OutputRowInv, RowIsNext, HasLine
  <2> QED BY <1>1, <1>2, <1>4, <2>2, <2>3 DEF OutputRowInv, RowIsNext
<1> QED BY <1>5, <1>6, <1>7, <1>8 DEF OutputNext

LEMMA RowInvariant == OutputSpec => []OutputRowInv
<1> QED BY RowAtFirst, RowStepKeeps, PTL DEF OutputSpec

\* RowTransformed holds in every state, for rows of every width, every palette, every tRNS chunk
\* and every set of transformations: whichever function create_transform_fn picks, each pixel comes
\* out as output_color_type says, for all that tables hold, bytes share, or later turns overwrite.
THEOREM RowsAreTransformed == OutputSpec => []RowTransformed
<1>1. OutputRowInv => RowTransformed
  BY DEF OutputRowInv, RowInv
<1> QED BY <1>1, RowInvariant, PTL

\* RowsFit holds in every state: no assertion of the transformations fails and no slice is too
\* short, unless the palette ends within an entry, and expand_pass takes nothing from a row that
\* next_interlaced_row has not put into it.
THEOREM RowsAlwaysFit == OutputSpec => []RowsFit
<1>1. OutputRowInv => RowsFit
  <2> SUFFICES ASSUME OutputRowInv PROVE RowsFit
    OBVIOUS
  <2>1. LengthsFit
    BY DEF OutputRowInv, RowInv
  <2>2. ASSUME step.phase = "done", NEW copy \in SparseCopies(Adam7Info)
        PROVE  copy[2] \in 0 .. Len(output) * (IF bits THEN 8 ELSE 1) - 1
    <3>0. /\ PictureAllowed /\ RowFits /\ frame \in Frames /\ frame.bits_pp = OutputBits
          /\ width = it.line_width /\ width \in Nat
      BY <2>2 DEF OutputRowInv, RowInv, RowIsNext, IInv, Iterating, RowFits
    <3>1. Adam7Info.samples = width
      BY <3>0 DEF Adam7Info
    <3>2. PICK i \in 0 .. width - 1, u \in 0 .. pixel_units - 1 : copy[2] = Origin(i) + u
      BY <2>2, <3>1 DEF SparseCopies
    <3>3. PICK p \in Nat \ {0} : p = pixel_units
      BY <3>0, UnitFacts
    <3>4. Origin(i) = i * p
      BY <3>0, <3>3, OriginOfPixel
    <3>5. i * p \in Nat /\ width * p \in Nat /\ i * p + p <= width * p
      BY <3>0, ProductGrows
    <3>6. copy[2] \in 0 .. width * p - 1
      BY <3>2, <3>3, <3>4, <3>5
    <3>7. Len(output) = (width * frame.bits_pp + 7) \div 8 /\ Len(output) \in Nat
      <4>1. OutputLineSize(width) \in Nat /\ OutputLineSize(width) = (width * OutputBits + 7) \div 8
        BY <3>0, Lengths
      <4> QED BY <3>0, <4>1 DEF RowFits
    <3>8. width * p <= Len(output) * (IF bits THEN 8 ELSE 1)
      <4>1. CASE bits
        <5>1. frame.bits_pp = p
          BY <3>0, <3>3, <4>1, UnitFacts
        <5>2. \A n \in Nat : n <= ((n + 7) \div 8) * 8
          OBVIOUS
        <5> QED BY <3>5, <3>7, <4>1, <5>1, <5>2
      <4>2. CASE ~ bits
        <5>1. frame.bits_pp = 8 * p
          <6>1. frame.bits_pp \in Nat /\ frame.bits_pp % 8 = 0
            BY <3>0, <4>2, FramesAssumption DEF bits
          <6> QED BY <3>3, <4>2, <6>1 DEF pixel_units
        <5>2. width * (8 * p) = 8 * (width * p)
          BY <3>0
        <5>3. \A n \in Nat : (8 * n + 7) \div 8 = n
          OBVIOUS
        <5> QED BY <3>5, <3>7, <4>2, <5>1, <5>2, <5>3
      <4> QED BY <4>1, <4>2
    <3> QED BY <3>5, <3>6, <3>7, <3>8
  <2> QED BY <2>1, <2>2 DEF RowsFit
<1> QED BY <1>1, RowInvariant, PTL
===============================================================================
