------------------------------ MODULE RowFilters ------------------------------
(* The five row filters of PNG, as the encoder applies them and as the decoder *)
(* takes them back: src/src/filter/.  The two sides share no code.  The        *)
(* encoder subtracts a prediction from whole slices of a row; the decoder adds *)
(* it again pixel by pixel, in place, carrying the pixel to the left and the   *)
(* one above that in registers.  Three formulations of the Paeth predictor     *)
(* are in use.                                                                 *)
(*                                                                             *)
(* A row is a sequence of bytes, counted from 1.  A byte has ByteSize values   *)
(* (256 in the code).                                                          *)
EXTENDS Integers, Sequences, FiniteSetsExt

CONSTANTS
  ByteSize,   \* number of values of a byte
  ZeroRun     \* the chunk of zeros that entropy leaves out: 8

\* a byte can hold the number of every filter
ASSUME ByteSizeAssumption == ByteSize \in Nat /\ ByteSize > 4
ASSUME ZeroRunAssumption  == ZeroRun \in Nat \ {0}

Byte == 0 .. ByteSize - 1

WrappingAdd(x, y) == IF x + y < ByteSize THEN x + y ELSE x + y - ByteSize
\* Fault: the difference does not wrap
PlainSub(x, y)    == x - y
WrappingSub(x, y) == IF x >= y THEN x - y ELSE x - y + ByteSize

-------------------------------------------------------------------------------
(* RowFilter, by the number it has in the file, and Filter, which adds the two *)
(* that choose for each row.                                                   *)

NoFilter   == 0
Sub        == 1
Up         == 2
Avg        == 3
Paeth      == 4
Adaptive   == 5
MinEntropy == 6

RowFilter == NoFilter .. Paeth
Filter    == NoFilter .. MinEntropy

\* RowFilter::from_u8 gives Some
IsRowFilter(n) == n \in RowFilter

\* RowFilter::from_method gives None
ChoosesForItself(method) == method \in {Adaptive, MinEntropy}

-------------------------------------------------------------------------------
(* The Paeth predictors.  a is the byte to the left, b the one above, c the    *)
(* one above and to the left.                                                  *)

Distance(x, y)  == IF x < y THEN y - x ELSE x - y
SmallerOf(x, y) == IF x < y THEN x ELSE y
LargerOf(x, y)  == IF x < y THEN y ELSE x

\* the decoder's elsewhere than on x86_64, and that of the PNG specification
FilterPaeth(a, b, c) ==
  LET pa == Distance(b, c)
      pb == Distance(a, c)
      pc == Distance(a + b, 2 * c)
      nearer == IF pb < pa THEN b ELSE a
  IN  IF pc < SmallerOf(pa, pb) THEN c ELSE nearer

\* the decoder's on x86_64
FilterPaethStbi(a, b, c) ==
  LET thresh == 3 * c - (a + b)
      lo == SmallerOf(a, b)
      hi == LargerOf(a, b)
      t0 == IF hi <= thresh THEN lo ELSE c
  IN  IF thresh <= lo THEN hi ELSE t0

\* Fault: a tie goes to the byte above and to the left
FilterPaethTie(a, b, c) ==
  LET pa == Distance(b, c)
      pb == Distance(a, c)
      pc == IF (a < c) <=> (c < b) THEN Distance(pa, pb) ELSE ByteSize - 1
  IN  IF pa <= pb /\ pa < pc THEN a
      ELSE IF pb < pc THEN b ELSE c

\* the encoder's
FilterPaethFpnge(a, b, c) ==
  LET pa == LargerOf(b, c) - SmallerOf(c, b)
      pb == LargerOf(a, c) - SmallerOf(c, a)
      pc == IF (a < c) <=> (c < b) THEN LargerOf(pa, pb) - SmallerOf(pa, pb)
                                   ELSE ByteSize - 1
  IN  IF pa <= pb /\ pa <= pc THEN a
      ELSE IF pb <= pc THEN b ELSE c

-------------------------------------------------------------------------------
(* filter_internal: one row filtered against the one before it.                *)

FilteredSub(bpp, current) ==
  [i \in DOMAIN current |->
     IF i <= bpp THEN current[i] ELSE WrappingSub(current[i], current[i - bpp])]

FilteredUp(previous, current) ==
  [i \in DOMAIN current |-> WrappingSub(current[i], previous[i])]

\* (a & b) + ((a ^ b) >> 1), see the assumption AverageOfBits of MCScanlines
Average(x, y) == (x + y) \div 2

FilteredAvg(bpp, previous, current) ==
  [i \in DOMAIN current |->
     WrappingSub(current[i], IF i <= bpp THEN previous[i] \div 2
                             ELSE Average(current[i - bpp], previous[i]))]

FilteredPaeth(bpp, previous, current) ==
  [i \in DOMAIN current |->
     WrappingSub(current[i],
       IF i <= bpp THEN FilterPaethFpnge(0, previous[i], 0)
       ELSE FilterPaethFpnge(current[i - bpp], previous[i], previous[i - bpp]))]

FilterInternal(filter, bpp, previous, current) ==
  CASE filter = NoFilter -> current
    [] filter = Sub      -> FilteredSub(bpp, current)
    [] filter = Up       -> FilteredUp(previous, current)
    [] filter = Avg      -> FilteredAvg(bpp, previous, current)
    [] filter = Paeth    -> FilteredPaeth(bpp, previous, current)

-------------------------------------------------------------------------------
(* What adaptive_filter thinks a filtered row costs.                           *)

\* sum_buffer: bytes as signed numbers, without their sign
SumBuffer(row) == SumFunction([i \in DOMAIN row |-> SmallerOf(row[i], ByteSize - row[i])])

\* ilog2i: an estimate of i * log2(i)
Ilog2i(i) ==
  LET log == CHOOSE k \in 0 .. i : 2^k <= i /\ i < 2^(k + 1)
  IN  i * log + 2 * (i - 2^log)

\* the positions whose bytes entropy counts: all but whole chunks of zeros
Counted(row) ==
  {i \in DOMAIN row :
     LET chunk == ((i - 1) \div ZeroRun) * ZeroRun + 1 .. ((i - 1) \div ZeroRun + 1) * ZeroRun
     IN  ~(chunk \subseteq DOMAIN row /\ \A k \in chunk : row[k] = 0)}

Entropy(row) ==
  LET seen  == {row[i] : i \in Counted(row)}
      spent == SumFunction([x \in seen |-> Ilog2i(Cardinality({i \in Counted(row) : row[i] = x}))])
      total == Ilog2i(Cardinality(Counted(row)))
  IN  IF seen \subseteq {0} \/ total < spent THEN 0 ELSE total - spent

Cost(method, row) == IF method = Adaptive THEN SumBuffer(row) ELSE Entropy(row)

-------------------------------------------------------------------------------
(* unfilter: what the decoder adds to a byte whose left neighbour is a, with   *)
(* b above and c above and to the left.                                        *)

\* a row with none above it has no use for Paeth and Up
Effective(filter, previous) ==
  CASE previous = << >> /\ filter = Paeth -> Sub
    [] previous = << >> /\ filter = Up    -> NoFilter
    [] OTHER                              -> filter

Builds == {"x86_64", "other", "simd_x86_64", "simd_aarch64"}

PaethOf(build, a, b, c) ==
  IF build \in {"x86_64", "simd_x86_64"} THEN FilterPaethStbi(a, b, c)
                                         ELSE FilterPaeth(a, b, c)

\* hasAbove: the row above is there
Prediction(filter, build, hasAbove, a, b, c) ==
  CASE filter = NoFilter -> 0
    [] filter = Sub      -> a
    [] filter = Up       -> b
    [] filter = Avg      -> IF hasAbove THEN (b + a) \div 2 ELSE a \div 2
    [] filter = Paeth    -> PaethOf(build, a, b, c)
===============================================================================
