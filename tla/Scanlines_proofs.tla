--------------------------- MODULE Scanlines_proofs ---------------------------
(* Proofs about RowFilters and Scanlines: for every number of byte values,     *)
(* every width and height, every row and every choice of filters, what the     *)
(* encoder filters the decoder recovers.                                       *)
EXTENDS Scanlines, FiniteSetTheorems, WellFoundedInduction, SequenceTheorems, TLAPS

-------------------------------------------------------------------------------
(* Bytes and predictors.                                                       *)

LEMMA AddUndoesSub ==
  ASSUME NEW x \in Byte, NEW y \in Byte
  PROVE  /\ WrappingSub(x, y) \in Byte /\ WrappingAdd(x, y) \in Byte
         /\ WrappingAdd(WrappingSub(x, y), y) = x
BY ByteSizeAssumption DEF Byte, WrappingSub, WrappingAdd

LEMMA PaethFpngeIsReference ==
  ASSUME NEW a \in Byte, NEW b \in Byte, NEW c \in Byte
  PROVE  FilterPaethFpnge(a, b, c) = FilterPaeth(a, b, c)
BY ByteSizeAssumption
   DEF Byte, FilterPaethFpnge, FilterPaeth, Distance, SmallerOf, LargerOf

LEMMA PaethStbiIsReference ==
  ASSUME NEW a \in Byte, NEW b \in Byte, NEW c \in Byte
  PROVE  FilterPaethStbi(a, b, c) = FilterPaeth(a, b, c)
BY ByteSizeAssumption
   DEF Byte, FilterPaethStbi, FilterPaeth, Distance, SmallerOf, LargerOf

LEMMA PaethIsOneOfThree ==
  ASSUME NEW a \in Byte, NEW b \in Byte, NEW c \in Byte
  PROVE  FilterPaeth(a, b, c) \in {a, b, c}
BY DEF FilterPaeth

\* The three formulations of the Paeth predictor agree, and predict a byte: the encoder subtracts
\* what any decoder adds (paeth.rs, where a test that is not run by default compares them).
THEOREM PaethPredictorsAgree ==
  \A a, b, c \in Byte :
    /\ FilterPaethFpnge(a, b, c) = FilterPaeth(a, b, c)
    /\ FilterPaethStbi(a, b, c) = FilterPaeth(a, b, c)
    /\ FilterPaeth(a, b, c) \in Byte
<1> SUFFICES ASSUME NEW a \in Byte, NEW b \in Byte, NEW c \in Byte
             PROVE  /\ FilterPaethFpnge(a, b, c) = FilterPaeth(a, b, c)
                    /\ FilterPaethStbi(a, b, c) = FilterPaeth(a, b, c)
                    /\ FilterPaeth(a, b, c) \in Byte
  OBVIOUS
<1>1. FilterPaeth(a, b, c) \in Byte
  BY PaethIsOneOfThree
<1> QED BY <1>1, PaethFpngeIsReference, PaethStbiIsReference

LEMMA ByteFacts ==
  /\ 0 \in Byte /\ RowFilter \subseteq Byte
  /\ \A x, y \in Byte : x \div 2 \in Byte /\ (x + y) \div 2 \in Byte
BY ByteSizeAssumption DEF Byte, RowFilter, NoFilter, Paeth

LEMMA PredictionIsByte ==
  ASSUME NEW filter \in RowFilter, NEW b \in Builds, NEW above \in BOOLEAN,
         NEW x \in Byte, NEW y \in Byte, NEW z \in Byte
  PROVE  Prediction(filter, b, above, x, y, z) \in Byte
<1>1. PaethOf(b, x, y, z) \in Byte
  BY PaethPredictorsAgree DEF PaethOf
<1>2. x \div 2 \in Byte /\ (y + x) \div 2 \in Byte /\ 0 \in Byte
  BY ByteFacts
<1>3. Prediction(filter, b, above, x, y, z)
        \in {0, x, y, x \div 2, (y + x) \div 2, PaethOf(b, x, y, z)}
  BY DEF Prediction, RowFilter, NoFilter, Sub, Up, Avg, Paeth
<1> QED BY <1>1, <1>2, <1>3

-------------------------------------------------------------------------------
(* Rows.                                                                       *)

LEMMA RowIsSeq ==
  ASSUME NEW n \in Nat, NEW row \in Row(n)
  PROVE  row \in Seq(Byte) /\ Len(row) = n /\ DOMAIN row = 1 .. n
BY SeqDef DEF Row

LEMMA ZerosIsRow ==
  ASSUME NEW n \in Nat
  PROVE  Zeros(n) \in Row(n) /\ \A i \in 1 .. n : Zeros(n)[i] = 0
BY ByteFacts DEF Zeros, Row

LEMMA FilterInternalIsRow ==
  ASSUME NEW filter \in RowFilter, NEW n \in Nat, NEW pixel \in Nat \ {0},
         NEW previous \in Row(n), NEW current \in Row(n)
  PROVE  FilterInternal(filter, pixel, previous, current) \in Row(n)
<1>1. DOMAIN current = 1 .. n /\ \A i \in 1 .. n : current[i] \in Byte /\ previous[i] \in Byte
  BY DEF Row
<1>2. \A i \in 1 .. n : i > pixel => i - pixel \in 1 .. n
  OBVIOUS
<1>3. FilteredSub(pixel, current) \in Row(n)
  BY <1>1, <1>2, AddUndoesSub DEF FilteredSub, Row
<1>4. FilteredUp(previous, current) \in Row(n)
  BY <1>1, AddUndoesSub DEF FilteredUp, Row
<1>5. FilteredAvg(pixel, previous, current) \in Row(n)
  <2>1. ASSUME NEW i \in 1 .. n
        PROVE  WrappingSub(current[i], IF i <= pixel THEN previous[i] \div 2
                                       ELSE Average(current[i - pixel], previous[i])) \in Byte
    <3>1. CASE i <= pixel
      BY <1>1, <3>1, AddUndoesSub, ByteFacts
    <3>2. CASE i > pixel
      <4>1. Average(current[i - pixel], previous[i]) \in Byte
        BY <1>1, <1>2, <3>2, ByteFacts DEF Average
      <4> QED BY <1>1, <3>2, <4>1, AddUndoesSub
    <3> QED BY <3>1, <3>2
  <2> QED BY <1>1, <2>1 DEF FilteredAvg, Row
<1>6. \A x, y, z \in Byte : FilterPaethFpnge(x, y, z) \in Byte
  BY PaethPredictorsAgree
<1>7. FilteredPaeth(pixel, previous, current) \in Row(n)
  BY <1>1, <1>2, <1>6, AddUndoesSub, ByteFacts DEF FilteredPaeth, Row
<1> QED BY <1>3, <1>4, <1>5, <1>7
        DEF FilterInternal, RowFilter, NoFilter, Sub, Up, Avg, Paeth

\* The byte to the left of the i-th, as a predictor sees it.
LeftByte(row, pixel, i) == IF i <= pixel THEN 0 ELSE row[i - pixel]

\* What the encoder subtracts is what the decoder predicts from the same neighbours.  hasAbove
\* stands for a row above the first one, which the encoder takes for zeros and the decoder for empty.
LEMMA FilterSubtractsPrediction ==
  ASSUME NEW filter \in RowFilter, NEW n \in Nat, NEW pixel \in Nat \ {0}, NEW b \in Builds,
         NEW previous \in Row(n), NEW current \in Row(n),
         NEW above, above = << >> \/ above = previous,
         above = << >> => previous = Zeros(n),
         NEW i \in 1 .. n
  PROVE  FilterInternal(filter, pixel, previous, current)[i]
           = WrappingSub(current[i],
               Prediction(Effective(filter, above), b, above # << >>,
                          LeftByte(current, pixel, i), previous[i], LeftByte(previous, pixel, i)))
<1> DEFINE x == LeftByte(current, pixel, i)
           y == previous[i]
           z == LeftByte(previous, pixel, i)
           P == Prediction(Effective(filter, above), b, above # << >>, x, y, z)
<1>1. DOMAIN current = 1 .. n /\ current[i] \in Byte /\ y \in Byte
  BY DEF Row
<1>2. x \in Byte /\ z \in Byte
  BY ByteFacts DEF LeftByte, Row
<1>3. above = << >> => y = 0 /\ z = 0
  BY ZerosIsRow DEF LeftByte
<1>4. WrappingSub(current[i], 0) = current[i]
  BY <1>1, ByteSizeAssumption DEF WrappingSub, Byte
<1>5. CASE filter = NoFilter
  <2>1. P = 0
    BY <1>5 DEF Prediction, Effective, NoFilter, Sub, Up, Avg, Paeth
  <2> QED BY <1>4, <1>5, <2>1 DEF FilterInternal, NoFilter, Sub, Up, Avg, Paeth
<1>6. CASE filter = Sub
  <2>1. P = x
    BY <1>6 DEF Prediction, Effective, NoFilter, Sub, Up, Avg, Paeth
  <2>2. FilteredSub(pixel, current)[i] = WrappingSub(current[i], x)
    BY <1>1, <1>4 DEF FilteredSub, LeftByte
  <2> QED BY <1>6, <2>1, <2>2 DEF FilterInternal, NoFilter, Sub, Up, Avg, Paeth
<1>7. CASE filter = Up
  <2>1. P = y
    BY <1>3, <1>7 DEF Prediction, Effective, NoFilter, Sub, Up, Avg, Paeth
  <2>2. FilteredUp(previous, current)[i] = WrappingSub(current[i], y)
    BY <1>1 DEF FilteredUp
  <2> QED BY <1>7, <2>1, <2>2 DEF FilterInternal, NoFilter, Sub, Up, Avg, Paeth
<1>8. CASE filter = Avg
  <2>1. P = (y + x) \div 2
    BY <1>1, <1>2, <1>3, <1>8
       DEF Prediction, Effective, NoFilter, Sub, Up, Avg, Paeth, Byte
  <2>2. FilteredAvg(pixel, previous, current)[i] = WrappingSub(current[i], (y + x) \div 2)
    BY <1>1, <1>2 DEF FilteredAvg, Average, LeftByte, Byte
  <2> QED BY <1>8, <2>1, <2>2 DEF FilterInternal, NoFilter, Sub, Up, Avg, Paeth
<1>9. CASE filter = Paeth
  <2>1. FilterPaeth(x, 0, 0) = x
    BY <1>2 DEF FilterPaeth, Distance, SmallerOf, Byte
  <2>2. PaethOf(b, x, y, z) = FilterPaeth(x, y, z)
    BY <1>1, <1>2, PaethPredictorsAgree DEF PaethOf
  <2>3. P = FilterPaeth(x, y, z)
    BY <1>3, <1>9, <2>1, <2>2
       DEF Prediction, Effective, NoFilter, Sub, Up, Avg, Paeth
  <2>4. FilterPaethFpnge(x, y, z) = FilterPaeth(x, y, z)
    BY <1>1, <1>2, PaethPredictorsAgree
  <2>5. FilteredPaeth(pixel, previous, current)[i]
          = WrappingSub(current[i], FilterPaethFpnge(x, y, z))
    BY <1>1 DEF FilteredPaeth, LeftByte
  <2> QED BY <1>9, <2>3, <2>4, <2>5 DEF FilterInternal, NoFilter, Sub, Up, Avg, Paeth
<1> QED BY <1>5, <1>6, <1>7, <1>8, <1>9 DEF RowFilter, NoFilter, Sub, Up, Avg, Paeth

-------------------------------------------------------------------------------
(* Induction over numbers: the subsets of an interval are well-founded, so     *)
(* that a set of numbers has a least one.                                      *)

LEMMA Least ==
  ASSUME NEW S \in SUBSET Nat, S # {}
  PROVE  \E m \in S : \A n \in S : m <= n
<1>1. PICK b \in S : TRUE
  OBVIOUS
<1> DEFINE U == 0 .. b
           T == { X \in SUBSET U : \E k \in S : k <= b /\ X = 0 .. k }
<1>2. IsFiniteSet(U) /\ FiniteSubsetsOf(U) = SUBSET U
  <2>1. IsFiniteSet(U)
    BY FS_Interval
  <2> QED BY <2>1, FS_FiniteSubsetsOfFinite
<1>3. IsWellFoundedOn(StrictSubsetOrdering(U), SUBSET U)
  BY <1>2, FS_StrictSubsetOrderingWellFounded
<1>4. T \subseteq SUBSET U /\ T # {}
  <2>1. U \in SUBSET U /\ b \in S /\ b <= b /\ U = 0 .. b
    BY <1>1
  <2>2. U \in T
    BY <2>1
  <2> QED BY <2>2
<1>5. PICK X \in T : \A Y \in T : ~ (<<Y, X>> \in StrictSubsetOrdering(U))
  <2> HIDE DEF T, U
  <2> QED BY <1>3, <1>4, WFMin
<1>6. PICK k \in S : k <= b /\ X = 0 .. k
  BY <1>5
<1>7. ASSUME NEW n \in S, ~ (k <= n) PROVE FALSE
  <2>1. 0 .. n \in T
    BY <1>1, <1>6, <1>7
  <2>2. 0 .. n \subseteq X /\ 0 .. n # X
    BY <1>6, <1>7
  <2>3. <<0 .. n, X>> \in StrictSubsetOrdering(U)
    BY <2>1, <2>2, <1>4, <1>5 DEF StrictSubsetOrdering
  <2> QED BY <2>1, <2>3, <1>5
<1> QED BY <1>6, <1>7

LEMMA Induction ==
  ASSUME NEW N \in Nat, NEW S, 0 \in S, \A n \in 1 .. N : n - 1 \in S => n \in S
  PROVE  0 .. N \subseteq S
<1> SUFFICES ASSUME NEW n \in 0 .. N, n \notin S PROVE FALSE
  OBVIOUS
<1> DEFINE T == { k \in 0 .. N : k \notin S }
<1>1. PICK k \in T : \A j \in T : k <= j
  <2>1. T \in SUBSET Nat /\ T # {}
    OBVIOUS
  <2> HIDE DEF T
  <2> QED BY <2>1, Least
<1>2. k \in 1 .. N /\ k - 1 \notin T
  BY <1>1
<1> QED BY <1>1, <1>2

-------------------------------------------------------------------------------
(* What the adaptive methods compute is a number.                              *)

\* one turn of the recursion that adds the values of f over a set
Added(f, g, s) ==
  IF s = {} THEN 0
  ELSE LET x == CHOOSE x \in s : TRUE IN f[x] + g[s \ {x}]

Adding(f, g) == g = [s \in SUBSET (DOMAIN f) |-> Added(f, g, s)]

LEMMA AddingExists ==
  ASSUME NEW f, IsFiniteSet(DOMAIN f)
  PROVE  \E g : Adding(f, g)
<1> DEFINE N == Cardinality(DOMAIN f)
           Upto(n, g) == \A s \in SUBSET (DOMAIN f) : Cardinality(s) <= n => g[s] = Added(f, g, s)
           K == { n \in 0 .. N : \E g : Upto(n, g) }
<1>1. N \in Nat /\ \A s \in SUBSET (DOMAIN f) : /\ IsFiniteSet(s) /\ Cardinality(s) \in 0 .. N
                                                /\ Cardinality(s) = 0 => s = {}
  BY FS_CardinalityType, FS_Subset, FS_EmptySet
<1>2. \A s \in SUBSET (DOMAIN f) : \A x \in s :
         s \ {x} \in SUBSET (DOMAIN f) /\ Cardinality(s \ {x}) = Cardinality(s) - 1
  BY <1>1, FS_RemoveElement
<1>3. 0 \in K
  <2>1. Upto(0, [s \in SUBSET (DOMAIN f) |-> 0])
    BY <1>1 DEF Added
  <2> QED BY <1>1, <2>1
<1>4. ASSUME NEW n \in 1 .. N, n - 1 \in K PROVE n \in K
  <2>1. PICK g : Upto(n - 1, g)
    BY <1>4
  <2> DEFINE h == [s \in SUBSET (DOMAIN f) |-> Added(f, g, s)]
  <2>2. ASSUME NEW s \in SUBSET (DOMAIN f), Cardinality(s) <= n PROVE h[s] = Added(f, h, s)
    <3>1. CASE s = {}
      BY <3>1 DEF Added
    <3>2. CASE s # {}
      <4>1. PICK x : x = (CHOOSE y \in s : TRUE) /\ x \in s
        BY <3>2
      <4>2. s \ {x} \in SUBSET (DOMAIN f) /\ Cardinality(s \ {x}) <= n - 1
        <5>1. Cardinality(s) \in Nat /\ Cardinality(s) <= n /\ n \in Nat
          BY <1>1, <2>2
        <5>2. s \ {x} \in SUBSET (DOMAIN f) /\ Cardinality(s \ {x}) = Cardinality(s) - 1
          BY <1>2, <4>1
        <5> QED BY <5>1, <5>2
      <4>3. h[s \ {x}] = g[s \ {x}]
        BY <2>1, <4>2
      <4>4. Added(f, g, s) = f[x] + g[s \ {x}] /\ Added(f, h, s) = f[x] + h[s \ {x}]
        BY <3>2, <4>1 DEF Added
      <4> QED BY <4>3, <4>4
    <3> QED BY <3>1, <3>2
  <2>3. Upto(n, h)
    BY <2>2
  <2> HIDE DEF h
  <2> QED BY <1>4, <2>3
<1>5. N \in K
  <2> HIDE DEF K
  <2>1. 0 .. N \subseteq K
    BY <1>1, <1>3, <1>4, Induction
  <2> QED BY <1>1, <2>1
<1>6. PICK g : Upto(N, g)
  BY <1>5
<1> DEFINE h == [s \in SUBSET (DOMAIN f) |-> Added(f, g, s)]
<1>7. \A s \in SUBSET (DOMAIN f) : h[s] = g[s]
  BY <1>1, <1>6
<1>8. \A s \in SUBSET (DOMAIN f) : Added(f, h, s) = Added(f, g, s)
  <2> SUFFICES ASSUME NEW s \in SUBSET (DOMAIN f), s # {} PROVE Added(f, h, s) = Added(f, g, s)
    BY DEF Added
  <2>1. PICK x : x = (CHOOSE y \in s : TRUE) /\ x \in s
    OBVIOUS
  <2>2. h[s \ {x}] = g[s \ {x}]
    BY <1>2, <1>7, <2>1
  <2> HIDE DEF h
  <2> QED BY <2>1, <2>2 DEF Added
<1>9. h = [s \in SUBSET (DOMAIN f) |-> Added(f, h, s)]
  BY <1>8
<1> HIDE DEF h
<1> QED BY <1>9 DEF Adding

\* What a sum of numbers adds up to is a number.
LEMMA SumIsNumber ==
  ASSUME NEW f, IsFiniteSet(DOMAIN f), \A x \in DOMAIN f : f[x] \in Nat
  PROVE  SumFunction(f) \in Nat
<1>1. PICK g : Adding(f, g) /\ SumFunction(f) = g[DOMAIN f]
  <2>1. \E g : g = [s \in SUBSET (DOMAIN f) |->
                      IF s = {} THEN 0
                      ELSE LET x == CHOOSE x \in s : TRUE IN f[x] + g[s \ {x}]]
    BY AddingExists DEF Adding, Added
  <2>2. \E g : /\ g = [s \in SUBSET (DOMAIN f) |->
                         IF s = {} THEN 0
                         ELSE LET x == CHOOSE x \in s : TRUE IN f[x] + g[s \ {x}]]
               /\ SumFunction(f) = g[DOMAIN f]
    BY <2>1 DEF SumFunction, SumFunctionOnSet, FoldFunctionOnSet, MapThenFoldSet
  <2> QED BY <2>2 DEF Adding, Added
<1> DEFINE N == Cardinality(DOMAIN f)
           K == { n \in 0 .. N : \A s \in SUBSET (DOMAIN f) : Cardinality(s) <= n => g[s] \in Nat }
<1>2. N \in Nat /\ \A s \in SUBSET (DOMAIN f) : /\ IsFiniteSet(s) /\ Cardinality(s) \in 0 .. N
                                                /\ Cardinality(s) = 0 => s = {}
  BY FS_CardinalityType, FS_Subset, FS_EmptySet
<1>3. \A s \in SUBSET (DOMAIN f) : g[s] = Added(f, g, s)
  BY <1>1 DEF Adding
<1>4. 0 \in K
  BY <1>2, <1>3 DEF Added
<1>5. ASSUME NEW n \in 1 .. N, n - 1 \in K PROVE n \in K
  <2>1. ASSUME NEW s \in SUBSET (DOMAIN f), Cardinality(s) <= n, s # {} PROVE g[s] \in Nat
    <3>1. PICK x : x = (CHOOSE y \in s : TRUE) /\ x \in s
      BY <2>1
    <3>2. s \ {x} \in SUBSET (DOMAIN f) /\ Cardinality(s \ {x}) <= n - 1
      <4>1. Cardinality(s) \in Nat /\ Cardinality(s) <= n /\ n \in Nat /\ IsFiniteSet(s)
        BY <1>2, <2>1
      <4>2. Cardinality(s \ {x}) = Cardinality(s) - 1
        BY <3>1, <4>1, FS_RemoveElement
      <4> QED BY <4>1, <4>2
    <3>3. g[s \ {x}] \in Nat
      BY <1>5, <3>2
    <3>4. g[s] = f[x] + g[s \ {x}]
      BY <1>3, <2>1, <3>1 DEF Added
    <3> QED BY <3>1, <3>3, <3>4
  <2>2. g[{}] \in Nat
    BY <1>3 DEF Added
  <2> QED BY <1>5, <2>1, <2>2
<1>6. N \in K
  <2> HIDE DEF K
  <2>1. 0 .. N \subseteq K
    BY <1>2, <1>4, <1>5, Induction
  <2> QED BY <1>2, <2>1
<1> QED BY <1>1, <1>2, <1>6

\* A power of two is more than its exponent: there are at least as many sets of numbers as numbers.
LEMMA PowerOfTwo ==
  ASSUME NEW n \in Nat
  PROVE  2^n \in Nat /\ n < 2^n /\ 2^0 = 1
<1>1. ASSUME NEW m \in Nat PROVE /\ IsFiniteSet(SUBSET (1 .. m)) /\ Cardinality(SUBSET (1 .. m)) = 2^m
                                 /\ 2^m \in Nat
  <2>1. IsFiniteSet(1 .. m) /\ Cardinality(1 .. m) = m
    BY FS_Interval
  <2>2. IsFiniteSet(SUBSET (1 .. m)) /\ Cardinality(SUBSET (1 .. m)) = 2^m
    BY <2>1, FS_SUBSET
  <2> QED BY <2>2, FS_CardinalityType
<1>2. n < 2^n
  <2> DEFINE alone == [k \in 0 .. n |-> {k} \cap 1 .. n]
  <2>1. alone \in Injection(0 .. n, SUBSET (1 .. n))
    <3>1. \A j, k \in 0 .. n : alone[j] = alone[k] => j = k
      OBVIOUS
    <3> QED BY <3>1 DEF Injection, IsInjective
  <2>2. Cardinality(0 .. n) <= Cardinality(SUBSET (1 .. n))
    <3> HIDE DEF alone
    <3> QED BY <1>1, <2>1, FS_Injection
  <2>3. Cardinality(0 .. n) = n + 1
    BY FS_Interval
  <2>4. Cardinality(SUBSET (1 .. n)) = 2^n /\ 2^n \in Nat
    BY <1>1
  <2> HIDE DEF alone
  <2> QED BY <2>2, <2>3, <2>4
<1>3. 2^0 = 1
  <2>1. 1 .. 0 = {} /\ SUBSET {} = {{}}
    OBVIOUS
  <2>2. Cardinality({{}}) = 1
    BY FS_Singleton
  <2> QED BY <1>1, <2>1, <2>2
<1> QED BY <1>1, <1>2, <1>3

LEMMA EstimateIsNumber ==
  ASSUME NEW i \in Nat \ {0}
  PROVE  Ilog2i(i) \in Nat
<1> DEFINE K == { k \in Nat : i < 2^k }
           log == CHOOSE k \in 0 .. i : 2^k <= i /\ i < 2^(k + 1)
<1>1. PICK m \in K : \A k \in K : m <= k
  <2>1. i \in K /\ K \in SUBSET Nat
    BY PowerOfTwo
  <2> HIDE DEF K
  <2> QED BY <2>1, Least
<1>2. m # 0 /\ m <= i
  <2>1. i \in K /\ 0 \notin K
    BY PowerOfTwo
  <2> HIDE DEF K
  <2> QED BY <1>1, <2>1
<1>3. PICK j \in 0 .. i : j + 1 = m
  BY <1>1, <1>2
<1>4. 2^j \in Nat /\ ~ (j \in K)
  BY <1>1, <1>3, PowerOfTwo
<1>5. 2^j <= i /\ i < 2^(j + 1)
  BY <1>1, <1>3, <1>4
<1>6. PICK k \in 0 .. i : k = log /\ 2^k <= i
  BY <1>5
<1>7. 2^k \in Nat /\ i * k \in Nat
  BY <1>6, PowerOfTwo
<1>8. Ilog2i(i) = i * k + 2 * (i - 2^k)
  BY <1>6 DEF Ilog2i
<1> QED BY <1>6, <1>7, <1>8

\* Whatever the method thinks of a row, it is a number.
LEMMA CostIsNumber ==
  ASSUME NEW method, NEW n \in Nat, NEW row \in Row(n)
  PROVE  Cost(method, row) \in Nat
<1>0. DOMAIN row = 1 .. n /\ (\A i \in 1 .. n : row[i] \in Byte) /\ IsFiniteSet(1 .. n)
  BY FS_Interval DEF Row
<1>1. SumBuffer(row) \in Nat
  <2> DEFINE f == [i \in DOMAIN row |-> SmallerOf(row[i], ByteSize - row[i])]
  <2>1. IsFiniteSet(DOMAIN f) /\ \A i \in DOMAIN f : f[i] \in Nat
    BY <1>0, ByteSizeAssumption DEF SmallerOf, Byte
  <2>2. SumFunction(f) \in Nat
    <3> HIDE DEF f
    <3> QED BY <2>1, SumIsNumber
  <2> QED BY <2>2 DEF SumBuffer
<1>2. Entropy(row) \in Nat
  <2> DEFINE seen  == {row[i] : i \in Counted(row)}
             f     == [x \in seen |-> Ilog2i(Cardinality({i \in Counted(row) : row[i] = x}))]
             spent == SumFunction(f)
             total == Ilog2i(Cardinality(Counted(row)))
  <2>1. Counted(row) \in SUBSET (1 .. n)
    BY <1>0 DEF Counted
  <2>2. \A S \in SUBSET (1 .. n) : S # {} => Cardinality(S) \in Nat \ {0}
    BY <1>0, FS_Subset, FS_CardinalityType, FS_EmptySet
  <2>3. IsFiniteSet(seen)
    <3>1. IsFiniteSet(Byte)
      BY FS_Interval, ByteSizeAssumption DEF Byte
    <3>2. seen \in SUBSET Byte
      BY <1>0, <2>1
    <3> QED BY <3>1, <3>2, FS_Subset
  <2>4. ASSUME NEW x \in seen PROVE f[x] \in Nat
    <3>1. {i \in Counted(row) : row[i] = x} \in SUBSET (1 .. n)
      BY <2>1
    <3>2. {i \in Counted(row) : row[i] = x} # {}
      OBVIOUS
    <3>3. PICK c \in Nat \ {0} : c = Cardinality({i \in Counted(row) : row[i] = x})
      BY <2>2, <3>1, <3>2
    <3> QED BY <3>3, EstimateIsNumber
  <2>5. DOMAIN f = seen
    OBVIOUS
  <2>6. spent \in Nat
    <3> HIDE DEF f, seen
    <3> QED BY <2>3, <2>4, <2>5, SumIsNumber
  <2>7. ~ (seen \subseteq {0}) => total \in Nat
    <3>1. ~ (seen \subseteq {0}) => Counted(row) # {}
      OBVIOUS
    <3>2. Counted(row) # {} => Cardinality(Counted(row)) \in Nat \ {0}
      BY <2>1, <2>2
    <3> QED BY <3>1, <3>2, EstimateIsNumber
  <2>8. Entropy(row) = IF seen \subseteq {0} \/ total < spent THEN 0 ELSE total - spent
    BY DEF Entropy
  <2> HIDE DEF seen, spent, total
  <2> QED BY <2>6, <2>7, <2>8
<1> QED BY <1>1, <1>2 DEF Cost

-------------------------------------------------------------------------------
(* Type correctness.                                                           *)

LEMMA JobFacts ==
  ASSUME job \in Jobs
  PROVE  /\ bpp \in Nat \ {0} /\ job.width \in Nat \ {0} /\ job.height \in Nat \ {0}
         /\ job.frames \in Nat \ {0} /\ job.stream \in BOOLEAN
         /\ len \in Nat \ {0} /\ buf_len \in Nat /\ buf_len >= len
         /\ (job.stream => job.image_width = job.width) => buf_len = len
         /\ job.rows \subseteq Row(len)
<1>1. /\ bpp \in Nat \ {0} /\ job.width \in Nat \ {0} /\ job.height \in Nat \ {0}
      /\ job.frames \in Nat \ {0} /\ job.stream \in BOOLEAN
      /\ job.image_width \in Nat /\ job.image_width >= job.width
      /\ job.rows \subseteq [1 .. job.width * job.bpp -> Byte]
  BY JobsAssumption DEF bpp
<1>2. \A w, v \in Nat, k \in Nat \ {0} : v >= w => v * k >= w * k /\ v * k \in Nat
  OBVIOUS
<1>3. \A w, k \in Nat \ {0} : w * k \in Nat \ {0}
  OBVIOUS
<1>4. len \in Nat \ {0}
  BY <1>1, <1>3 DEF len, bpp
<1>5. /\ buf_len \in Nat /\ buf_len >= len
      /\ (job.stream => job.image_width = job.width) => buf_len = len
  BY <1>1, <1>2, <1>4 DEF buf_len, len, bpp
<1> QED BY <1>1, <1>4, <1>5 DEF len, Row

LEMMA FilledIsRow ==
  ASSUME TypeOK, NEW row \in Row(len)
  PROVE  /\ Filled(row) \in Row(buf_len)
         /\ buf_len = len => Filled(row) = row
<1>1. len \in Nat \ {0} /\ buf_len \in Nat /\ buf_len >= len
  BY JobFacts DEF TypeOK
<1>2. enc.current \in Row(buf_len)
  BY DEF TypeOK
<1>3. row \in Seq(Byte) /\ Len(row) = len
  BY <1>1, RowIsSeq
<1> DEFINE rest == SubSeq(enc.current, len + 1, buf_len)
<1>4. rest \in Seq(Byte) /\ Len(rest) = buf_len - len
  <2>1. \A i \in len + 1 .. buf_len : enc.current[i] \in Byte
    BY <1>1, <1>2 DEF Row
  <2>2. len + 1 \in Int /\ buf_len \in Int
    BY <1>1
  <2>3. /\ rest \in Seq(Byte)
        /\ Len(rest) = IF len + 1 <= buf_len THEN buf_len - (len + 1) + 1 ELSE 0
    BY <2>1, <2>2, SubSeqProperties
  <2> QED BY <1>1, <2>3
<1>5. row \o rest \in Seq(Byte) /\ Len(row \o rest) = buf_len
  <2>1. row \o rest \in Seq(Byte) /\ Len(row \o rest) = Len(row) + Len(rest)
    BY <1>3, <1>4, ConcatProperties
  <2> QED BY <1>1, <1>3, <1>4, <2>1
<1>6. row \o rest \in Row(buf_len)
  BY <1>5, LenProperties DEF Row
<1>7. ASSUME buf_len = len PROVE row \o rest = row
  <2>1. rest = << >>
    BY <1>1, <1>7, SubSeqEmpty
  <2> QED BY <1>3, <2>1, ConcatEmptySeq
<1> QED BY <1>6, <1>7 DEF Filled

LEMMA EncoderStartType ==
  ASSUME job \in Jobs, NEW method \in Filter, NEW stored \in BOOLEAN
  PROVE  /\ EncoderStart(method, stored) \in
              [method : Filter, stored : BOOLEAN, k : {0}, choice : RowFilter, cost : {0},
               previous : Row(buf_len), current : Row(buf_len), output : Row(buf_len)]
         /\ DecoderStart \in
              [state : {"idle"}, previous : {<< >>}, current : {<< >>}, filter : RowFilter,
               px : {0}, from : {0}, a : Row(bpp), c : Row(bpp), preds : {<< >>}]
<1>1. Zeros(buf_len) \in Row(buf_len) /\ Zeros(bpp) \in Row(bpp)
  BY JobFacts, ZerosIsRow
<1>2. NoFilter \in RowFilter
  BY DEF NoFilter, RowFilter, Paeth
<1> QED BY <1>1, <1>2 DEF EncoderStart, DecoderStart

LEMMA EmitType ==
  ASSUME TypeOK, NEW filter \in RowFilter, NEW output \in Row(buf_len), Emit(filter, output)
  PROVE  TypeOK'
<1>1. buf_len \in Nat
  BY JobFacts DEF TypeOK
<1>2. output \in Seq(Byte)
  BY <1>1, RowIsSeq
<1>3. <<filter>> \in Seq(Byte)
  BY ByteFacts
<1>4. wire \o <<filter>> \in Seq(Byte)
  BY <1>3, ConcatProperties DEF TypeOK
<1>5. wire' \in Seq(Byte)
  BY <1>2, <1>4, ConcatProperties DEF Emit
<1>6. 0 \in 0 .. Len(Candidates) + 1
  BY DEF Candidates
<1>7. enc' \in [method : Filter, stored : BOOLEAN, k : 0 .. Len(Candidates) + 1,
               choice : RowFilter, cost : Nat,
               previous : Row(buf_len), current : Row(buf_len), output : Row(buf_len)]
  BY <1>6 DEF Emit, TypeOK
<1> QED BY <1>5, <1>7 DEF Emit, TypeOK, len, bpp, buf_len

LEMMA CandidatesFacts ==
  /\ Len(Candidates) = 4 /\ DOMAIN Candidates = 1 .. 4
  /\ \A k \in 1 .. 4 : Candidates[k] \in RowFilter /\ (Candidates[k] = Paeth <=> k = 4)
BY DEF Candidates, RowFilter, NoFilter, Sub, Up, Avg, Paeth

LEMMA PixelArithmetic ==
  ASSUME NEW width \in Nat, NEW pixel \in Nat \ {0}, NEW px \in Nat, px < width
  PROVE  /\ px * pixel \in Nat
         /\ (px + 1) * pixel = px * pixel + pixel
         /\ px * pixel + pixel <= width * pixel
<1>1. px * pixel \in Nat /\ width * pixel \in Nat /\ (px + 1) * pixel = px * pixel + pixel
  OBVIOUS
<1>2. \A w, v, k \in Nat : v >= w => v * k >= w * k
  OBVIOUS
<1>3. width * pixel >= (px + 1) * pixel
  BY <1>2
<1> QED BY <1>1, <1>3

LEMMA PixelType ==
  ASSUME TypeOK, dec.state = "row", dec.px < job.width
  PROVE  /\ \A j \in 1 .. bpp : dec.px * bpp + j \in 1 .. len
         /\ AbovePixel \in Row(bpp) /\ PredictedPixel \in Row(bpp) /\ NewPixel \in Row(bpp)
         /\ \A row \in Row(len), pixel \in Row(bpp) :
              /\ WithPixel(row, pixel) \in Row(len)
              /\ \A i \in 1 .. len : WithPixel(row, pixel)[i]
                   = IF dec.px * bpp < i /\ i <= dec.px * bpp + bpp
                     THEN pixel[i - dec.px * bpp] ELSE row[i]
<1>1. /\ bpp \in Nat \ {0} /\ job.width \in Nat /\ len \in Nat
      /\ dec.px \in Nat /\ dec.px < job.width
  BY JobFacts DEF TypeOK
<1>2. dec.px * bpp \in Nat /\ dec.px * bpp + bpp <= len
  BY <1>1, PixelArithmetic DEF len, bpp
<1>3. \A j \in 1 .. bpp : dec.px * bpp + j \in 1 .. len
  BY <1>1, <1>2
<1>4. /\ dec.current \in Row(len)
      /\ hasAbove => dec.previous \in Row(len)
      /\ dec.a \in Row(bpp) /\ dec.c \in Row(bpp) /\ dec.filter \in RowFilter
      /\ build \in Builds /\ hasAbove \in BOOLEAN
  BY DEF TypeOK, hasAbove
<1>5. AbovePixel \in Row(bpp)
  <2>1. CASE hasAbove
    <3>1. \A j \in 1 .. bpp : dec.previous[dec.px * bpp + j] \in Byte
      <4>1. \A i \in 1 .. len : dec.previous[i] \in Byte
        BY <1>4, <2>1 DEF Row
      <4> QED BY <1>3, <4>1
    <3> QED BY <2>1, <3>1 DEF AbovePixel, PixelOf, Row
  <2>2. CASE ~hasAbove
    BY <1>1, <2>2, ZerosIsRow DEF AbovePixel
  <2> QED BY <2>1, <2>2
<1>6. PredictedPixel \in Row(bpp)
  <2>1. \A j \in 1 .. bpp : Prediction(dec.filter, build, hasAbove, dec.a[j], AbovePixel[j],
                                       dec.c[j]) \in Byte
    BY <1>4, <1>5, PredictionIsByte DEF Row
  <2> QED BY <2>1 DEF PredictedPixel, Row
<1>7. NewPixel \in Row(bpp)
  <2>1. \A j \in 1 .. bpp : dec.current[dec.px * bpp + j] \in Byte
    <3>1. \A i \in 1 .. len : dec.current[i] \in Byte
      BY <1>4 DEF Row
    <3> QED BY <1>3, <3>1
  <2>2. \A j \in 1 .. bpp : PredictedPixel[j] \in Byte
    BY <1>6 DEF Row
  <2>3. \A j \in 1 .. bpp :
          WrappingAdd(dec.current[dec.px * bpp + j], PredictedPixel[j]) \in Byte
    BY <2>1, <2>2, AddUndoesSub
  <2> QED BY <2>3 DEF NewPixel, Row
<1>8. ASSUME NEW row \in Row(len), NEW pixel \in Row(bpp)
      PROVE  /\ WithPixel(row, pixel) \in Row(len)
             /\ \A i \in 1 .. len : WithPixel(row, pixel)[i]
                  = IF dec.px * bpp < i /\ i <= dec.px * bpp + bpp
                    THEN pixel[i - dec.px * bpp] ELSE row[i]
  <2>1. DOMAIN row = 1 .. len
    BY DEF Row
  <2>2. \A i \in 1 .. len : dec.px * bpp < i /\ i <= dec.px * bpp + bpp
                              => i - dec.px * bpp \in 1 .. bpp
    BY <1>1, <1>2
  <2> QED BY <2>1, <2>2 DEF WithPixel, Row
<1> QED BY <1>3, <1>5, <1>6, <1>7, <1>8

LEMMA StrideWithin ==
  ASSUME NEW px \in Nat, NEW width \in Nat, (px \div Stride + 1) * Stride <= width
  PROVE  px < width
<1>1. \A s \in Nat \ {0} : px < (px \div s + 1) * s
  OBVIOUS
<1>2. Stride \in Nat \ {0} /\ px \div Stride \in Nat
  BY StrideAssumption
<1>3. px < (px \div Stride + 1) * Stride /\ (px \div Stride + 1) * Stride \in Nat
  BY <1>1, <1>2
<1> QED BY <1>3

\* TypeOK, as far as it is about the decoder
DecTypeOK ==
  /\ dec \in [state : {"idle", "row", "failed"},
              previous : {<< >>} \union Row(len), current : {<< >>} \union Row(len),
              filter : RowFilter, px : 0 .. job.width, from : 0 .. job.width,
              a : Row(bpp), c : Row(bpp), preds : {<< >>} \union Row(len)]
  /\ dec.state = "row" => /\ dec.current \in Row(len) /\ dec.preds \in Row(len)
                         /\ dec.from <= dec.px

LEMMA SameShape ==
  ASSUME UNCHANGED job
  PROVE  bpp' = bpp /\ len' = len /\ buf_len' = buf_len
BY DEF bpp, len, buf_len

LEMMA TypeInit ==
  ASSUME Init
  PROVE  TypeOK
<1>1. << >> \in Seq(Row(len)) /\ << >> \in Seq(Byte)
  BY EmptySeq
<1>2. 0 \in 0 .. job.width /\ 0 \in 0 .. Len(Candidates) + 1
  BY JobFacts, CandidatesFacts DEF Init
<1>3. PICK method \in Filter, stored \in BOOLEAN : enc = EncoderStart(method, stored)
  BY DEF Init
<1> QED BY <1>1, <1>2, <1>3, EncoderStartType DEF Init, TypeOK

LEMMA TypeStep ==
  ASSUME TypeOK, [Next]_vars
  PROVE  TypeOK'
<1>0. /\ len \in Nat /\ buf_len \in Nat /\ bpp \in Nat
      /\ job.width \in Nat /\ job.rows \subseteq Row(len)
  BY JobFacts DEF TypeOK
<1>1. ASSUME NEW row \in job.rows, GiveRow(row) PROVE TypeOK'
  <2>1. row \in Row(len) /\ Filled(row) \in Row(buf_len)
    BY <1>0, FilledIsRow
  <2>2. Append(image, row) \in Seq(Row(len))
    BY <2>1, AppendProperties DEF TypeOK
  <2>3. 1 \in 0 .. Len(Candidates) + 1
    BY CandidatesFacts
  <2> QED BY <1>1, <2>1, <2>2, <2>3 DEF GiveRow, TypeOK, len, bpp, buf_len
<1>2. CASE StoreRow
  <2>1. NoFilter \in RowFilter /\ enc.current \in Row(buf_len)
    BY DEF NoFilter, RowFilter, Paeth, TypeOK
  <2> QED BY <1>2, <2>1, EmitType DEF StoreRow
<1>3. CASE EncodePlain
  <2>1. enc.method \in RowFilter
    BY <1>3 DEF EncodePlain, ChoosesForItself, TypeOK, Filter, RowFilter,
                NoFilter, Sub, Up, Avg, Paeth, Adaptive, MinEntropy
  <2>2. FilterInternal(enc.method, bpp, enc.previous, enc.current) \in Row(buf_len)
    BY <2>1, JobFacts, FilterInternalIsRow DEF TypeOK
  <2> QED BY <1>3, <2>1, <2>2, EmitType DEF EncodePlain
<1>4. CASE TryCandidate
  <2>1. enc.k \in 1 .. 4 /\ Candidates[enc.k] \in RowFilter
    BY <1>4, CandidatesFacts DEF TryCandidate
  <2>2. Trial \in Row(buf_len) /\ Cost(enc.method, Trial) \in Nat
    <3>1. Trial \in Row(buf_len) /\ buf_len \in Nat
      BY <2>1, JobFacts, FilterInternalIsRow DEF TypeOK, Trial
    <3> QED BY <3>1, CostIsNumber
  <2>3. CASE Improves /\ Cost(enc.method, Trial) = 0
    BY <1>4, <2>1, <2>2, <2>3, EmitType DEF TryCandidate
  <2>4. CASE ~(Improves /\ Cost(enc.method, Trial) = 0)
    <3>1. enc.k + 1 \in 0 .. Len(Candidates) + 1
      BY <2>1, CandidatesFacts
    <3>2. /\ enc' = [enc EXCEPT !.k = enc.k + 1, !.output = Trial,
                        !.choice = IF Improves THEN Candidates[enc.k] ELSE enc.choice,
                        !.cost   = IF Improves THEN Cost(enc.method, Trial) ELSE enc.cost]
          /\ UNCHANGED <<job, build, frame, image, wire, dec, decoded>>
      BY <1>4, <2>4 DEF TryCandidate
    <3>3. enc' \in [method : Filter, stored : BOOLEAN, k : 0 .. Len(Candidates) + 1,
                    choice : RowFilter, cost : Nat, previous : Row(buf_len),
                    current : Row(buf_len), output : Row(buf_len)]
      BY <2>1, <2>2, <3>1, <3>2 DEF TypeOK
    <3> QED BY <3>2, <3>3 DEF TypeOK, len, bpp, buf_len
  <2> QED BY <2>3, <2>4
<1>5. CASE EncodeChosen
  <2>1. Refiltered \in Row(buf_len) /\ enc.choice \in RowFilter
    BY JobFacts, FilterInternalIsRow DEF TypeOK, Refiltered
  <2> QED BY <1>5, <2>1, EmitType DEF EncodeChosen
<1>6. ASSUME NEW method \in Filter, SetFilter(method) PROVE TypeOK'
  BY <1>6 DEF SetFilter, TypeOK, len, bpp, buf_len
<1>7. CASE ReadRow
  <2>1. /\ wire \in Seq(Byte) /\ Len(wire) \in Nat /\ len + 1 <= Len(wire)
        /\ \A i \in 1 .. Len(wire) : wire[i] \in Byte
    BY <1>7, LenProperties DEF ReadRow, TypeOK
  <2>2. SubSeq(wire, 2, len + 1) \in Row(len)
    <3>1. \A i \in 2 .. len + 1 : wire[i] \in Byte
      BY <1>0, <2>1
    <3>2. /\ SubSeq(wire, 2, len + 1) \in Seq(Byte)
          /\ Len(SubSeq(wire, 2, len + 1)) = IF 2 <= len + 1 THEN len + 1 - 2 + 1 ELSE 0
      BY <1>0, <3>1, SubSeqProperties
    <3>3. Len(SubSeq(wire, 2, len + 1)) = len
      BY <1>0, <3>2
    <3> QED BY <3>2, <3>3, LenProperties DEF Row
  <2>3. SubSeq(wire, len + 2, Len(wire)) \in Seq(Byte)
    <3>1. \A i \in len + 2 .. Len(wire) : wire[i] \in Byte
      BY <1>0, <2>1
    <3> QED BY <1>0, <2>1, <3>1, SubSeqProperties
  <2>4. \A f \in RowFilter : Effective(f, dec.previous) \in RowFilter
    BY DEF Effective, RowFilter, NoFilter, Sub, Up, Paeth
  <2>5. Zeros(bpp) \in Row(bpp) /\ Zeros(len) \in Row(len)
    BY <1>0, ZerosIsRow
  <2> DEFINE read == [dec EXCEPT !.state = "row", !.current = SubSeq(wire, 2, len + 1),
                           !.filter = Effective(wire[1], dec.previous),
                           !.px = 0, !.from = 0, !.a = Zeros(bpp), !.c = Zeros(bpp),
                           !.preds = Zeros(len)]
  <2>6. CASE IsRowFilter(wire[1])
    <3>1. dec' = read /\ wire[1] \in RowFilter
      BY <1>7, <2>6 DEF ReadRow, IsRowFilter
    <3>2. 0 \in 0 .. job.width
      BY <1>0
    <3>3. DecTypeOK'
      <4>1. dec' \in [state : {"idle", "row", "failed"},
                    previous : {<< >>} \union Row(len), current : {<< >>} \union Row(len),
                    filter : RowFilter, px : 0 .. job.width, from : 0 .. job.width,
                    a : Row(bpp), c : Row(bpp), preds : {<< >>} \union Row(len)]
        BY <2>2, <2>4, <2>5, <3>1, <3>2 DEF TypeOK
      <4>2. /\ dec'.current \in Row(len) /\ dec'.preds \in Row(len)
            /\ dec'.from = 0 /\ dec'.px = 0
        BY <2>2, <2>5, <3>1 DEF TypeOK
      <4> QED BY <1>7, <4>1, <4>2, SameShape DEF ReadRow, DecTypeOK
    <3> QED BY <1>7, <2>3, <3>3, SameShape DEF ReadRow, TypeOK, DecTypeOK
  <2>7. CASE ~IsRowFilter(wire[1])
    BY <1>7, <2>3, <2>7 DEF ReadRow, TypeOK, len, bpp, buf_len
  <2> QED BY <2>6, <2>7
<1>8. CASE UnfilterPixel
  <2>1. /\ dec.current \in Row(len) /\ AbovePixel \in Row(bpp) /\ NewPixel \in Row(bpp)
        /\ WithPixel(dec.current, NewPixel) \in Row(len) /\ dec.px + 1 \in 0 .. job.width
    <3>1. dec.state = "row" /\ dec.px < job.width /\ dec.px \in Nat
      BY <1>8 DEF UnfilterPixel, TypeOK
    <3>2. dec.current \in Row(len)
      BY <3>1 DEF TypeOK
    <3> QED BY <1>0, <3>1, <3>2, PixelType
  <2>2. dec' = [dec EXCEPT !.current = WithPixel(dec.current, NewPixel), !.a = NewPixel,
                  !.c = AbovePixel, !.px = dec.px + 1, !.from = dec.px + 1]
    BY <1>8 DEF UnfilterPixel
  <2>3. DecTypeOK'
    <3>1. dec' \in [state : {"idle", "row", "failed"},
                    previous : {<< >>} \union Row(len), current : {<< >>} \union Row(len),
                    filter : RowFilter, px : 0 .. job.width, from : 0 .. job.width,
                    a : Row(bpp), c : Row(bpp), preds : {<< >>} \union Row(len)]
      BY <2>1, <2>2 DEF TypeOK
    <3>2. /\ dec'.current \in Row(len) /\ dec'.preds \in Row(len)
          /\ dec'.from = dec.px + 1 /\ dec'.px = dec.px + 1 /\ dec.px \in Nat
      BY <1>8, <2>1, <2>2 DEF UnfilterPixel, TypeOK
    <3> QED BY <1>8, <3>1, <3>2, SameShape DEF UnfilterPixel, DecTypeOK
  <2> QED BY <1>8, <2>3, SameShape DEF UnfilterPixel, TypeOK, DecTypeOK
<1>9. CASE PredictInStride
  <2>0. dec.px < job.width
    <3>1. (dec.px \div Stride + 1) * Stride <= job.width
      BY <1>9 DEF PredictInStride, InStride
    <3>2. dec.px \in Nat
      BY DEF TypeOK
    <3> QED BY <1>0, <3>1, <3>2, StrideWithin
  <2>1. /\ dec.preds \in Row(len) /\ AbovePixel \in Row(bpp) /\ NewPixel \in Row(bpp)
        /\ WithPixel(dec.preds, PredictedPixel) \in Row(len) /\ dec.px + 1 \in 0 .. job.width
        /\ dec.from <= dec.px + 1
    <3>1. dec.state = "row" /\ dec.px \in Nat /\ dec.from \in Nat
      BY <1>9 DEF PredictInStride, TypeOK
    <3>2. dec.preds \in Row(len) /\ dec.from <= dec.px
      BY <3>1 DEF TypeOK
    <3> QED BY <1>0, <2>0, <3>1, <3>2, PixelType
  <2>2. dec' = [dec EXCEPT !.preds = WithPixel(dec.preds, PredictedPixel), !.a = NewPixel,
                  !.c = AbovePixel, !.px = dec.px + 1]
    BY <1>9 DEF PredictInStride
  <2>3. DecTypeOK'
    BY <1>9, <2>1, <2>2, SameShape DEF PredictInStride, TypeOK, DecTypeOK
  <2> QED BY <1>9, <2>3, SameShape DEF PredictInStride, TypeOK, DecTypeOK
<1>10. CASE CommitStride
  <2> DEFINE new == [i \in DOMAIN dec.current |->
                       IF dec.from * bpp < i /\ i <= dec.px * bpp
                       THEN WrappingAdd(dec.current[i], dec.preds[i]) ELSE dec.current[i]]
  <2>1. dec.current \in Row(len) /\ dec.preds \in Row(len)
    BY <1>10 DEF CommitStride, TypeOK
  <2>2. new \in Row(len)
    BY <2>1, AddUndoesSub DEF Row
  <2>3. dec' = [dec EXCEPT !.from = dec.px, !.current = new]
    BY <1>10 DEF CommitStride
  <2> HIDE DEF new
  <2>4. DecTypeOK'
    <3>1. dec' \in [state : {"idle", "row", "failed"},
                    previous : {<< >>} \union Row(len), current : {<< >>} \union Row(len),
                    filter : RowFilter, px : 0 .. job.width, from : 0 .. job.width,
                    a : Row(bpp), c : Row(bpp), preds : {<< >>} \union Row(len)]
      BY <2>2, <2>3 DEF TypeOK
    <3>2. /\ dec'.current \in Row(len) /\ dec'.preds \in Row(len)
          /\ dec'.from = dec.px /\ dec'.px = dec.px /\ dec.px \in Nat
      BY <1>10, <2>1, <2>2, <2>3 DEF TypeOK
    <3> QED BY <1>10, <3>1, <3>2, SameShape, SMTT(30) DEF CommitStride, DecTypeOK
  <2> QED BY <1>10, <2>4, SameShape DEF CommitStride, TypeOK, DecTypeOK
<1>11. CASE RowDone
  <2>1. dec.current \in Row(len)
    BY <1>11 DEF RowDone, TypeOK
  <2>2. Append(decoded, dec.current) \in Seq(Row(len))
    BY <2>1, AppendProperties DEF TypeOK
  <2> QED BY <1>11, <2>1, <2>2 DEF RowDone, TypeOK, len, bpp, buf_len
<1>12. CASE StartFrame
  <2>1. << >> \in Seq(Row(len)) /\ << >> \in Seq(Byte)
    BY EmptySeq
  <2>2. 0 \in 0 .. job.width /\ 0 \in 0 .. Len(Candidates) + 1
    BY <1>0, CandidatesFacts
  <2>3. PICK method \in Filter, stored \in BOOLEAN : enc' = NextFrame(method, stored)
    BY <1>12 DEF StartFrame
  <2>4. enc' \in [method : Filter, stored : BOOLEAN, k : 0 .. Len(Candidates) + 1,
                  choice : RowFilter, cost : Nat, previous : Row(buf_len),
                  current : Row(buf_len), output : Row(buf_len)]
    <3>1. CASE job.stream
      BY <2>3, <3>1 DEF NextFrame, TypeOK
    <3>2. CASE ~job.stream
      <4>1. enc' = EncoderStart(method, stored) /\ {0} \subseteq Nat
        BY <2>3, <3>2 DEF NextFrame
      <4>2. {0} \subseteq 0 .. Len(Candidates) + 1
        BY <2>2
      <4> QED BY <4>1, <4>2, EncoderStartType DEF TypeOK
    <3> QED BY <3>1, <3>2
  <2>5. job \in Jobs
    BY DEF TypeOK
  <2>6. dec' = DecoderStart /\ DecoderStart \in
                 [state : {"idle"}, previous : {<< >>}, current : {<< >>}, filter : RowFilter,
                  px : {0}, from : {0}, a : Row(bpp), c : Row(bpp), preds : {<< >>}]
    BY <1>12, <2>5, EncoderStartType DEF StartFrame
  <2>7. DecTypeOK'
    <3>1. dec' \in [state : {"idle", "row", "failed"},
                    previous : {<< >>} \union Row(len), current : {<< >>} \union Row(len),
                    filter : RowFilter, px : 0 .. job.width, from : 0 .. job.width,
                    a : Row(bpp), c : Row(bpp), preds : {<< >>} \union Row(len)]
      BY <2>2, <2>6
    <3>2. dec'.state = "idle"
      BY <2>6
    <3> QED BY <1>12, <3>1, <3>2, SameShape DEF StartFrame, DecTypeOK
  <2>8. frame' \in Nat \ {0}
    BY <1>12 DEF StartFrame, TypeOK
  <2> QED BY <1>12, <2>1, <2>4, <2>7, <2>8, SameShape DEF StartFrame, TypeOK, DecTypeOK
<1>13. CASE UNCHANGED vars
  BY <1>13 DEF vars, TypeOK, len, bpp, buf_len
<1> QED BY <1>1, <1>2, <1>3, <1>4, <1>5, <1>6, <1>7, <1>8, <1>9, <1>10, <1>11, <1>12, <1>13
        DEF Next

\* What the programs hold is always of its type: every byte on the wire and in a row is a byte, the
\* decoder's position stays within the row, for any images, also those a stream garbles.
THEOREM TypeCorrect == Spec => []TypeOK
<1>1. Init => TypeOK
  BY TypeInit
<1>2. TypeOK /\ [Next]_vars => TypeOK'
  BY TypeStep
<1> QED BY <1>1, <1>2, PTL DEF Spec

-------------------------------------------------------------------------------
(* The inductive invariant: what the encoder, the wire and the decoder hold,   *)
(* in terms of the rows that were given to the encoder.                        *)

\* the jobs whose rows arrive: a stream's frame is as wide as the image, and the only one
WholeRows == \A j \in Jobs : j.stream => j.image_width = j.width /\ j.frames = 1

\* rows the encoder is through with, rows the decoder has taken from the wire
Emitted == IF enc.k = 0 THEN Len(image) ELSE Len(image) - 1
Taken   == IF dec.state = "row" THEN Len(decoded) + 1 ELSE Len(decoded)

\* the row above the r-th, as the encoder sees it
AboveRow(r) == IF r = 1 THEN Zeros(len) ELSE image[r - 1]

EncoderKnows ==
  /\ enc.k > 0 => wire = << >> /\ Len(image) > 0 /\ enc.current = image[Len(image)]
  /\ enc.previous = AboveRow(Emitted + 1)

TrialsHold ==
  enc.k > 1 =>
    /\ enc.choice = Paeth => enc.k = 5
    /\ enc.output = FilterInternal(Candidates[enc.k - 1], bpp, enc.previous, enc.current)

WireHolds ==
  \/ wire = << >> /\ Emitted = Taken
  \/ /\ Emitted = Taken + 1 /\ Len(wire) = len + 1 /\ wire[1] \in RowFilter
     /\ \A i \in 1 .. len :
          wire[i + 1] = FilterInternal(wire[1], bpp, AboveRow(Emitted), image[Emitted])[i]

DecoderKnows ==
  /\ dec.state # "failed"
  /\ dec.previous = IF Len(decoded) = 0 THEN << >> ELSE image[Len(decoded)]

Guess(row, above, i) ==
  Prediction(dec.filter, build, hasAbove,
             LeftByte(row, bpp, i), above[i], LeftByte(above, bpp, i))

RowHalfDone(row, above) ==
  /\ \A i \in 1 .. len :
       dec.current[i] = IF i <= dec.from * bpp THEN row[i]
                        ELSE WrappingSub(row[i], Guess(row, above, i))
  /\ \A i \in 1 .. len :
       dec.from * bpp < i /\ i <= dec.px * bpp => dec.preds[i] = Guess(row, above, i)
  /\ \A j \in 1 .. bpp : /\ dec.a[j] = LeftByte(row, bpp, dec.px * bpp + j)
                         /\ dec.c[j] = LeftByte(above, bpp, dec.px * bpp + j)

RowUnderWay ==
  dec.state = "row" => RowHalfDone(image[Len(decoded) + 1], AboveRow(Len(decoded) + 1))

IInv == /\ TypeOK /\ EncoderKnows /\ TrialsHold /\ WireHolds
        /\ DecoderKnows /\ RowUnderWay /\ RowsRecovered

LEMMA IInvFacts ==
  ASSUME IInv
  PROVE  /\ len \in Nat \ {0} /\ bpp \in Nat \ {0} /\ job.width \in Nat \ {0}
         /\ job \in Jobs /\ build \in Builds
         /\ Len(image) \in Nat /\ Len(decoded) \in Nat /\ enc.k \in 0 .. 5
         /\ Emitted \in Nat /\ Taken \in Nat /\ Taken <= Emitted /\ Emitted <= Len(image)
         /\ \A r \in 1 .. Len(image) : image[r] \in Row(len)
         /\ \A r \in 1 .. Len(image) + 1 : AboveRow(r) \in Row(len)
<1>1. /\ len \in Nat \ {0} /\ bpp \in Nat \ {0} /\ job.width \in Nat \ {0}
      /\ job \in Jobs /\ build \in Builds
  BY JobFacts DEF IInv, TypeOK
<1>2. /\ Len(image) \in Nat /\ Len(decoded) \in Nat
      /\ \A r \in 1 .. Len(image) : image[r] \in Row(len)
  BY LenProperties DEF IInv, TypeOK
<1>3. enc.k \in 0 .. 5
  BY CandidatesFacts DEF IInv, TypeOK
<1>4. Emitted \in Nat /\ Emitted <= Len(image)
  BY <1>2, <1>3 DEF IInv, EncoderKnows, Emitted
<1>5. Taken \in Nat
  BY <1>2 DEF Taken
<1>6. Taken <= Emitted
  BY <1>4, <1>5 DEF IInv, WireHolds
<1>7. \A r \in 1 .. Len(image) + 1 : AboveRow(r) \in Row(len)
  BY <1>1, <1>2, ZerosIsRow DEF AboveRow
<1> QED BY <1>1, <1>2, <1>3, <1>4, <1>5, <1>6, <1>7

LEMMA AboveIsPrevious ==
  ASSUME IInv, dec.state # "failed", Len(decoded) <= Len(image)
  PROVE  /\ hasAbove => dec.previous = AboveRow(Len(decoded) + 1)
         /\ ~hasAbove => AboveRow(Len(decoded) + 1) = Zeros(len)
         /\ dec.previous = << >> \/ dec.previous = AboveRow(Len(decoded) + 1)
<1>1. CASE Len(decoded) = 0
  BY <1>1 DEF IInv, DecoderKnows, AboveRow, hasAbove
<1>2. CASE Len(decoded) # 0
  <2>1. Len(decoded) \in 1 .. Len(image)
    BY <1>2, IInvFacts
  <2>2. dec.previous = image[Len(decoded)] /\ dec.previous \in Row(len)
    BY <1>2, <2>1, IInvFacts DEF IInv, DecoderKnows
  <2>3. dec.previous # << >>
    BY <2>2, RowIsSeq, IInvFacts, EmptySeq
  <2> QED BY <1>2, <2>1, <2>2, <2>3 DEF AboveRow, hasAbove
<1> QED BY <1>1, <1>2

\* One pixel: the prediction is what the encoder subtracted, so adding it gives the pixel back.
LEMMA PixelRecovered ==
  ASSUME TypeOK, dec.state = "row", dec.px < job.width, dec.from <= dec.px,
         NEW row \in Row(len), NEW above \in Row(len), RowHalfDone(row, above),
         hasAbove => dec.previous = above, ~hasAbove => above = Zeros(len)
  PROVE  \A j \in 1 .. bpp :
           /\ PredictedPixel[j] = Guess(row, above, dec.px * bpp + j)
           /\ AbovePixel[j] = above[dec.px * bpp + j]
           /\ NewPixel[j] = row[dec.px * bpp + j]
<1>0. /\ bpp \in Nat \ {0} /\ len \in Nat /\ dec.px \in Nat /\ dec.from \in Nat
      /\ dec.filter \in RowFilter /\ build \in Builds /\ hasAbove \in BOOLEAN
  BY JobFacts DEF TypeOK, hasAbove
<1>1. SUFFICES ASSUME NEW j \in 1 .. bpp
               PROVE  /\ PredictedPixel[j] = Guess(row, above, dec.px * bpp + j)
                      /\ AbovePixel[j] = above[dec.px * bpp + j]
                      /\ NewPixel[j] = row[dec.px * bpp + j]
  OBVIOUS
<1>2. PICK i \in 1 .. len : i = dec.px * bpp + j
  BY PixelType
<1>3. AbovePixel[j] = above[i]
  <2>1. CASE hasAbove
    BY <1>2, <2>1 DEF AbovePixel, PixelOf
  <2>2. CASE ~hasAbove
    BY <1>0, <2>2, ZerosIsRow DEF AbovePixel
  <2> QED BY <2>1, <2>2
<1>4. dec.a[j] = LeftByte(row, bpp, i) /\ dec.c[j] = LeftByte(above, bpp, i)
  BY <1>2 DEF RowHalfDone
<1>5. PredictedPixel[j] = Guess(row, above, i)
  BY <1>3, <1>4 DEF PredictedPixel, Guess
<1>6. ~(i <= dec.from * bpp)
  <2>1. dec.from * bpp <= dec.px * bpp /\ dec.from * bpp \in Nat /\ dec.px * bpp \in Nat
    <3>1. \A w, v, k \in Nat : v >= w => v * k >= w * k /\ v * k \in Nat
      OBVIOUS
    <3> QED BY <1>0, <3>1
  <2> QED BY <1>0, <1>2, <2>1
<1>7. dec.current[i] = WrappingSub(row[i], Guess(row, above, i))
  BY <1>6 DEF RowHalfDone
<1>8. row[i] \in Byte /\ Guess(row, above, i) \in Byte
  <2>1. PredictedPixel[j] \in Byte
    BY PixelType DEF Row
  <2> QED BY <1>5, <2>1 DEF Row
<1>9. NewPixel[j] = row[i]
  BY <1>2, <1>5, <1>7, <1>8, AddUndoesSub DEF NewPixel
<1> QED BY <1>2, <1>3, <1>5, <1>9

-------------------------------------------------------------------------------
(* The steps of the encoder.                                                   *)

LEMMA ImageGrows ==
  ASSUME IInv, UNCHANGED <<job, build, dec, decoded>>,
         Len(image') \in Nat, Len(image) <= Len(image'),
         \A r \in 1 .. Len(image) : image'[r] = image[r]
  PROVE  /\ DecoderKnows' /\ RowUnderWay' /\ RowsRecovered' /\ Taken' = Taken
         /\ \A r \in 1 .. Len(image) + 1 : AboveRow(r)' = AboveRow(r)
<1>0. bpp' = bpp /\ len' = len
  BY SameShape
<1>1. \A r \in 1 .. Len(image) + 1 : AboveRow(r)' = AboveRow(r)
  <2> SUFFICES ASSUME NEW r \in 1 .. Len(image) + 1 PROVE AboveRow(r)' = AboveRow(r)
    OBVIOUS
  <2>1. r # 1 => r - 1 \in 1 .. Len(image)
    BY IInvFacts
  <2> QED BY <1>0, <2>1 DEF AboveRow
<1>2. Taken' = Taken /\ Len(decoded) <= Taken
  BY IInvFacts DEF Taken
<1>3. Len(decoded) # 0 => Len(decoded) \in 1 .. Len(image)
  BY <1>2, IInvFacts
<1>4. DecoderKnows'
  BY <1>3 DEF IInv, DecoderKnows
<1>5. RowsRecovered'
  BY <1>2, <1>3, IInvFacts DEF IInv, RowsRecovered
<1>6. ASSUME dec.state = "row" PROVE RowUnderWay'
  <2>1. Len(decoded) + 1 \in 1 .. Len(image)
    BY <1>6, IInvFacts DEF Taken
  <2>2. /\ image'[Len(decoded) + 1] = image[Len(decoded) + 1]
        /\ AboveRow(Len(decoded) + 1)' = AboveRow(Len(decoded) + 1)
    BY <1>1, <2>1, IInvFacts
  <2>3. RowHalfDone(image[Len(decoded) + 1], AboveRow(Len(decoded) + 1))
    BY <1>6 DEF IInv, RowUnderWay
  <2> QED BY <1>0, <2>2, <2>3 DEF RowUnderWay, RowHalfDone, Guess, hasAbove
<1>7. RowUnderWay'
  BY <1>6 DEF RowUnderWay
<1> QED BY <1>1, <1>2, <1>4, <1>5, <1>7

LEMMA GiveRowStep ==
  ASSUME IInv, buf_len = len, NEW row \in job.rows, GiveRow(row)
  PROVE  EncoderKnows' /\ TrialsHold' /\ WireHolds' /\ DecoderKnows' /\ RowUnderWay' /\ RowsRecovered'
<1>1. row \in Row(len) /\ image \in Seq(Row(len))
  BY JobFacts DEF IInv, TypeOK
<1>2. /\ Len(image') = Len(image) + 1 /\ image'[Len(image) + 1] = row
      /\ \A r \in 1 .. Len(image) : image'[r] = image[r]
  BY <1>1, AppendProperties DEF GiveRow
<1>3. /\ DecoderKnows' /\ RowUnderWay' /\ RowsRecovered' /\ Taken' = Taken
      /\ \A r \in 1 .. Len(image) + 1 : AboveRow(r)' = AboveRow(r)
  BY <1>2, ImageGrows, IInvFacts DEF GiveRow
<1>4. enc'.k = 1 /\ enc'.current = row /\ enc'.previous = enc.previous /\ enc.k = 0
  BY <1>1, FilledIsRow DEF GiveRow, IInv, TypeOK
<1>5. Emitted = Len(image) /\ Emitted' = Len(image)
  BY <1>2, <1>4, IInvFacts DEF Emitted
<1>6. wire = << >> /\ wire' = << >> /\ Emitted = Taken
  BY IInvFacts DEF GiveRow, IInv, WireHolds
<1>7. EncoderKnows'
  <2>1. PICK n \in 1 .. Len(image) + 1 : n = Len(image) + 1
    BY IInvFacts
  <2>2. AboveRow(n)' = AboveRow(n) /\ Emitted' + 1 = n
    BY <1>3, <1>5, <2>1
  <2>3. enc'.previous = AboveRow(n)'
    BY <1>4, <1>5, <2>1, <2>2 DEF IInv, EncoderKnows
  <2>4. enc'.previous = AboveRow(Emitted + 1)'
    BY <2>2, <2>3
  <2> QED BY <1>2, <1>4, <1>6, <2>4, IInvFacts DEF EncoderKnows
<1>8. TrialsHold'
  BY <1>4 DEF TrialsHold
<1>9. WireHolds'
  BY <1>3, <1>5, <1>6 DEF WireHolds
<1> QED BY <1>3, <1>7, <1>8, <1>9

LEMMA EmitStep ==
  ASSUME IInv, buf_len = len, enc.k > 0, NEW filter \in RowFilter,
         NEW output, output = FilterInternal(filter, bpp, enc.previous, enc.current),
         Emit(filter, output)
  PROVE  EncoderKnows' /\ TrialsHold' /\ WireHolds' /\ DecoderKnows' /\ RowUnderWay' /\ RowsRecovered'
<1>0. /\ enc.previous \in Row(len) /\ enc.current \in Row(len) /\ bpp' = bpp /\ len' = len
      /\ len \in Nat \ {0} /\ bpp \in Nat \ {0}
  BY IInvFacts, SameShape DEF IInv, TypeOK, Emit
<1>1. output \in Row(len)
  BY <1>0, FilterInternalIsRow
<1>2. /\ wire = << >> /\ Emitted = Len(image) - 1 /\ Len(image) \in Nat \ {0}
      /\ enc.current = image[Len(image)] /\ enc.previous = AboveRow(Len(image))
  BY IInvFacts DEF IInv, EncoderKnows, Emitted
<1>3. Taken = Emitted
  BY <1>2, <1>0, IInvFacts, EmptySeq DEF IInv, WireHolds
<1>4. /\ DecoderKnows' /\ RowUnderWay' /\ RowsRecovered' /\ Taken' = Taken
      /\ \A r \in 1 .. Len(image) + 1 : AboveRow(r)' = AboveRow(r)
  BY <1>2, ImageGrows DEF Emit
<1>5. /\ enc'.k = 0 /\ enc'.previous = enc.current /\ image' = image
  BY DEF Emit, IInv, TypeOK
<1>6. Emitted' = Len(image)
  BY <1>5 DEF Emitted
<1>7. EncoderKnows'
  <2>1. AboveRow(Len(image) + 1)' = image[Len(image)]
    BY <1>2, <1>5 DEF AboveRow
  <2> QED BY <1>2, <1>5, <1>6, <2>1 DEF EncoderKnows
<1>8. TrialsHold'
  BY <1>5 DEF TrialsHold
<1>9. /\ Len(wire') = len + 1 /\ wire'[1] = filter
      /\ \A i \in 1 .. len : wire'[i + 1] = output[i]
  <2>1. output \in Seq(Byte) /\ Len(output) = len
    BY <1>0, <1>1, RowIsSeq
  <2>2. <<filter>> \in Seq(Byte) /\ Len(<<filter>>) = 1 /\ <<filter>>[1] = filter
    BY ByteFacts
  <2>3. wire' = <<filter>> \o output
    <3>1. << >> \o <<filter>> = <<filter>>
      BY <2>2, ConcatEmptySeq
    <3> QED BY <1>2, <3>1 DEF Emit
  <2>4. /\ Len(wire') = 1 + len
        /\ \A i \in 1 .. 1 + len : wire'[i] = IF i <= 1 THEN <<filter>>[i] ELSE output[i - 1]
    BY <2>1, <2>2, <2>3, ConcatProperties
  <2>5. wire'[1] = filter
    BY <1>0, <2>2, <2>4
  <2>6. ASSUME NEW i \in 1 .. len PROVE wire'[i + 1] = output[i]
    <3>1. i + 1 \in 1 .. 1 + len /\ ~(i + 1 <= 1) /\ (i + 1) - 1 = i
      BY <1>0
    <3> QED BY <2>4, <3>1
  <2> QED BY <1>0, <2>4, <2>5, <2>6
<1>10. WireHolds'
  <2>1. PICK n \in 1 .. Len(image) + 1 : n = Len(image)
    BY <1>2
  <2>2. AboveRow(n)' = enc.previous /\ image'[n] = enc.current /\ Emitted' = n
    BY <1>2, <1>4, <1>5, <1>6, <2>1
  <2>3. Emitted' = Taken' + 1
    BY <1>2, <1>3, <1>4, <1>6
  <2>4. AboveRow(Emitted)' = enc.previous /\ image'[Emitted'] = enc.current
    BY <2>2
  <2> QED BY <1>0, <1>9, <2>3, <2>4 DEF WireHolds
<1> QED BY <1>4, <1>7, <1>8, <1>10

LEMMA TrialStep ==
  ASSUME IInv, TryCandidate, buf_len = len
  PROVE  EncoderKnows' /\ TrialsHold' /\ WireHolds' /\ DecoderKnows' /\ RowUnderWay' /\ RowsRecovered'
<1>0. enc.k \in 1 .. 4 /\ Candidates[enc.k] \in RowFilter /\ (Candidates[enc.k] = Paeth <=> enc.k = 4)
  BY CandidatesFacts DEF TryCandidate
<1>1. CASE Improves /\ Cost(enc.method, Trial) = 0
  BY <1>0, <1>1, EmitStep DEF TryCandidate, Trial
<1>2. CASE ~(Improves /\ Cost(enc.method, Trial) = 0)
  <2>1. /\ enc' = [enc EXCEPT !.k = enc.k + 1, !.output = Trial,
                     !.choice = IF Improves THEN Candidates[enc.k] ELSE enc.choice,
                     !.cost   = IF Improves THEN Cost(enc.method, Trial) ELSE enc.cost]
        /\ UNCHANGED <<job, build, frame, image, wire, dec, decoded>>
    BY <1>2 DEF TryCandidate
  <2>2. /\ enc'.k = enc.k + 1 /\ enc'.output = Trial
        /\ enc'.choice \in {Candidates[enc.k], enc.choice}
        /\ enc'.current = enc.current /\ enc'.previous = enc.previous
        /\ enc.k = 1 => enc'.choice = Candidates[enc.k]
    BY <2>1 DEF IInv, TypeOK, Improves
  <2>3. Emitted' = Emitted
    BY <1>0, <2>1, <2>2 DEF Emitted
  <2>4. /\ DecoderKnows' /\ RowUnderWay' /\ RowsRecovered' /\ Taken' = Taken
        /\ \A r \in 1 .. Len(image) + 1 : AboveRow(r)' = AboveRow(r)
    BY <2>1, ImageGrows, IInvFacts
  <2>5. bpp' = bpp /\ len' = len
    BY <2>1, SameShape
  <2>6. Emitted + 1 \in 1 .. Len(image) + 1 /\ Emitted \in Nat
    BY IInvFacts
  <2>7. EncoderKnows'
    <3>1. PICK n \in 1 .. Len(image) + 1 : n = Emitted + 1
      BY <2>6
    <3>2. AboveRow(n)' = AboveRow(n) /\ Emitted' + 1 = n
      BY <2>3, <2>4, <3>1
    <3>3. AboveRow(Emitted + 1)' = AboveRow(n)
      BY <3>2
    <3> QED BY <1>0, <2>1, <2>2, <3>1, <3>3 DEF IInv, EncoderKnows
  <2>8. TrialsHold'
    <3>1. enc'.k - 1 = enc.k
      BY <1>0, <2>2
    <3>2. enc'.choice = Paeth => enc'.k = 5
      BY <1>0, <2>2 DEF IInv, TrialsHold
    <3> QED BY <2>2, <2>5, <3>1, <3>2 DEF TrialsHold, Trial
  <2>9. WireHolds'
    <3>1. wire = << >> /\ Emitted = Taken
      <4>1. wire = << >>
        BY <1>0 DEF IInv, EncoderKnows
      <4>2. len \in Nat /\ Len(wire) = 0
        BY <4>1, IInvFacts, EmptySeq
      <4>3. Len(wire) # len + 1
        BY <4>2
      <4> QED BY <4>1, <4>3 DEF IInv, WireHolds
    <3> QED BY <2>1, <2>3, <2>4, <3>1 DEF WireHolds
  <2> QED BY <2>4, <2>7, <2>8, <2>9
<1> QED BY <1>1, <1>2

LEMMA EncodeStep ==
  ASSUME IInv, buf_len = len, StoreRow \/ EncodePlain \/ EncodeChosen
  PROVE  EncoderKnows' /\ TrialsHold' /\ WireHolds' /\ DecoderKnows' /\ RowUnderWay' /\ RowsRecovered'
<1>1. CASE StoreRow
  <2>1. NoFilter \in RowFilter
    BY DEF NoFilter, RowFilter, Paeth
  <2>2. enc.current = FilterInternal(NoFilter, bpp, enc.previous, enc.current)
    BY DEF FilterInternal, NoFilter, Sub, Up, Avg, Paeth
  <2> QED BY <1>1, <2>1, <2>2, EmitStep DEF StoreRow
<1>2. CASE EncodePlain
  <2>1. enc.method \in RowFilter
    BY <1>2 DEF EncodePlain, ChoosesForItself, IInv, TypeOK, Filter, RowFilter,
                NoFilter, Sub, Up, Avg, Paeth, Adaptive, MinEntropy
  <2> QED BY <1>2, <2>1, EmitStep DEF EncodePlain
<1>3. CASE EncodeChosen
  <2>1. enc.k = 5 /\ enc.choice \in RowFilter
    BY <1>3, CandidatesFacts DEF EncodeChosen, IInv, TypeOK
  <2>2. enc.output = FilterInternal(Paeth, bpp, enc.previous, enc.current)
    BY <2>1, CandidatesFacts DEF IInv, TrialsHold
  <2>3. Refiltered = FilterInternal(enc.choice, bpp, enc.previous, enc.current)
    BY <2>2 DEF Refiltered
  <2> QED BY <1>3, <2>1, <2>3, EmitStep DEF EncodeChosen
<1> QED BY <1>1, <1>2, <1>3

-------------------------------------------------------------------------------
(* The steps of the decoder.                                                   *)

LEMMA EncoderStill ==
  ASSUME IInv, UNCHANGED <<job, build, image, enc>>, enc.k = 0 \/ UNCHANGED wire
  PROVE  /\ EncoderKnows' /\ TrialsHold' /\ Emitted' = Emitted /\ bpp' = bpp /\ len' = len
         /\ \A r \in Nat : AboveRow(r)' = AboveRow(r)
<1>1. bpp' = bpp /\ len' = len
  BY SameShape
<1>2. \A r \in Nat : AboveRow(r)' = AboveRow(r)
  BY <1>1 DEF AboveRow
<1>3. Emitted' = Emitted
  BY DEF Emitted
<1>4. PICK n \in Nat : n = Emitted + 1
  BY IInvFacts
<1>5. AboveRow(Emitted + 1)' = AboveRow(n)
  BY <1>2, <1>3, <1>4
<1> QED BY <1>1, <1>2, <1>3, <1>4, <1>5 DEF IInv, EncoderKnows, TrialsHold

\* the row the decoder is at, and the one above
LEMMA RowInHand ==
  ASSUME IInv, dec.state = "row"
  PROVE  /\ Len(decoded) + 1 \in 1 .. Len(image)
         /\ Taken = Len(decoded) + 1
         /\ \E row, above \in Row(len) :
              /\ row = image[Len(decoded) + 1] /\ above = AboveRow(Len(decoded) + 1)
              /\ RowHalfDone(row, above)
              /\ hasAbove => dec.previous = above
              /\ ~hasAbove => above = Zeros(len)
<1>1. Taken = Len(decoded) + 1 /\ Len(decoded) + 1 \in 1 .. Len(image)
  BY IInvFacts DEF Taken
<1>2. image[Len(decoded) + 1] \in Row(len) /\ AboveRow(Len(decoded) + 1) \in Row(len)
  BY <1>1, IInvFacts
<1>3. /\ hasAbove => dec.previous = AboveRow(Len(decoded) + 1)
      /\ ~hasAbove => AboveRow(Len(decoded) + 1) = Zeros(len)
  BY <1>1, AboveIsPrevious, IInvFacts
<1>4. RowHalfDone(image[Len(decoded) + 1], AboveRow(Len(decoded) + 1))
  BY DEF IInv, RowUnderWay
<1> QED BY <1>1, <1>2, <1>3, <1>4

\* A step within a row need only keep what is said of that row.
LEMMA WithinRow ==
  ASSUME IInv, UNCHANGED <<job, build, image, enc, wire, decoded>>, dec.state = "row",
         dec'.state = "row", dec'.previous = dec.previous,
         NEW row, row = image[Len(decoded) + 1],
         NEW above, above = AboveRow(Len(decoded) + 1),
         RowHalfDone(row, above)'
  PROVE  EncoderKnows' /\ TrialsHold' /\ WireHolds' /\ DecoderKnows' /\ RowUnderWay' /\ RowsRecovered'
<1>1. /\ EncoderKnows' /\ TrialsHold' /\ Emitted' = Emitted /\ bpp' = bpp /\ len' = len
      /\ \A r \in Nat : AboveRow(r)' = AboveRow(r)
  BY EncoderStill
<1>2. Taken' = Taken
  BY DEF Taken
<1>3. WireHolds'
  <2>1. PICK n \in Nat : n = Emitted
    BY IInvFacts
  <2>2. AboveRow(Emitted)' = AboveRow(Emitted)
    BY <1>1, <2>1
  <2> QED BY <1>1, <1>2, <2>2 DEF IInv, WireHolds
<1>4. DecoderKnows' /\ RowsRecovered'
  BY DEF IInv, DecoderKnows, RowsRecovered
<1>5. RowUnderWay'
  <2>1. PICK n \in Nat : n = Len(decoded) + 1
    BY IInvFacts
  <2>2. AboveRow(Len(decoded) + 1)' = above /\ image'[Len(decoded') + 1] = row
    BY <1>1, <2>1
  <2> QED BY <2>2 DEF RowUnderWay
<1> QED BY <1>1, <1>3, <1>4, <1>5

LEMMA ReadRowStep ==
  ASSUME IInv, ReadRow
  PROVE  EncoderKnows' /\ TrialsHold' /\ WireHolds' /\ DecoderKnows' /\ RowUnderWay' /\ RowsRecovered'
<1>0. /\ len \in Nat \ {0} /\ bpp \in Nat \ {0} /\ wire \in Seq(Byte) /\ build \in Builds
      /\ Len(decoded) \in Nat
  BY IInvFacts DEF IInv, TypeOK
<1>1. wire # << >> /\ enc.k = 0
  <2>1. Len(wire) >= len + 1
    BY DEF ReadRow
  <2>2. wire # << >>
    BY <1>0, <2>1, EmptySeq
  <2> QED BY <2>2, IInvFacts DEF IInv, EncoderKnows
<1>2. PICK n \in 1 .. Len(image) : n = Emitted
  BY <1>1, IInvFacts DEF IInv, WireHolds
<1>3. /\ Emitted = Taken + 1 /\ n = Len(decoded) + 1
      /\ Len(wire) = len + 1 /\ wire[1] \in RowFilter
      /\ \A i \in 1 .. len :
           wire[i + 1] = FilterInternal(wire[1], bpp, AboveRow(n), image[n])[i]
  BY <1>1, <1>2, IInvFacts DEF IInv, WireHolds, Taken, ReadRow
<1> DEFINE row   == image[n]
           above == AboveRow(n)
<1>4. /\ row \in Row(len) /\ above \in Row(len)
      /\ hasAbove => dec.previous = above
      /\ ~hasAbove => above = Zeros(len)
      /\ dec.previous = << >> \/ dec.previous = above
  BY <1>2, <1>3, IInvFacts, AboveIsPrevious DEF ReadRow
<1>5. /\ dec' = [dec EXCEPT !.state = "row", !.current = SubSeq(wire, 2, len + 1),
                        !.filter = Effective(wire[1], dec.previous),
                        !.px = 0, !.from = 0, !.a = Zeros(bpp), !.c = Zeros(bpp),
                        !.preds = Zeros(len)]
      /\ UNCHANGED <<job, build, image, enc, decoded>>
      /\ wire' = SubSeq(wire, len + 2, Len(wire))
  BY <1>3 DEF ReadRow, IsRowFilter
<1>6. /\ EncoderKnows' /\ TrialsHold' /\ Emitted' = Emitted /\ bpp' = bpp /\ len' = len
      /\ \A r \in Nat : AboveRow(r)' = AboveRow(r)
  BY <1>1, <1>5, EncoderStill
<1>7. /\ dec'.state = "row" /\ dec'.current = SubSeq(wire, 2, len + 1)
      /\ dec'.filter = Effective(wire[1], dec.previous) /\ dec'.px = 0 /\ dec'.from = 0
      /\ dec'.a = Zeros(bpp) /\ dec'.c = Zeros(bpp) /\ dec'.previous = dec.previous
  BY <1>5 DEF IInv, TypeOK
<1>8. wire' = << >>
  <2>1. len + 2 > Len(wire) /\ Len(wire) \in Int /\ len + 2 \in Int
    BY <1>0, <1>3
  <2> QED BY <1>5, <2>1, SubSeqEmpty
<1>9. WireHolds'
  BY <1>3, <1>5, <1>6, <1>7, <1>8, <1>2, <1>0 DEF WireHolds, Taken
<1>10. DecoderKnows' /\ RowsRecovered'
  BY <1>5, <1>7 DEF IInv, DecoderKnows, RowsRecovered
<1>11. RowHalfDone(row, above)'
  <2>1. \A j \in 1 .. bpp : /\ dec'.a[j] = LeftByte(row, bpp, dec'.px * bpp + j)
                            /\ dec'.c[j] = LeftByte(above, bpp, dec'.px * bpp + j)
    <3>1. dec'.px * bpp = 0
      BY <1>0, <1>7
    <3> QED BY <1>0, <1>7, <3>1, ZerosIsRow DEF LeftByte
  <2>2. \A i \in 1 .. len : dec'.current[i] = wire[i + 1]
    <3>1. \A i \in 2 .. len + 1 : wire[i] \in Byte
      BY <1>0, <1>3, LenProperties
    <3>2. \A i \in 1 .. len : SubSeq(wire, 2, len + 1)[i] = wire[2 + i - 1]
      BY <1>0, <3>1, SubSeqProperties
    <3>3. \A i \in 1 .. len : 2 + i - 1 = i + 1
      BY <1>0
    <3> QED BY <1>7, <3>2, <3>3
  <2>3. ASSUME NEW i \in 1 .. len
        PROVE  dec'.current[i] = WrappingSub(row[i],
                 Prediction(dec'.filter, build, dec.previous # << >>,
                            LeftByte(row, bpp, i), above[i], LeftByte(above, bpp, i)))
    <3>1. FilterInternal(wire[1], bpp, above, row)[i]
            = WrappingSub(row[i],
                Prediction(Effective(wire[1], dec.previous), build, dec.previous # << >>,
                           LeftByte(row, bpp, i), above[i], LeftByte(above, bpp, i)))
      <4>1. dec.previous = << >> => above = Zeros(len)
        BY <1>4 DEF hasAbove
      <4> HIDE DEF row, above
      <4> QED BY <1>0, <1>3, <1>4, <4>1, FilterSubtractsPrediction
    <3>2. dec'.current[i] = FilterInternal(wire[1], bpp, above, row)[i]
      BY <1>3, <2>2
    <3> QED BY <1>7, <3>1, <3>2
  <2>4. \A i \in 1 .. len : ~(i <= dec'.from * bpp) /\ ~(i <= dec'.px * bpp)
    BY <1>0, <1>7
  <2>5. image'[n] = row /\ AboveRow(n)' = above
    BY <1>2, <1>5, <1>6
  <2>6. /\ len' = len /\ bpp' = bpp /\ build' = build /\ row' = row /\ above' = above
        /\ hasAbove' = (dec.previous # << >>)
    BY <1>5, <1>6, <1>7, <2>5 DEF hasAbove
  <2> HIDE DEF row, above
  <2>7. \A i \in 1 .. len :
          /\ dec'.current[i] = WrappingSub(row[i], Guess(row, above, i)')
          /\ ~(i <= dec'.from * bpp) /\ ~(i <= dec'.px * bpp)
    BY <1>7, <2>3, <2>4, <2>6 DEF Guess
  <2> QED BY <2>1, <2>6, <2>7 DEF RowHalfDone
<1>12. RowUnderWay'
  <2>1. /\ AboveRow(Len(decoded) + 1)' = AboveRow(n)'
        /\ image'[Len(decoded') + 1] = image'[n]
    BY <1>3, <1>5
  <2> QED BY <1>11, <2>1 DEF RowUnderWay
<1> QED BY <1>6, <1>9, <1>10, <1>12

LEMMA UnfilterPixelStep ==
  ASSUME IInv, UnfilterPixel
  PROVE  EncoderKnows' /\ TrialsHold' /\ WireHolds' /\ DecoderKnows' /\ RowUnderWay' /\ RowsRecovered'
<1>0. /\ TypeOK /\ dec.state = "row" /\ dec.px < job.width /\ dec.from = dec.px
      /\ len \in Nat /\ bpp \in Nat \ {0} /\ job.width \in Nat /\ dec.px \in Nat
      /\ UNCHANGED <<job, build, frame, image, enc, wire, decoded>>
  BY IInvFacts DEF UnfilterPixel, IInv, TypeOK
<1>1. PICK row, above \in Row(len) :
         /\ row = image[Len(decoded) + 1] /\ above = AboveRow(Len(decoded) + 1)
         /\ RowHalfDone(row, above)
         /\ hasAbove => dec.previous = above
         /\ ~hasAbove => above = Zeros(len)
  BY <1>0, RowInHand
<1>2. dec' = [dec EXCEPT !.current = WithPixel(dec.current, NewPixel), !.a = NewPixel,
                !.c = AbovePixel, !.px = dec.px + 1, !.from = dec.px + 1]
  BY DEF UnfilterPixel
<1>3. /\ dec'.state = "row" /\ dec'.previous = dec.previous /\ dec'.filter = dec.filter
      /\ dec'.current = WithPixel(dec.current, NewPixel) /\ dec'.a = NewPixel
      /\ dec'.c = AbovePixel /\ dec'.px = dec.px + 1 /\ dec'.from = dec.px + 1
  BY <1>0, <1>2 DEF TypeOK
<1>4. PICK p \in Nat : /\ p = dec.px * bpp /\ dec'.px * bpp = p + bpp
                       /\ dec'.from * bpp = p + bpp /\ p + bpp <= len
  <2>1. /\ dec.px * bpp \in Nat /\ (dec.px + 1) * bpp = dec.px * bpp + bpp
        /\ dec.px * bpp + bpp <= len
    BY <1>0, PixelArithmetic DEF len, bpp
  <2> QED BY <1>3, <2>1
<1>5. \A j \in 1 .. bpp : NewPixel[j] = row[p + j] /\ AbovePixel[j] = above[p + j]
  <2>1. dec.from <= dec.px
    BY <1>0
  <2> QED BY <1>0, <1>1, <1>4, <2>1, PixelRecovered
<1>6. \A i \in 1 .. len : WithPixel(dec.current, NewPixel)[i]
                            = IF p < i /\ i <= p + bpp THEN NewPixel[i - p] ELSE dec.current[i]
  <2>1. dec.current \in Row(len)
    BY <1>0 DEF TypeOK
  <2> QED BY <1>0, <1>4, <2>1, PixelType
<1>7. bpp' = bpp /\ len' = len
  BY <1>0, SameShape
<1>8. \A i \in 1 .. len :
        dec'.current[i] = IF i <= p + bpp THEN row[i] ELSE WrappingSub(row[i], Guess(row, above, i))
  <2> SUFFICES ASSUME NEW i \in 1 .. len
               PROVE  dec'.current[i] = IF i <= p + bpp THEN row[i]
                                        ELSE WrappingSub(row[i], Guess(row, above, i))
    OBVIOUS
  <2>1. dec.current[i] = IF i <= p THEN row[i] ELSE WrappingSub(row[i], Guess(row, above, i))
    BY <1>0, <1>1, <1>4 DEF RowHalfDone
  <2>2. CASE p < i /\ i <= p + bpp
    <3>1. i - p \in 1 .. bpp /\ p + (i - p) = i
      BY <1>0, <2>2
    <3>2. NewPixel[i - p] = row[p + (i - p)]
      BY <1>5, <3>1
    <3> QED BY <1>3, <1>6, <2>2, <3>1, <3>2
  <2>3. CASE ~(p < i /\ i <= p + bpp)
    <3>1. dec'.current[i] = dec.current[i] /\ (i <= p <=> i <= p + bpp)
      BY <1>0, <1>3, <1>6, <2>3
    <3> QED BY <2>1, <3>1
  <2> QED BY <2>2, <2>3
<1>9. \A j \in 1 .. bpp : /\ dec'.a[j] = LeftByte(row, bpp, p + bpp + j)
                          /\ dec'.c[j] = LeftByte(above, bpp, p + bpp + j)
  <2>1. \A j \in 1 .. bpp : ~(p + bpp + j <= bpp) /\ (p + bpp + j) - bpp = p + j
    BY <1>0
  <2> QED BY <1>3, <1>5, <2>1 DEF LeftByte
<1>10. \A i \in 1 .. len : Guess(row, above, i)' = Guess(row, above, i)
  BY <1>0, <1>3, <1>7 DEF Guess, hasAbove
<1>11. \A i \in 1 .. len : ~(dec'.from * bpp < i /\ i <= dec'.px * bpp)
  BY <1>0, <1>4
<1>12. RowHalfDone(row, above)'
  BY <1>4, <1>7, <1>8, <1>9, <1>10, <1>11 DEF RowHalfDone
<1> QED BY <1>0, <1>1, <1>3, <1>12, WithinRow

LEMMA PredictInStrideStep ==
  ASSUME IInv, PredictInStride
  PROVE  EncoderKnows' /\ TrialsHold' /\ WireHolds' /\ DecoderKnows' /\ RowUnderWay' /\ RowsRecovered'
<1>0. /\ TypeOK /\ dec.state = "row" /\ dec.px < job.width /\ dec.from <= dec.px
      /\ len \in Nat /\ bpp \in Nat \ {0} /\ job.width \in Nat /\ dec.px \in Nat
      /\ UNCHANGED <<job, build, frame, image, enc, wire, decoded>>
  <2>1. (dec.px \div Stride + 1) * Stride <= job.width
    BY DEF PredictInStride, InStride
  <2>2. dec.px \in Nat /\ job.width \in Nat
    BY IInvFacts DEF IInv, TypeOK
  <2>3. dec.px < job.width
    BY <2>1, <2>2, StrideWithin
  <2> QED BY <2>2, <2>3, IInvFacts DEF PredictInStride, IInv, TypeOK
<1>1. PICK row, above \in Row(len) :
         /\ row = image[Len(decoded) + 1] /\ above = AboveRow(Len(decoded) + 1)
         /\ RowHalfDone(row, above)
         /\ hasAbove => dec.previous = above
         /\ ~hasAbove => above = Zeros(len)
  BY <1>0, RowInHand
<1>2. dec' = [dec EXCEPT !.preds = WithPixel(dec.preds, PredictedPixel), !.a = NewPixel,
                !.c = AbovePixel, !.px = dec.px + 1]
  BY DEF PredictInStride
<1>3. /\ dec'.state = "row" /\ dec'.previous = dec.previous /\ dec'.filter = dec.filter
      /\ dec'.preds = WithPixel(dec.preds, PredictedPixel) /\ dec'.a = NewPixel
      /\ dec'.c = AbovePixel /\ dec'.px = dec.px + 1 /\ dec'.from = dec.from
      /\ dec'.current = dec.current
  BY <1>0, <1>2 DEF TypeOK
<1>4. PICK p \in Nat : p = dec.px * bpp /\ dec'.px * bpp = p + bpp /\ p + bpp <= len
  BY <1>0, <1>3, PixelArithmetic DEF len, bpp
<1>5. \A j \in 1 .. bpp : /\ PredictedPixel[j] = Guess(row, above, p + j)
                          /\ NewPixel[j] = row[p + j] /\ AbovePixel[j] = above[p + j]
  BY <1>0, <1>1, <1>4, PixelRecovered
<1>6. \A i \in 1 .. len : dec'.preds[i] = IF p < i /\ i <= p + bpp THEN PredictedPixel[i - p]
                                          ELSE dec.preds[i]
  <2>1. dec.preds \in Row(len) /\ PredictedPixel \in Row(bpp)
    BY <1>0, PixelType DEF TypeOK
  <2>2. \A i \in 1 .. len : WithPixel(dec.preds, PredictedPixel)[i]
                              = IF p < i /\ i <= p + bpp THEN PredictedPixel[i - p] ELSE dec.preds[i]
    BY <1>0, <1>4, <2>1, PixelType
  <2> QED BY <1>3, <2>2
<1>7. bpp' = bpp /\ len' = len
  BY <1>0, SameShape
<1>8. ASSUME NEW i \in 1 .. len, dec.from * bpp < i, i <= p + bpp
      PROVE  dec'.preds[i] = Guess(row, above, i)
  <2>1. CASE p < i
    <3>1. i - p \in 1 .. bpp /\ p + (i - p) = i
      BY <1>0, <1>8, <2>1
    <3>2. PredictedPixel[i - p] = Guess(row, above, p + (i - p))
      BY <1>5, <3>1
    <3> QED BY <1>6, <1>8, <2>1, <3>1, <3>2
  <2>2. CASE ~(p < i)
    <3>1. dec'.preds[i] = dec.preds[i] /\ i <= dec.px * bpp
      BY <1>0, <1>4, <1>6, <2>2
    <3> QED BY <1>1, <1>8, <3>1 DEF RowHalfDone
  <2> QED BY <2>1, <2>2
<1>9. \A j \in 1 .. bpp : /\ dec'.a[j] = LeftByte(row, bpp, p + bpp + j)
                          /\ dec'.c[j] = LeftByte(above, bpp, p + bpp + j)
  <2>1. \A j \in 1 .. bpp : ~(p + bpp + j <= bpp) /\ (p + bpp + j) - bpp = p + j
    BY <1>0
  <2> QED BY <1>3, <1>5, <2>1 DEF LeftByte
<1>10. \A i \in 1 .. len : Guess(row, above, i)' = Guess(row, above, i)
  BY <1>0, <1>3, <1>7 DEF Guess, hasAbove
<1>11. \A i \in 1 .. len : dec'.current[i] = IF i <= dec'.from * bpp THEN row[i]
                                             ELSE WrappingSub(row[i], Guess(row, above, i))
  BY <1>1, <1>3 DEF RowHalfDone
<1>12. RowHalfDone(row, above)'
  BY <1>3, <1>4, <1>7, <1>8, <1>9, <1>10, <1>11 DEF RowHalfDone
<1> QED BY <1>0, <1>1, <1>3, <1>12, WithinRow

LEMMA CommitStrideStep ==
  ASSUME IInv, CommitStride
  PROVE  EncoderKnows' /\ TrialsHold' /\ WireHolds' /\ DecoderKnows' /\ RowUnderWay' /\ RowsRecovered'
<1>0. /\ TypeOK /\ dec.state = "row" /\ dec.from <= dec.px
      /\ len \in Nat /\ bpp \in Nat \ {0} /\ dec.px \in Nat /\ dec.from \in Nat
      /\ dec.current \in Row(len) /\ dec.preds \in Row(len)
      /\ UNCHANGED <<job, build, frame, image, enc, wire, decoded>>
  BY IInvFacts DEF CommitStride, IInv, TypeOK
<1>1. PICK row, above \in Row(len) :
         /\ row = image[Len(decoded) + 1] /\ above = AboveRow(Len(decoded) + 1)
         /\ RowHalfDone(row, above)
  BY <1>0, RowInHand
<1> DEFINE new == [i \in DOMAIN dec.current |->
                     IF dec.from * bpp < i /\ i <= dec.px * bpp
                     THEN WrappingAdd(dec.current[i], dec.preds[i]) ELSE dec.current[i]]
<1>2. dec' = [dec EXCEPT !.from = dec.px, !.current = new]
  BY DEF CommitStride
<1>3. /\ dec'.state = "row" /\ dec'.previous = dec.previous /\ dec'.filter = dec.filter
      /\ dec'.current = new /\ dec'.from = dec.px /\ dec'.px = dec.px
      /\ dec'.a = dec.a /\ dec'.c = dec.c
  BY <1>0, <1>2 DEF TypeOK
<1>4. PICK p, q \in Nat : p = dec.from * bpp /\ q = dec.px * bpp /\ p <= q
  <2>1. \A w, v, k \in Nat : v >= w => v * k >= w * k /\ v * k \in Nat /\ w * k \in Nat
    OBVIOUS
  <2> QED BY <1>0, <2>1
<1>5. bpp' = bpp /\ len' = len
  BY <1>0, SameShape
<1>6. ASSUME NEW i \in 1 .. len
      PROVE  dec'.current[i] = IF i <= q THEN row[i] ELSE WrappingSub(row[i], Guess(row, above, i))
  <2>1. dec.current[i] = IF i <= p THEN row[i] ELSE WrappingSub(row[i], Guess(row, above, i))
    BY <1>1, <1>4 DEF RowHalfDone
  <2>2. new[i] = IF p < i /\ i <= q THEN WrappingAdd(dec.current[i], dec.preds[i])
                 ELSE dec.current[i]
    BY <1>0, <1>4 DEF Row
  <2>3. CASE p < i /\ i <= q
    <3>1. dec.preds[i] = Guess(row, above, i)
      BY <1>1, <1>4, <2>3 DEF RowHalfDone
    <3>2. row[i] \in Byte /\ dec.preds[i] \in Byte
      BY <1>0 DEF Row
    <3>3. dec.current[i] = WrappingSub(row[i], dec.preds[i])
      BY <1>4, <2>1, <2>3, <3>1
    <3> QED BY <1>3, <2>2, <2>3, <3>2, <3>3, AddUndoesSub
  <2>4. CASE ~(p < i /\ i <= q)
    BY <1>3, <1>4, <2>1, <2>2, <2>4
  <2> QED BY <2>3, <2>4
<1>7. \A i \in 1 .. len : Guess(row, above, i)' = Guess(row, above, i)
  BY <1>0, <1>3, <1>5 DEF Guess, hasAbove
<1>8. \A i \in 1 .. len : ~(dec'.from * bpp < i /\ i <= dec'.px * bpp)
  BY <1>0, <1>3, <1>4
<1>9. \A j \in 1 .. bpp : /\ dec'.a[j] = LeftByte(row, bpp, dec'.px * bpp + j)
                          /\ dec'.c[j] = LeftByte(above, bpp, dec'.px * bpp + j)
  BY <1>1, <1>3 DEF RowHalfDone
<1>10. \A i \in 1 .. len : dec'.current[i] = IF i <= dec'.from * bpp THEN row[i]
                                             ELSE WrappingSub(row[i], Guess(row, above, i))
  BY <1>3, <1>4, <1>6
<1>11. RowHalfDone(row, above)'
  BY <1>5, <1>7, <1>8, <1>9, <1>10 DEF RowHalfDone
<1> QED BY <1>0, <1>1, <1>3, <1>11, WithinRow

LEMMA RowDoneStep ==
  ASSUME IInv, RowDone
  PROVE  EncoderKnows' /\ TrialsHold' /\ WireHolds' /\ DecoderKnows' /\ RowUnderWay' /\ RowsRecovered'
<1>0. /\ TypeOK /\ dec.state = "row" /\ dec.from = job.width /\ dec.current \in Row(len)
      /\ Len(decoded) \in Nat /\ decoded \in Seq(Row(len)) /\ len \in Nat
      /\ UNCHANGED <<job, build, frame, image, enc, wire>>
  BY IInvFacts DEF RowDone, IInv, TypeOK
<1>1. PICK row, above \in Row(len) :
         /\ row = image[Len(decoded) + 1] /\ above = AboveRow(Len(decoded) + 1)
         /\ RowHalfDone(row, above)
  BY <1>0, RowInHand
<1>2. Len(decoded) + 1 \in 1 .. Len(image) /\ Taken = Len(decoded) + 1
  BY <1>0, RowInHand
<1>3. dec.current = row
  <2>1. dec.from * bpp = len
    BY <1>0 DEF len, bpp
  <2>2. \A i \in 1 .. len : dec.current[i] = row[i]
    BY <1>0, <1>1, <2>1 DEF RowHalfDone
  <2> QED BY <1>0, <2>2 DEF Row
<1>4. /\ Len(decoded') = Len(decoded) + 1 /\ decoded'[Len(decoded) + 1] = row
      /\ \A r \in 1 .. Len(decoded) : decoded'[r] = decoded[r]
  BY <1>0, <1>3, AppendProperties DEF RowDone
<1>5. dec'.state = "idle" /\ dec'.previous = row
  BY <1>0, <1>3 DEF RowDone, TypeOK
<1>6. /\ EncoderKnows' /\ TrialsHold' /\ Emitted' = Emitted /\ bpp' = bpp /\ len' = len
      /\ \A r \in Nat : AboveRow(r)' = AboveRow(r)
  BY <1>0, EncoderStill
<1>7. WireHolds'
  <2>1. PICK n \in Nat : n = Emitted
    BY IInvFacts
  <2>2. AboveRow(Emitted)' = AboveRow(Emitted)
    BY <1>6, <2>1
  <2>3. Taken' = Taken
    BY <1>2, <1>4, <1>5 DEF Taken
  <2> QED BY <1>0, <1>6, <2>2, <2>3 DEF IInv, WireHolds
<1>8. DecoderKnows'
  BY <1>0, <1>1, <1>4, <1>5 DEF DecoderKnows
<1>9. RowUnderWay'
  BY <1>5 DEF RowUnderWay
<1>10. RowsRecovered'
  <2> SUFFICES ASSUME NEW r \in 1 .. Len(decoded')
               PROVE  r <= Len(image) /\ decoded'[r] = image[r]
    BY <1>0 DEF RowsRecovered
  <2>1. CASE r \in 1 .. Len(decoded)
    BY <1>4, <2>1 DEF IInv, RowsRecovered
  <2>2. CASE r = Len(decoded) + 1
    BY <1>1, <1>2, <1>4, <2>2
  <2> QED BY <1>0, <1>4, <2>1, <2>2
<1> QED BY <1>6, <1>7, <1>8, <1>9, <1>10

-------------------------------------------------------------------------------
(* All steps.                                                                  *)

AtFrameStart ==
  /\ job \in Jobs /\ buf_len = len /\ image = << >> /\ wire = << >> /\ decoded = << >>
  /\ \E method \in Filter, stored \in BOOLEAN : enc = EncoderStart(method, stored)
  /\ dec = DecoderStart

LEMMA FrameStart ==
  AtFrameStart => /\ EncoderKnows /\ TrialsHold /\ WireHolds
                  /\ DecoderKnows /\ RowUnderWay /\ RowsRecovered
<1> SUFFICES ASSUME AtFrameStart
             PROVE  /\ EncoderKnows /\ TrialsHold /\ WireHolds
                    /\ DecoderKnows /\ RowUnderWay /\ RowsRecovered
  OBVIOUS
<1>1. Len(image) = 0 /\ Len(decoded) = 0 /\ Len(wire) = 0 /\ buf_len = len
  BY EmptySeq DEF AtFrameStart
<1>2. /\ enc.k = 0 /\ enc.previous = Zeros(len) /\ dec.state = "idle" /\ dec.previous = << >>
  BY <1>1 DEF AtFrameStart, EncoderStart, DecoderStart
<1>3. Emitted = 0 /\ Taken = 0
  BY <1>1, <1>2 DEF Emitted, Taken
<1>4. AboveRow(Emitted + 1) = Zeros(len)
  BY <1>3 DEF AboveRow
<1> QED BY <1>1, <1>2, <1>3, <1>4
        DEF EncoderKnows, TrialsHold, WireHolds, DecoderKnows, RowUnderWay, RowsRecovered,
            AtFrameStart

LEMMA NextFrameStart ==
  AtFrameStart' => /\ EncoderKnows' /\ TrialsHold' /\ WireHolds'
                   /\ DecoderKnows' /\ RowUnderWay' /\ RowsRecovered'
BY FrameStart, PTL

LEMMA BuffersFit ==
  ASSUME WholeRows, job \in Jobs
  PROVE  buf_len = len /\ (job.frames > 1 => ~job.stream)
BY JobFacts DEF WholeRows

LEMMA StartFrameStep ==
  ASSUME IInv, WholeRows, StartFrame
  PROVE  EncoderKnows' /\ TrialsHold' /\ WireHolds' /\ DecoderKnows' /\ RowUnderWay' /\ RowsRecovered'
<1>1. job \in Jobs /\ job.frames \in Nat /\ frame \in Nat \ {0} /\ frame < job.frames
  BY JobFacts DEF IInv, TypeOK, StartFrame
<1>2. buf_len = len /\ ~job.stream
  BY <1>1, BuffersFit
<1>3. bpp' = bpp /\ len' = len /\ buf_len' = buf_len /\ job' = job
  BY SameShape DEF StartFrame
<1>4. PICK method \in Filter, stored \in BOOLEAN : enc' = EncoderStart(method, stored)
  BY <1>2 DEF StartFrame, NextFrame
<1>5. EncoderStart(method, stored)' = EncoderStart(method, stored) /\ DecoderStart' = DecoderStart
  BY <1>3 DEF EncoderStart, DecoderStart
<1>6. AtFrameStart'
  BY <1>1, <1>2, <1>3, <1>4, <1>5 DEF AtFrameStart, StartFrame
<1> QED BY <1>6, NextFrameStart

\* a stream's method changes, or nothing does
LEMMA MethodStep ==
  ASSUME IInv, (\E method \in Filter : SetFilter(method)) \/ UNCHANGED vars
  PROVE  EncoderKnows' /\ TrialsHold' /\ WireHolds' /\ DecoderKnows' /\ RowUnderWay' /\ RowsRecovered'
<1>1. /\ UNCHANGED <<job, build, image, wire, dec, decoded>>
      /\ enc'.k = enc.k /\ enc'.previous = enc.previous /\ enc'.current = enc.current
      /\ enc'.choice = enc.choice /\ enc'.output = enc.output
  BY DEF SetFilter, vars, IInv, TypeOK
<1>2. bpp' = bpp /\ len' = len
  BY <1>1, SameShape
<1>3. /\ DecoderKnows' /\ RowUnderWay' /\ RowsRecovered' /\ Taken' = Taken
      /\ \A r \in 1 .. Len(image) + 1 : AboveRow(r)' = AboveRow(r)
  BY <1>1, ImageGrows, IInvFacts
<1>4. Emitted' = Emitted
  BY <1>1 DEF Emitted
<1>5. EncoderKnows'
  <2>1. PICK n \in 1 .. Len(image) + 1 : n = Emitted + 1
    BY IInvFacts
  <2>2. AboveRow(Emitted + 1)' = AboveRow(Emitted + 1)
    BY <1>3, <1>4, <2>1
  <2> QED BY <1>1, <2>2 DEF IInv, EncoderKnows
<1>6. TrialsHold'
  BY <1>1, <1>2 DEF IInv, TrialsHold
<1>7. WireHolds'
  <2>1. CASE wire = << >> /\ Emitted = Taken
    BY <1>1, <1>3, <1>4, <2>1 DEF WireHolds
  <2>2. CASE ~(wire = << >> /\ Emitted = Taken)
    <3>1. PICK n \in 1 .. Len(image) + 1 : n = Emitted
      BY <2>2, IInvFacts DEF IInv, WireHolds
    <3>2. AboveRow(Emitted)' = AboveRow(Emitted)
      BY <1>3, <1>4, <3>1
    <3> QED BY <1>1, <1>2, <1>3, <1>4, <2>2, <3>2 DEF IInv, WireHolds
  <2> QED BY <2>1, <2>2
<1> QED BY <1>3, <1>5, <1>6, <1>7

LEMMA IInvStep ==
  ASSUME IInv, WholeRows, [Next]_vars
  PROVE  IInv'
<1>1. buf_len = len
  BY BuffersFit DEF IInv, TypeOK
<1>2. TypeOK'
  BY TypeStep DEF IInv
<1>3. EncoderKnows' /\ TrialsHold' /\ WireHolds' /\ DecoderKnows' /\ RowUnderWay' /\ RowsRecovered'
  <2>1. CASE \E row \in job.rows : GiveRow(row)
    BY <1>1, <2>1, GiveRowStep
  <2>2. CASE StoreRow \/ EncodePlain \/ EncodeChosen
    BY <1>1, <2>2, EncodeStep
  <2>3. CASE TryCandidate
    BY <1>1, <2>3, TrialStep
  <2>4. CASE (\E method \in Filter : SetFilter(method)) \/ UNCHANGED vars
    BY <2>4, MethodStep
  <2>5. CASE ReadRow
    BY <2>5, ReadRowStep
  <2>6. CASE UnfilterPixel
    BY <2>6, UnfilterPixelStep
  <2>7. CASE PredictInStride
    BY <2>7, PredictInStrideStep
  <2>8. CASE CommitStride
    BY <2>8, CommitStrideStep
  <2>9. CASE RowDone
    BY <2>9, RowDoneStep
  <2>10. CASE StartFrame
    BY <2>10, StartFrameStep
  <2> QED BY <2>1, <2>2, <2>3, <2>4, <2>5, <2>6, <2>7, <2>8, <2>9, <2>10 DEF Next
<1> QED BY <1>2, <1>3 DEF IInv

\* Every row is recovered, whatever its bytes, its length, the filter it was given and the build of
\* the decoder, in all images but those of a StreamWriter that goes on to another frame or whose
\* frame is narrower than its buffers (encoder.rs, StreamWriter::write).
THEOREM RowsAreRecovered ==
  ASSUME WholeRows
  PROVE  Spec => []RowsRecovered
<1>1. Init => IInv
  <2> SUFFICES ASSUME Init PROVE IInv
    OBVIOUS
  <2>1. TypeOK
    BY TypeInit
  <2>2. AtFrameStart
    BY BuffersFit DEF Init, AtFrameStart
  <2> QED BY <2>1, <2>2, FrameStart DEF IInv
<1>2. IInv /\ [Next]_vars => IInv'
  BY IInvStep
<1>3. IInv => RowsRecovered
  BY DEF IInv
<1> QED BY <1>1, <1>2, <1>3, PTL DEF Spec

-------------------------------------------------------------------------------
(* The adaptive methods, for every image, also those a stream garbles: what    *)
(* adaptive_filter knows after some of its candidates.                         *)

Filtered(k) == FilterInternal(Candidates[k], bpp, enc.previous, enc.current)
CostOf(k)   == Cost(enc.method, Filtered(k))

CheapestSoFar ==
  enc.k > 1 =>
    /\ ~enc.stored /\ ChoosesForItself(enc.method)
    /\ \E c \in 1 .. enc.k - 1 : enc.choice = Candidates[c] /\ enc.cost = CostOf(c)
    /\ \A k \in 1 .. enc.k - 1 : enc.cost <= CostOf(k)

ChoiceInv == TypeOK /\ TrialsHold /\ CheapestSoFar

LEMMA CostOfIsNumber ==
  ASSUME TypeOK, NEW k \in 1 .. 4
  PROVE  CostOf(k) \in Nat /\ Candidates[k] \in RowFilter
<1>1. Filtered(k) \in Row(buf_len) /\ buf_len \in Nat
  BY CandidatesFacts, JobFacts, FilterInternalIsRow DEF TypeOK, Filtered
<1> QED BY <1>1, CandidatesFacts, CostIsNumber DEF CostOf

LEMMA NoTrialYet ==
  (enc.k = 0 \/ enc.k = 1) => TrialsHold /\ CheapestSoFar
BY DEF TrialsHold, CheapestSoFar

LEMMA NoTrialNext ==
  (enc.k = 0 \/ enc.k = 1)' => TrialsHold' /\ CheapestSoFar'
BY NoTrialYet, PTL

LEMMA TryAnother ==
  ASSUME ChoiceInv, TryCandidate, enc'.k # 0
  PROVE  TrialsHold' /\ CheapestSoFar'
<1>1. /\ TypeOK /\ enc.k \in 1 .. 4 /\ ~enc.stored /\ ChoosesForItself(enc.method)
      /\ Trial = Filtered(enc.k)
  BY CandidatesFacts DEF ChoiceInv, TryCandidate, Trial, Filtered
<1>2. PICK n \in 1 .. 4 : n = enc.k
  BY <1>1
<1> DEFINE cost == Cost(enc.method, Trial)
<1>3. /\ enc' = [enc EXCEPT !.k = enc.k + 1, !.output = Trial,
                    !.choice = IF Improves THEN Candidates[enc.k] ELSE enc.choice,
                    !.cost   = IF Improves THEN cost ELSE enc.cost]
      /\ UNCHANGED job
  <2>1. ~ (Improves /\ cost = 0)
    <3> SUFFICES ASSUME Improves /\ cost = 0 PROVE FALSE
      OBVIOUS
    <3>1. Emit(Candidates[enc.k], Trial)
      BY DEF TryCandidate
    <3>2. enc'.k = 0
      BY <1>1, <3>1 DEF Emit, TypeOK
    <3> QED BY <3>2
  <2> QED BY <2>1 DEF TryCandidate
<1>4. /\ enc'.k = n + 1 /\ enc'.output = Trial /\ enc'.stored = enc.stored
      /\ enc'.method = enc.method /\ enc'.previous = enc.previous /\ enc'.current = enc.current
      /\ enc'.choice = IF Improves THEN Candidates[n] ELSE enc.choice
      /\ enc'.cost = IF Improves THEN cost ELSE enc.cost
  BY <1>1, <1>2, <1>3 DEF TypeOK
<1>5. \A k \in 1 .. 4 : Filtered(k)' = Filtered(k) /\ CostOf(k)' = CostOf(k)
  BY <1>3, <1>4 DEF Filtered, CostOf, bpp
<1>6. cost = CostOf(n) /\ \A k \in 1 .. 4 : CostOf(k) \in Nat
  BY <1>1, <1>2, CostOfIsNumber DEF CostOf
<1>7. /\ n > 1 => \E c \in 1 .. n - 1 : enc.choice = Candidates[c] /\ enc.cost = CostOf(c)
      /\ \A k \in 1 .. n - 1 : enc.cost <= CostOf(k)
  BY <1>2 DEF ChoiceInv, CheapestSoFar
<1>8. (\E c \in 1 .. n : enc'.choice = Candidates[c] /\ enc'.cost = CostOf(c))
      /\ \A k \in 1 .. n : enc'.cost <= CostOf(k)
  <2>1. CASE n = 1
    <3>1. Improves
      BY <1>2, <2>1 DEF Improves
    <3>2. enc'.choice = Candidates[n] /\ enc'.cost = CostOf(n)
      BY <1>4, <1>6, <3>1
    <3> QED BY <1>6, <2>1, <3>2
  <2>2. CASE n > 1 /\ Improves
    <3>1. PICK c \in 1 .. n - 1 : enc.cost = CostOf(c)
      BY <1>7, <2>2
    <3>2. CostOf(n) <= enc.cost /\ enc.cost \in Nat
      BY <1>2, <1>6, <2>2, <3>1 DEF Improves
    <3>3. enc'.choice = Candidates[n] /\ enc'.cost = CostOf(n)
      BY <1>4, <1>6, <2>2
    <3>4. \A k \in 1 .. n - 1 : CostOf(n) <= CostOf(k)
      BY <1>6, <1>7, <3>2
    <3> QED BY <1>6, <3>3, <3>4
  <2>3. CASE n > 1 /\ ~Improves
    <3>1. PICK c \in 1 .. n - 1 : enc.choice = Candidates[c] /\ enc.cost = CostOf(c)
      BY <1>7, <2>3
    <3>2. ~ (CostOf(n) <= enc.cost) /\ enc.cost \in Nat
      BY <1>2, <1>6, <2>3, <3>1 DEF Improves
    <3>3. enc'.choice = enc.choice /\ enc'.cost = enc.cost
      BY <1>4, <2>3
    <3>4. \A k \in 1 .. n : enc.cost <= CostOf(k)
      BY <1>6, <1>7, <3>2
    <3> QED BY <3>1, <3>3, <3>4
  <2> QED BY <2>1, <2>2, <2>3
<1>9. CheapestSoFar'
  BY <1>1, <1>4, <1>5, <1>8 DEF CheapestSoFar
<1>10. TrialsHold'
  <2>1. enc'.output = Filtered(n)' /\ n = enc'.k - 1
    BY <1>1, <1>2, <1>4, <1>5
  <2>2. enc'.choice = Paeth => enc'.k = 5
    <3>1. PICK c \in 1 .. n : enc'.choice = Candidates[c]
      BY <1>8
    <3>2. enc'.choice = Paeth => c = 4
      <4>1. c \in 1 .. 4
        BY <1>2
      <4> QED BY <3>1, <4>1, CandidatesFacts
    <3> QED BY <1>4, <3>2
  <2> QED BY <2>1, <2>2 DEF TrialsHold, Filtered
<1> QED BY <1>9, <1>10

LEMMA ChoiceStep ==
  ASSUME ChoiceInv, [Next]_vars
  PROVE  ChoiceInv'
<1>1. TypeOK'
  BY TypeStep DEF ChoiceInv
<1>2. TrialsHold' /\ CheapestSoFar'
  <2>1. CASE UNCHANGED <<job, enc>>
    BY <2>1 DEF ChoiceInv, TrialsHold, CheapestSoFar, CostOf, Filtered, bpp
  <2>2. CASE enc'.k = 0 \/ enc'.k = 1
    BY <2>2, NoTrialNext
  <2>3. CASE TryCandidate
    BY <2>2, <2>3, TryAnother
  <2>4. ASSUME NEW row \in job.rows, GiveRow(row) PROVE enc'.k = 1
    BY <2>4 DEF GiveRow, ChoiceInv, TypeOK
  <2>5. ASSUME NEW filter, NEW output, Emit(filter, output) PROVE enc'.k = 0
    BY <2>5 DEF Emit, ChoiceInv, TypeOK
  <2>6. CASE StoreRow \/ EncodePlain \/ EncodeChosen
    BY <2>2, <2>5, <2>6 DEF StoreRow, EncodePlain, EncodeChosen
  <2>7. ASSUME NEW method \in Filter, SetFilter(method) PROVE enc'.k = 0
    BY <2>7 DEF SetFilter, ChoiceInv, TypeOK
  <2>8. CASE StartFrame
    <3>1. PICK method, stored : enc' = NextFrame(method, stored)
      BY <2>8 DEF StartFrame
    <3>2. enc'.k = 0
      BY <2>8, <3>1 DEF StartFrame, NextFrame, EncoderStart, ChoiceInv, TypeOK
    <3> QED BY <2>2, <3>2
  <2>9. CASE ReadRow \/ UnfilterPixel \/ PredictInStride \/ CommitStride \/ RowDone
    BY <2>1, <2>9 DEF ReadRow, UnfilterPixel, PredictInStride, CommitStride, RowDone
  <2>10. CASE UNCHANGED vars
    BY <2>1, <2>10 DEF vars
  <2> QED BY <2>2, <2>3, <2>4, <2>6, <2>7, <2>8, <2>9, <2>10 DEF Next
<1> QED BY <1>1, <1>2 DEF ChoiceInv

LEMMA ChosenIsCheapest ==
  ASSUME ChoiceInv, Next, ChosenRowSent, NEW k \in 1 .. 4
  PROVE  Cost(enc.method, enc'.output) <= CostOf(k)
<1>1. TypeOK /\ CostOf(k) \in Nat
  BY CostOfIsNumber DEF ChoiceInv
<1>2. \A filter, output : Emit(filter, output) => enc'.output = output
  BY <1>1 DEF Emit, TypeOK
<1>3. CASE TryCandidate
  <2>1. Improves /\ Cost(enc.method, Trial) = 0
    <3> SUFFICES ASSUME ~ (Improves /\ Cost(enc.method, Trial) = 0) PROVE FALSE
      OBVIOUS
    <3>1. enc.k \in 1 .. 4
      BY <1>3, CandidatesFacts DEF TryCandidate
    <3>2. \E output, choice, cost :
            enc' = [enc EXCEPT !.k = enc.k + 1, !.output = output, !.choice = choice, !.cost = cost]
      BY <1>3 DEF TryCandidate
    <3>3. enc'.k = enc.k + 1
      BY <1>1, <3>2 DEF TypeOK
    <3> QED BY <3>1, <3>3 DEF ChosenRowSent
  <2>2. enc'.output = Trial
    BY <1>2, <1>3, <2>1 DEF TryCandidate
  <2> QED BY <1>1, <2>1, <2>2
<1>4. CASE EncodeChosen
  <2>1. enc.k = 5 /\ enc'.output = Refiltered
    BY <1>2, <1>4, CandidatesFacts DEF EncodeChosen
  <2>2. PICK c \in 1 .. 4 : enc.choice = Candidates[c] /\ enc.cost = CostOf(c)
    BY <2>1 DEF ChoiceInv, CheapestSoFar
  <2>3. enc.choice = Paeth => enc.output = Filtered(4) /\ c = 4
    <3>1. enc.output = FilterInternal(Candidates[enc.k - 1], bpp, enc.previous, enc.current)
      BY <2>1 DEF ChoiceInv, TrialsHold
    <3>2. enc.k - 1 = 4
      BY <2>1
    <3> QED BY <2>2, <3>1, <3>2, CandidatesFacts DEF Filtered
  <2>4. Refiltered = Filtered(c)
    BY <2>2, <2>3 DEF Refiltered, Filtered
  <2>5. Cost(enc.method, enc'.output) = enc.cost
    BY <2>1, <2>2, <2>4 DEF CostOf
  <2>6. enc.cost <= CostOf(k)
    BY <2>1 DEF ChoiceInv, CheapestSoFar
  <2> QED BY <2>5, <2>6
<1>5. CASE StoreRow \/ EncodePlain
  BY <1>5 DEF StoreRow, EncodePlain, ChosenRowSent
<1>6. CASE \E row \in job.rows : GiveRow(row)
  BY <1>6 DEF GiveRow, ChosenRowSent
<1>7. CASE (\E method \in Filter : SetFilter(method)) \/ StartFrame
  BY <1>7 DEF SetFilter, StartFrame, ChosenRowSent
<1>8. CASE ReadRow \/ UnfilterPixel \/ PredictInStride \/ CommitStride \/ RowDone
  BY <1>8 DEF ReadRow, UnfilterPixel, PredictInStride, CommitStride, RowDone, ChosenRowSent
<1> QED BY <1>3, <1>4, <1>5, <1>6, <1>7, <1>8 DEF Next

\* What a method that chooses for itself sends costs no more than any of its candidates would have,
\* in every row of every image, whether it tried all of them or stopped at a cost of nothing
\* (filter/mod.rs, adaptive_filter).
THEOREM CheapestIsChosen == Spec => CheapestChosen
<1>1. Init => ChoiceInv
  <2> SUFFICES ASSUME Init PROVE ChoiceInv
    OBVIOUS
  <2>1. enc.k = 0
    BY DEF Init, EncoderStart
  <2> QED BY <2>1, TypeInit, NoTrialYet DEF ChoiceInv
<1>2. ChoiceInv /\ [Next]_vars => ChoiceInv'
  BY ChoiceStep
<1>3. ChoiceInv /\ [Next]_vars =>
        [ChosenRowSent =>
           \A k \in DOMAIN Candidates :
             Cost(enc.method, enc'.output)
               <= Cost(enc.method, FilterInternal(Candidates[k], bpp, enc.previous, enc.current))]_vars
  BY ChosenIsCheapest, CandidatesFacts DEF CostOf, Filtered
<1> QED BY <1>1, <1>2, <1>3, PTL DEF Spec, CheapestChosen
===============================================================================
