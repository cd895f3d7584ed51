----------------------------- MODULE Adam7_proofs -----------------------------
(* Proofs about Adam7, for frames of every size, every depth and every stride: *)
(* each pixel is written by exactly one row, at its place, and what lies in    *)
(* the block of a pixel that is repeated comes in a later pass.                *)
EXTENDS InterlacedOutput, FiniteSetTheorems, TLAPS

-------------------------------------------------------------------------------
(* The pattern and the table of the passes say the same.                       *)

xs(p) == PASSES[p].x_sampling
xo(p) == PASSES[p].x_offset
ys(p) == PASSES[p].y_sampling
yo(p) == PASSES[p].y_offset

LEMMA PassTable ==
  ASSUME NEW p \in 1 .. 7
  PROVE  \/ p = 1 /\ xs(p) = 8 /\ xo(p) = 0 /\ ys(p) = 8 /\ yo(p) = 0
         \/ p = 2 /\ xs(p) = 8 /\ xo(p) = 4 /\ ys(p) = 8 /\ yo(p) = 0
         \/ p = 3 /\ xs(p) = 4 /\ xo(p) = 0 /\ ys(p) = 8 /\ yo(p) = 4
         \/ p = 4 /\ xs(p) = 4 /\ xo(p) = 2 /\ ys(p) = 4 /\ yo(p) = 0
         \/ p = 5 /\ xs(p) = 2 /\ xo(p) = 0 /\ ys(p) = 4 /\ yo(p) = 2
         \/ p = 6 /\ xs(p) = 2 /\ xo(p) = 1 /\ ys(p) = 2 /\ yo(p) = 0
         \/ p = 7 /\ xs(p) = 1 /\ xo(p) = 0 /\ ys(p) = 2 /\ yo(p) = 1
BY DEF xs, xo, ys, yo, PASSES, Pass

LEMMA GridConstants ==
  ASSUME NEW p \in 1 .. 7
  PROVE  /\ xs(p) \in {1, 2, 4, 8} /\ ys(p) \in {1, 2, 4, 8} /\ xo(p) \in Nat /\ yo(p) \in Nat
         /\ xo(p) < xs(p) /\ yo(p) < ys(p)
BY PassTable

\* A pixel is of pass p if it lies on the grid of the pass.
OnGrid(p, x, y) == x % xs(p) = xo(p) /\ y % ys(p) = yo(p)

\* It is written by pass p, which repeats its pixels, if it lies in the block of one.
InBlock(p, x, y) == x % xs(p) >= xo(p) /\ y % ys(p) >= yo(p)

LEMMA PatternCell ==
  ASSUME NEW p \in 1 .. 7, NEW i \in 0 .. 7, NEW j \in 0 .. 7
  PROVE  /\ Pattern[j + 1][i + 1] \in 1 .. 7
         /\ (Pattern[j + 1][i + 1] = p) <=> OnGrid(p, i, j)
         /\ InBlock(p, i, j) => Pattern[j + 1][i + 1] >= p
<1>1. \A c \in 0 .. 7 : c % 8 = c /\ c % 1 = 0
  OBVIOUS
<1>2. CASE j \in {1, 3, 5, 7}
  BY <1>2, PassTable DEF Pattern, OnGrid, InBlock
<1>3. CASE j \in {2, 6}
  BY <1>3, PassTable DEF Pattern, OnGrid, InBlock
<1>4. CASE j = 0
  BY <1>4, PassTable DEF Pattern, OnGrid, InBlock
<1>5. CASE j = 4
  BY <1>5, PassTable DEF Pattern, OnGrid, InBlock
<1> QED BY <1>2, <1>3, <1>4, <1>5

LEMMA GridRepeats ==
  ASSUME NEW p \in 1 .. 7, NEW x \in Nat, NEW y \in Nat
  PROVE  /\ x % 8 \in 0 .. 7 /\ y % 8 \in 0 .. 7
         /\ OnGrid(p, x, y) <=> OnGrid(p, x % 8, y % 8)
         /\ InBlock(p, x, y) <=> InBlock(p, x % 8, y % 8)
<1>1. \A n \in Nat : /\ n % 8 \in 0 .. 7 /\ (n % 8) % 8 = n % 8 /\ (n % 8) % 4 = n % 4
                     /\ (n % 8) % 2 = n % 2 /\ (n % 8) % 1 = n % 1
  OBVIOUS
<1> QED BY <1>1, PassTable DEF OnGrid, InBlock

\* PassOf reads off the pattern what the table says, and a block holds pixels of its own
\* pass and of later ones.
LEMMA PassOfGrid ==
  ASSUME NEW p \in 1 .. 7, NEW x \in Nat, NEW y \in Nat
  PROVE  /\ PassOf(x, y) \in 1 .. 7
         /\ PassOf(x, y) = p <=> OnGrid(p, x, y)
         /\ InBlock(p, x, y) => PassOf(x, y) >= p
<1> DEFINE i == x % 8
           j == y % 8
<1>1. i \in 0 .. 7 /\ j \in 0 .. 7 /\ (OnGrid(p, x, y) <=> OnGrid(p, i, j))
      /\ (InBlock(p, x, y) <=> InBlock(p, i, j))
  BY GridRepeats
<1>2. PassOf(x, y) = Pattern[j + 1][i + 1]
  BY DEF PassOf
<1> HIDE DEF i, j
<1>3. /\ Pattern[j + 1][i + 1] \in 1 .. 7
      /\ (Pattern[j + 1][i + 1] = p) <=> OnGrid(p, i, j)
      /\ InBlock(p, i, j) => Pattern[j + 1][i + 1] >= p
  BY <1>1, PatternCell
<1> QED BY <1>1, <1>2, <1>3

-------------------------------------------------------------------------------
(* Counting.                                                                   *)

\* The places on a grid ahead of its n-th.
Ahead(sampling, offset, n) ==
  { v \in 0 .. (sampling * n + offset) - 1 : v % sampling = offset }

LEMMA CountGrid ==
  ASSUME NEW sampling \in {1, 2, 4, 8}, NEW offset \in Nat, offset < sampling, NEW n \in Nat
  PROVE  Cardinality(Ahead(sampling, offset, n)) = n
<1> DEFINE S == Ahead(sampling, offset, n)
           f == [i \in 1 .. n |-> sampling * (i - 1) + offset]
<1>1. f \in Injection(1 .. n, S)
  <2>1. ASSUME NEW i \in 1 .. n PROVE f[i] \in S
    BY DEF Ahead
  <2>2. ASSUME NEW i \in 1 .. n, NEW j \in 1 .. n, f[i] = f[j] PROVE i = j
    BY <2>2
  <2> QED BY <2>1, <2>2 DEF Injection, IsInjective
<1>2. ASSUME NEW v \in S PROVE \E i \in 1 .. n : f[i] = v
  <2>1. (v \div sampling) + 1 \in 1 .. n
    BY DEF Ahead
  <2>2. f[(v \div sampling) + 1] = v
    BY <2>1 DEF Ahead
  <2> QED BY <2>1, <2>2
<1>3. f \in Bijection(1 .. n, S)
  BY <1>1, <1>2 DEF Bijection, Surjection, Injection
<1> HIDE DEF f, S
<1>4. ExistsBijection(1 .. n, S)
  BY <1>3 DEF ExistsBijection
<1>5. Cardinality(S) = n
  BY <1>4, FS_CountingElements
<1> QED BY <1>5 DEF S

\* The place of a pixel in its pass.
LEMMA PlaceInPass ==
  ASSUME NEW x \in Nat, NEW y \in Nat
  PROVE  LET p == PassOf(x, y) IN
         /\ LineOf(x, y) = y \div ys(p) /\ y = ys(p) * LineOf(x, y) + yo(p)
         /\ SampleOf(x, y) = x \div xs(p) /\ x = xs(p) * SampleOf(x, y) + xo(p)
<1> DEFINE p == PassOf(x, y)
           l == y \div ys(p)
           s == x \div xs(p)
<1>1. p \in 1 .. 7 /\ OnGrid(p, x, y)
  BY PassOfGrid
<1> HIDE DEF p
<1>2. l \in Nat /\ s \in Nat /\ y = ys(p) * l + yo(p) /\ x = xs(p) * s + xo(p)
  <2>1. \A n \in Nat, m \in {1, 2, 4, 8} :
          n \div m \in Nat /\ n = (m * (n \div m)) + (n % m)
    OBVIOUS
  <2>2. xs(p) \in {1, 2, 4, 8} /\ ys(p) \in {1, 2, 4, 8}
    BY <1>1, PassTable
  <2> QED BY <1>1, <2>1, <2>2 DEF OnGrid
<1>3. /\ xs(p) \in {1, 2, 4, 8} /\ ys(p) \in {1, 2, 4, 8} /\ xo(p) \in Nat /\ yo(p) \in Nat
      /\ xo(p) < xs(p) /\ yo(p) < ys(p)
  BY <1>1, GridConstants
<1>4. \A v \in 0 .. y - 1 : PassOf(x, v) = p <=> v % ys(p) = yo(p)
  BY <1>1, PassOfGrid DEF OnGrid
<1>5. \A v \in 0 .. x - 1 : PassOf(v, y) = p <=> v % xs(p) = xo(p)
  BY <1>1, PassOfGrid DEF OnGrid
<1> HIDE DEF l, s
<1>6. LineOf(x, y) = l
  <2>1. { v \in 0 .. y - 1 : PassOf(x, v) = PassOf(x, y) }
          = Ahead(ys(p), yo(p), l)
    BY <1>2, <1>4 DEF p, Ahead
  <2>2. Cardinality(Ahead(ys(p), yo(p), l)) = l
    BY <1>2, <1>3, CountGrid
  <2> QED BY <2>1, <2>2 DEF LineOf
<1>7. SampleOf(x, y) = s
  <2>1. { v \in 0 .. x - 1 : PassOf(v, y) = PassOf(x, y) }
          = Ahead(xs(p), xo(p), s)
    BY <1>2, <1>5 DEF p, Ahead
  <2>2. Cardinality(Ahead(xs(p), xo(p), s)) = s
    BY <1>2, <1>3, CountGrid
  <2> QED BY <2>1, <2>2 DEF SampleOf
<1> QED BY <1>2, <1>6, <1>7 DEF p, l, s

-------------------------------------------------------------------------------
(* Units.                                                                      *)

LEMMA ProductGrows ==
  ASSUME NEW m \in Nat, NEW n \in Nat, NEW c \in Nat
  PROVE  /\ m * c \in Nat
         /\ m <= n => m * c <= n * c
         /\ m < n => m * c + c <= n * c
<1>1. m * c \in Nat
  OBVIOUS
<1>2. ASSUME m <= n PROVE m * c <= n * c
  <2>1. PICK d \in Nat : n = m + d
    BY <1>2
  <2>2. n * c = m * c + d * c /\ d * c \in Nat
    BY <2>1
  <2> QED BY <1>1, <2>2
<1>3. ASSUME m < n PROVE m * c + c <= n * c
  <2>1. PICK d \in Nat : n = m + d + 1
    BY <1>3
  <2>2. n * c = m * c + d * c + c /\ d * c \in Nat
    BY <2>1
  <2> QED BY <1>1, <2>2
<1> QED BY <1>1, <1>2, <1>3

LEMMA UnitFacts ==
  frame \in Frames =>
    /\ frame.width \in Nat \ {0} /\ frame.height \in Nat \ {0}
    /\ bits => frame.bits_pp \in {1, 2, 4} /\ pixel_units = frame.bits_pp
    /\ pixel_units \in Nat \ {0} /\ stride_units \in Nat /\ row_stride \in Nat
    /\ stride_units = IF bits THEN 8 * row_stride ELSE row_stride
    /\ frame.width * pixel_units <= stride_units
    /\ ImageUnits(frame) = 0 .. frame.height * stride_units - 1
<1> SUFFICES ASSUME frame \in Frames
             PROVE  /\ frame.width \in Nat \ {0} /\ frame.height \in Nat \ {0}
                    /\ bits => frame.bits_pp \in {1, 2, 4} /\ pixel_units = frame.bits_pp
                    /\ pixel_units \in Nat \ {0} /\ stride_units \in Nat /\ row_stride \in Nat
                    /\ stride_units = IF bits THEN 8 * row_stride ELSE row_stride
                    /\ frame.width * pixel_units <= stride_units
                    /\ ImageUnits(frame) = 0 .. frame.height * stride_units - 1
  OBVIOUS
<1> DEFINE w == frame.width
           iw == frame.image_width
           b == frame.bits_pp
           h == frame.height
<1>1. /\ w \in Nat \ {0} /\ h \in Nat \ {0} /\ iw \in Nat /\ w <= iw
      /\ b \in {1, 2, 4} \/ (b \in Nat \ {0} /\ b % 8 = 0)
  BY FramesAssumption
<1>2. row_stride = (iw * b + 7) \div 8
  <2>1. iw * b \in Nat
    BY <1>1
  <2> QED BY <2>1 DEF row_stride, Stride, raw_row_length
<1>3. stride_units = IF bits THEN 8 * row_stride ELSE row_stride
  BY DEF stride_units
<1>4. CASE bits
  <2>1. b \in {1, 2, 4} /\ pixel_units = b
    BY <1>1, <1>4 DEF bits, pixel_units
  <2>2. row_stride \in Nat /\ w * b <= 8 * row_stride
    BY <1>1, <1>2, <2>1
  <2>3. h * row_stride * 8 = h * (8 * row_stride)
    BY <1>1, <2>2
  <2>4. ImageUnits(frame) = 0 .. h * stride_units - 1
    BY <1>3, <1>4, <2>3 DEF ImageUnits, bits, row_stride
  <2> QED BY <1>1, <1>3, <1>4, <2>1, <2>2, <2>4
<1>5. CASE ~ bits
  <2>1. b \in Nat \ {0} /\ b % 8 = 0 /\ pixel_units = b \div 8
    BY <1>1, <1>5 DEF bits, pixel_units
  <2>2. pixel_units \in Nat \ {0} /\ b = 8 * pixel_units
    BY <2>1
  <2>3. iw * b = 8 * (iw * pixel_units) /\ iw * pixel_units \in Nat
    BY <1>1, <2>2
  <2>4. row_stride = iw * pixel_units
    BY <1>2, <2>3
  <2>5. w * pixel_units <= iw * pixel_units
    BY <1>1, <2>2, ProductGrows
  <2>6. h * row_stride * 1 = h * row_stride
    BY <1>1, <2>3, <2>4
  <2>7. ImageUnits(frame) = 0 .. h * stride_units - 1
    BY <1>3, <1>5, <2>6 DEF ImageUnits, bits, row_stride
  <2> QED BY <1>1, <1>3, <1>5, <2>2, <2>3, <2>4, <2>5, <2>7
<1> QED BY <1>4, <1>5

\* The k-th unit of pixel (x, y) of the frame.
IsUnit(x, y, k) ==
  /\ x \in 0 .. frame.width - 1 /\ y \in 0 .. frame.height - 1
  /\ k \in 0 .. pixel_units - 1

\* It lies within its line of the frame, and hence within the image.
LEMMA UnitInLine ==
  ASSUME frame \in Frames, NEW x, NEW y, NEW k, IsUnit(x, y, k)
  PROVE  /\ x * pixel_units + k \in 0 .. frame.width * pixel_units - 1
         /\ x * pixel_units + k < stride_units
         /\ UnitOf(x, y, k) \in ImageUnits(frame)
         /\ UnitOf(x, y, k) = y * stride_units + (x * pixel_units + k)
<1> DEFINE w == frame.width
           h == frame.height
           pu == pixel_units
           su == stride_units
           o == x * pu + k
<1>1. /\ w \in Nat \ {0} /\ h \in Nat \ {0} /\ pu \in Nat \ {0} /\ su \in Nat /\ w * pu <= su
      /\ ImageUnits(frame) = 0 .. h * su - 1
  BY UnitFacts
<1>2. x \in Nat /\ x < w /\ y \in Nat /\ y < h /\ k \in Nat /\ k < pu
  BY <1>1 DEF IsUnit
<1>3. x * pu \in Nat /\ w * pu \in Nat /\ x * pu + pu <= w * pu
  BY <1>1, <1>2, ProductGrows
<1>4. y * su \in Nat /\ h * su \in Nat /\ y * su + su <= h * su
  BY <1>1, <1>2, ProductGrows
<1>5. UnitOf(x, y, k) = y * su + o
  BY <1>2, <1>3, <1>4 DEF UnitOf
<1> HIDE DEF w, h, pu, su
<1>6. o \in 0 .. w * pu - 1 /\ o < su
  BY <1>1, <1>2, <1>3
<1>7. y * su + o \in 0 .. h * su - 1
  <2> DEFINE a == y * su
             b == h * su
  <2>1. a \in Nat /\ b \in Nat /\ a + su <= b /\ o \in Nat /\ o < su
    BY <1>4, <1>6
  <2> HIDE DEF a, b, o
  <2>2. a + o \in 0 .. b - 1
    BY <1>1, <2>1
  <2> QED BY <2>2 DEF a, b
<1> QED BY <1>1, <1>5, <1>6, <1>7 DEF w, pu, su, h

\* Where lines are s long, a place determines line and offset.
LEMMA LinesApart ==
  ASSUME NEW s \in Nat, NEW m \in Nat, NEW n \in Nat, NEW c \in Nat, NEW d \in Nat,
         c < s, d < s, m * s + c = n * s + d
  PROVE  m = n /\ c = d
<1>1. m * s \in Nat /\ n * s \in Nat
  OBVIOUS
<1>2. ~ m < n
  <2> SUFFICES ASSUME m < n PROVE FALSE
    OBVIOUS
  <2>1. m * s + s <= n * s
    BY ProductGrows
  <2> QED BY <1>1, <2>1
<1>3. ~ n < m
  <2> SUFFICES ASSUME n < m PROVE FALSE
    OBVIOUS
  <2>1. n * s + s <= m * s
    BY ProductGrows
  <2> QED BY <1>1, <2>1
<1>4. m = n
  BY <1>2, <1>3
<1> QED BY <1>1, <1>4

\* No unit belongs to two pixels.
LEMMA UnitsApart ==
  ASSUME frame \in Frames, NEW x, NEW y, NEW k, IsUnit(x, y, k),
         NEW v, NEW z, NEW q, IsUnit(v, z, q), UnitOf(x, y, k) = UnitOf(v, z, q)
  PROVE  x = v /\ y = z /\ k = q
<1>1. /\ stride_units \in Nat /\ pixel_units \in Nat
      /\ x \in Nat /\ y \in Nat /\ k \in Nat /\ v \in Nat /\ z \in Nat /\ q \in Nat
      /\ k < pixel_units /\ q < pixel_units
  <2>1. /\ stride_units \in Nat /\ pixel_units \in Nat
        /\ frame.width \in Nat /\ frame.height \in Nat
    BY UnitFacts
  <2> QED BY <2>1 DEF IsUnit
<1>2. /\ x * pixel_units + k \in Nat /\ v * pixel_units + q \in Nat
      /\ x * pixel_units + k < stride_units /\ v * pixel_units + q < stride_units
      /\ y * stride_units + (x * pixel_units + k) = z * stride_units + (v * pixel_units + q)
  BY UnitInLine
<1>3. y = z /\ x * pixel_units + k = v * pixel_units + q
  BY <1>1, <1>2, LinesApart
<1>4. x = v /\ k = q
  BY <1>1, <1>3, LinesApart
<1> QED BY <1>3, <1>4

-------------------------------------------------------------------------------
(* Where a row goes.                                                           *)

\* Rows that the iterator may yield.
IsRow(r) ==
  /\ r.pass \in 1 .. 7
  /\ r.line \in 0 .. count_lines(r.pass, frame.height) - 1
  /\ r.samples = count_samples(r.pass, frame.width)

LEMMA CountsCover ==
  ASSUME NEW p \in 1 .. 7, NEW n \in Nat
  PROVE  /\ count_samples(p, n) \in Nat /\ count_lines(p, n) \in Nat
         /\ \A i \in Nat : i < count_samples(p, n) <=> xs(p) * i + xo(p) < n
         /\ \A i \in Nat : i < count_lines(p, n) <=> ys(p) * i + yo(p) < n
<1>1. ASSUME NEW off \in Nat, NEW s \in {1, 2, 4, 8}
      PROVE  /\ Sampled(n, off, s) \in Nat
             /\ \A i \in Nat : i < Sampled(n, off, s) <=> s * i + off < n
  BY DEF Sampled
<1>2. /\ count_samples(p, n) = Sampled(n, xo(p), xs(p))
      /\ count_lines(p, n) = Sampled(n, yo(p), ys(p))
  BY DEF count_samples, count_lines, xs, xo, ys, yo
<1>3. xs(p) \in {1, 2, 4, 8} /\ ys(p) \in {1, 2, 4, 8} /\ xo(p) \in Nat /\ yo(p) \in Nat
  BY PassTable
<1>4. /\ count_samples(p, n) \in Nat
      /\ \A i \in Nat : i < count_samples(p, n) <=> xs(p) * i + xo(p) < n
  <2> DEFINE s == xs(p)
             off == xo(p)
  <2>1. s \in {1, 2, 4, 8} /\ off \in Nat
    BY <1>3
  <2> HIDE DEF s, off
  <2>2. Sampled(n, off, s) \in Nat /\ \A i \in Nat : i < Sampled(n, off, s) <=> s * i + off < n
    BY <1>1, <2>1
  <2> QED BY <1>2, <2>2 DEF s, off
<1>5. /\ count_lines(p, n) \in Nat
      /\ \A i \in Nat : i < count_lines(p, n) <=> ys(p) * i + yo(p) < n
  <2> DEFINE s == ys(p)
             off == yo(p)
  <2>1. s \in {1, 2, 4, 8} /\ off \in Nat
    BY <1>3
  <2> HIDE DEF s, off
  <2>2. Sampled(n, off, s) \in Nat /\ \A i \in Nat : i < Sampled(n, off, s) <=> s * i + off < n
    BY <1>1, <2>1
  <2> QED BY <1>2, <2>2 DEF s, off
<1> QED BY <1>4, <1>5

LEMMA OriginOfPixel ==
  ASSUME frame \in Frames, NEW i \in Nat
  PROVE  Origin(i) = i * pixel_units
<1>1. CASE bits
  <2>1. frame.bits_pp \in {1, 2, 4} /\ pixel_units = frame.bits_pp
    BY <1>1, UnitFacts
  <2> DEFINE per_byte == 8 \div frame.bits_pp
  <2>2. Origin(i) = 8 * (i \div per_byte)
                      + (8 - frame.bits_pp - (8 - frame.bits_pp * ((i % per_byte) + 1)))
    BY <1>1 DEF Origin, BIT_POS
  <2>3. /\ frame.bits_pp = 1 => per_byte = 8
        /\ frame.bits_pp = 2 => per_byte = 4
        /\ frame.bits_pp = 4 => per_byte = 2
    OBVIOUS
  <2> HIDE DEF per_byte
  <2>4. CASE frame.bits_pp = 1
    BY <2>1, <2>2, <2>3, <2>4
  <2>5. CASE frame.bits_pp = 2
    BY <2>1, <2>2, <2>3, <2>5
  <2>6. CASE frame.bits_pp = 4
    BY <2>1, <2>2, <2>3, <2>6
  <2> QED BY <2>1, <2>4, <2>5, <2>6
<1>2. CASE ~ bits
  BY <1>2 DEF Origin
<1> QED BY <1>1, <1>2

LEMMA TargetOfPixel ==
  ASSUME frame \in Frames, NEW r, r.pass \in 1 .. 7, r.line \in Nat, NEW i \in Nat
  PROVE  /\ x_pixel(r, i) = xs(r.pass) * i + xo(r.pass) /\ x_pixel(r, i) \in Nat
         /\ prog_line(r) = ys(r.pass) * r.line + yo(r.pass) /\ prog_line(r) \in Nat
         /\ Target(r, i) = prog_line(r) * stride_units + x_pixel(r, i) * pixel_units
<1> DEFINE x == x_pixel(r, i)
           y == prog_line(r)
<1>1. /\ x = xs(r.pass) * i + xo(r.pass) /\ x \in Nat
      /\ y = ys(r.pass) * r.line + yo(r.pass) /\ y \in Nat
  BY PassTable DEF x_pixel, prog_line, xs, xo, ys, yo
<1> HIDE DEF x, y
<1>2. CASE bits
  <2>1. /\ frame.bits_pp \in {1, 2, 4} /\ pixel_units = frame.bits_pp /\ row_stride \in Nat
        /\ stride_units = 8 * row_stride
    BY <1>2, UnitFacts
  <2> DEFINE at == x * frame.bits_pp
  <2>2. at \in Nat
    BY <1>1, <2>1
  <2> HIDE DEF at
  <2>3. (8 * (at \div 8)) + (at % 8) = at
    BY <2>2
  <2>4. y * row_stride \in Nat /\ y * (8 * row_stride) = 8 * (y * row_stride)
    BY <1>1, <2>1
  <2>5. Target(r, i) = 8 * (y * row_stride + (at \div 8)) + (at % 8)
    BY <1>2 DEF Target, expand_adam7_bits, at, x, y
  <2>6. Target(r, i) = y * stride_units + at
    BY <2>1, <2>2, <2>3, <2>4, <2>5
  <2> QED BY <1>1, <2>1, <2>6 DEF at, x, y
<1>3. CASE ~ bits
  <2>1. stride_units = row_stride /\ row_stride \in Nat /\ pixel_units \in Nat
    BY <1>3, UnitFacts
  <2>2. Target(r, i) = x * pixel_units + y * row_stride
    BY <1>3 DEF Target, expand_adam7_bytes, x, y
  <2> QED BY <1>1, <2>1, <2>2 DEF x, y
<1> QED BY <1>2, <1>3

LEMMA RowFacts ==
  ASSUME frame \in Frames, NEW r, IsRow(r)
  PROVE  /\ r.pass \in 1 .. 7 /\ r.line \in Nat /\ r.samples \in Nat
         /\ frame.width \in Nat /\ frame.height \in Nat
         /\ ys(r.pass) * r.line + yo(r.pass) < frame.height
         /\ \A i \in Nat : i < r.samples <=> xs(r.pass) * i + xo(r.pass) < frame.width
<1>1. r.pass \in 1 .. 7 /\ frame.width \in Nat /\ frame.height \in Nat
  BY UnitFacts DEF IsRow
<1>2. r.samples \in Nat /\ count_lines(r.pass, frame.height) \in Nat
  BY <1>1, CountsCover DEF IsRow
<1>3. r.line \in Nat /\ r.line < count_lines(r.pass, frame.height)
  BY <1>2 DEF IsRow
<1>4. ys(r.pass) * r.line + yo(r.pass) < frame.height
  BY <1>1, <1>3, CountsCover
<1>5. \A i \in Nat : i < r.samples <=> xs(r.pass) * i + xo(r.pass) < frame.width
  BY <1>1, CountsCover DEF IsRow
<1> QED BY <1>1, <1>2, <1>3, <1>4, <1>5

\* What is written to a unit when the copies that go there come from one unit of the row, if
\* there are any.
LEMMA WrittenFromOne ==
  ASSUME NEW copies, \A c \in copies : c = <<c[1], c[2]>>,
         NEW r, NEW u, NEW o, NEW Goes \in BOOLEAN,
         \A q : <<u, q>> \in copies <=> Goes /\ q = o
  PROVE  /\ Written(copies, r, u) = IF Goes THEN {RowUnit(r, o)} ELSE {}
         /\ u \in { c[1] : c \in copies } <=> Goes
<1>1. ASSUME NEW c \in copies, c[1] = u PROVE Goes /\ c[2] = o
  <2>1. <<u, c[2]>> \in copies
    BY <1>1
  <2> QED BY <2>1
<1>2. Goes => <<u, o>> \in copies /\ <<u, o>>[1] = u /\ <<u, o>>[2] = o
  OBVIOUS
<1> QED BY <1>1, <1>2 DEF Written

\* A pixel right of the i-th of a row and below it, in the block of that pixel.
Right(r, i, dx) == x_pixel(r, i) + dx
Below(r, dy)    == prog_line(r) + dy

LEMMA PixelOfBlock ==
  ASSUME frame \in Frames, NEW r, IsRow(r), NEW i \in 0 .. r.samples - 1, NEW k \in 0 .. pixel_units - 1,
         NEW dx \in Nat, dx < xs(r.pass) - xo(r.pass), Right(r, i, dx) < frame.width,
         NEW dy \in Nat, dy < ys(r.pass) - yo(r.pass), Below(r, dy) < frame.height
  PROVE  /\ IsUnit(Right(r, i, dx), Below(r, dy), k)
         /\ Right(r, i, dx) \div xs(r.pass) = i /\ Right(r, i, dx) % xs(r.pass) = xo(r.pass) + dx
         /\ Below(r, dy) \div ys(r.pass) = r.line /\ Below(r, dy) % ys(r.pass) = yo(r.pass) + dy
         /\ Target(r, i) + dx * pixel_units + k + dy * stride_units
              = UnitOf(Right(r, i, dx), Below(r, dy), k)
<1> DEFINE x == x_pixel(r, i)
           y == prog_line(r)
           p == r.pass
           l == r.line
<1>1. /\ p \in 1 .. 7 /\ l \in Nat /\ i \in Nat
      /\ frame.width \in Nat /\ frame.height \in Nat /\ pixel_units \in Nat /\ stride_units \in Nat
      /\ k \in Nat
  BY RowFacts, UnitFacts
<1>2. /\ x = xs(p) * i + xo(p) /\ x \in Nat /\ y = ys(p) * l + yo(p) /\ y \in Nat
      /\ Target(r, i) = y * stride_units + x * pixel_units
  BY <1>1, TargetOfPixel
<1> HIDE DEF x, y, p, l
<1>3. /\ xs(p) \in {1, 2, 4, 8} /\ ys(p) \in {1, 2, 4, 8} /\ xo(p) \in Nat /\ yo(p) \in Nat
      /\ xo(p) < xs(p) /\ yo(p) < ys(p)
  BY <1>1, GridConstants
<1>4. \A s \in {1, 2, 4, 8}, m \in Nat, d \in Nat :
        d < s => ((s * m) + d) \div s = m /\ ((s * m) + d) % s = d
  OBVIOUS
<1>5. (x + dx) \div xs(p) = i /\ (x + dx) % xs(p) = xo(p) + dx
  <2> DEFINE m == xs(p) * i
  <2>1. m \in Nat /\ x = m + xo(p) /\ dx < xs(p) - xo(p)
    BY <1>1, <1>2, <1>3 DEF p
  <2> HIDE DEF m
  <2>2. x + dx = m + (xo(p) + dx) /\ xo(p) + dx \in Nat /\ xo(p) + dx < xs(p)
    BY <1>3, <2>1
  <2> QED BY <1>1, <1>3, <1>4, <2>2 DEF m
<1>6. (y + dy) \div ys(p) = l /\ (y + dy) % ys(p) = yo(p) + dy
  <2> DEFINE m == ys(p) * l
  <2>1. m \in Nat /\ y = m + yo(p) /\ dy < ys(p) - yo(p)
    BY <1>1, <1>2, <1>3 DEF p
  <2> HIDE DEF m
  <2>2. y + dy = m + (yo(p) + dy) /\ yo(p) + dy \in Nat /\ yo(p) + dy < ys(p)
    BY <1>3, <2>1
  <2> QED BY <1>1, <1>3, <1>4, <2>2 DEF m
<1>7. IsUnit(x + dx, y + dy, k)
  BY <1>1, <1>2 DEF IsUnit, Right, Below, x, y
<1>8. Target(r, i) + dx * pixel_units + k + dy * stride_units = UnitOf(x + dx, y + dy, k)
  <2>1. /\ (x + dx) * pixel_units = x * pixel_units + dx * pixel_units
        /\ (y + dy) * stride_units = y * stride_units + dy * stride_units
        /\ x * pixel_units \in Nat /\ dx * pixel_units \in Nat
        /\ y * stride_units \in Nat /\ dy * stride_units \in Nat
    BY <1>1, <1>2
  <2> QED BY <1>1, <1>2, <2>1 DEF UnitOf
<1> QED BY <1>5, <1>6, <1>7, <1>8 DEF x, y, p, l, Right, Below

\* Every pixel of the frame that lies in a block of the row's is one of them.
LEMMA BlockOfPixel ==
  ASSUME frame \in Frames, NEW r, IsRow(r), NEW x, NEW y, NEW k, IsUnit(x, y, k),
         InBlock(r.pass, x, y), y \div ys(r.pass) = r.line
  PROVE  LET i == x \div xs(r.pass)
             dx == (x % xs(r.pass)) - xo(r.pass)
             dy == (y % ys(r.pass)) - yo(r.pass)
         IN  /\ i \in 0 .. r.samples - 1
             /\ dx \in Nat /\ dx < xs(r.pass) - xo(r.pass) /\ x = Right(r, i, dx)
             /\ dy \in Nat /\ dy < ys(r.pass) - yo(r.pass) /\ y = Below(r, dy)
<1> DEFINE p == r.pass
           l == r.line
           i == x \div xs(p)
           dx == (x % xs(p)) - xo(p)
           dy == (y % ys(p)) - yo(p)
<1>1. /\ p \in 1 .. 7 /\ l \in Nat /\ r.samples \in Nat /\ frame.width \in Nat /\ frame.height \in Nat
      /\ \A n \in Nat : n < r.samples <=> xs(p) * n + xo(p) < frame.width
  BY RowFacts
<1>2. x \in Nat /\ y \in Nat /\ x < frame.width /\ y < frame.height
  BY <1>1 DEF IsUnit
<1> HIDE DEF p, l
<1>3. /\ xs(p) \in {1, 2, 4, 8} /\ ys(p) \in {1, 2, 4, 8} /\ xo(p) \in Nat /\ yo(p) \in Nat
      /\ xo(p) < xs(p) /\ yo(p) < ys(p)
  BY <1>1, GridConstants
<1>4. \A s \in {1, 2, 4, 8}, n \in Nat :
        /\ n \div s \in Nat /\ n % s \in Nat /\ n % s < s /\ n = (s * (n \div s)) + (n % s)
  OBVIOUS
<1>5. /\ x \div xs(p) \in Nat /\ x % xs(p) \in Nat /\ x % xs(p) < xs(p)
      /\ x = (xs(p) * (x \div xs(p))) + (x % xs(p))
  BY <1>2, <1>3, <1>4
<1>6. /\ y \div ys(p) = l /\ y % ys(p) \in Nat /\ y % ys(p) < ys(p)
      /\ y = (ys(p) * l) + (y % ys(p))
  BY <1>2, <1>3, <1>4 DEF p, l
<1>7. x % xs(p) >= xo(p) /\ y % ys(p) >= yo(p)
  BY DEF InBlock, p
<1>8. i \in Nat /\ dx \in Nat /\ dx < xs(p) - xo(p) /\ x = (xs(p) * i + xo(p)) + dx
  BY <1>3, <1>5, <1>7
<1>9. dy \in Nat /\ dy < ys(p) - yo(p) /\ y = (ys(p) * l + yo(p)) + dy
  BY <1>1, <1>3, <1>6, <1>7
<1> HIDE DEF i, dx, dy
<1>10. i \in 0 .. r.samples - 1
  BY <1>1, <1>2, <1>3, <1>8
<1>11. x_pixel(r, i) = xs(p) * i + xo(p) /\ prog_line(r) = ys(p) * l + yo(p)
  BY <1>1, <1>8, TargetOfPixel DEF p, l
<1> QED BY <1>8, <1>9, <1>10, <1>11 DEF Right, Below, i, dx, dy, p

-------------------------------------------------------------------------------
(* The copies of a row, pixel by pixel.                                        *)

\* What expand_pass copies is a copy to the pixel a block begins with.
LEMMA SparseCopyIs ==
  ASSUME frame \in Frames, NEW r, IsRow(r), NEW c \in SparseCopies(r)
  PROVE  \E i \in 0 .. r.samples - 1, k \in 0 .. pixel_units - 1 :
           /\ IsUnit(Right(r, i, 0), Below(r, 0), k)
           /\ PassOf(Right(r, i, 0), Below(r, 0)) = r.pass
           /\ LineOf(Right(r, i, 0), Below(r, 0)) = r.line
           /\ SampleOf(Right(r, i, 0), Below(r, 0)) = i
           /\ c = <<UnitOf(Right(r, i, 0), Below(r, 0), k), i * pixel_units + k>>
<1> DEFINE p == r.pass
<1>1. PICK i \in 0 .. r.samples - 1, k \in 0 .. pixel_units - 1 :
        c = <<Target(r, i) + k, Origin(i) + k>>
  BY DEF SparseCopies
<1>2. /\ p \in 1 .. 7 /\ r.line \in Nat /\ i \in Nat /\ pixel_units \in Nat /\ k \in Nat
      /\ stride_units \in Nat /\ frame.width \in Nat /\ frame.height \in Nat
      /\ ys(p) * r.line + yo(p) < frame.height /\ xs(p) * i + xo(p) < frame.width
  BY RowFacts, UnitFacts
<1>3. xs(p) \in Nat /\ ys(p) \in Nat /\ xo(p) \in Nat /\ yo(p) \in Nat /\ xo(p) < xs(p) /\ yo(p) < ys(p)
  BY <1>2, GridConstants
<1>4. /\ x_pixel(r, i) = xs(p) * i + xo(p) /\ x_pixel(r, i) \in Nat
      /\ prog_line(r) = ys(p) * r.line + yo(p) /\ prog_line(r) \in Nat
      /\ Target(r, i) = prog_line(r) * stride_units + x_pixel(r, i) * pixel_units
      /\ Origin(i) = i * pixel_units
  BY <1>2, TargetOfPixel, OriginOfPixel
<1>5. Right(r, i, 0) = x_pixel(r, i) /\ Below(r, 0) = prog_line(r)
  BY <1>4 DEF Right, Below
<1> DEFINE x == Right(r, i, 0)
           y == Below(r, 0)
<1>6. /\ IsUnit(x, y, k) /\ x \div xs(p) = i /\ x % xs(p) = xo(p) + 0
      /\ y \div ys(p) = r.line /\ y % ys(p) = yo(p) + 0
      /\ Target(r, i) + 0 * pixel_units + k + 0 * stride_units = UnitOf(x, y, k)
  <2>1. /\ 0 \in Nat /\ 0 < xs(p) - xo(p) /\ Right(r, i, 0) < frame.width
        /\ 0 < ys(p) - yo(p) /\ Below(r, 0) < frame.height
    BY <1>2, <1>3, <1>4, <1>5
  <2> QED BY <2>1, PixelOfBlock
<1> HIDE DEF x, y
<1>7. x \in Nat /\ y \in Nat
  BY <1>4, <1>5 DEF x, y
<1>8. PassOf(x, y) = p
  BY <1>2, <1>3, <1>6, <1>7, PassOfGrid DEF OnGrid
<1>9. LineOf(x, y) = r.line /\ SampleOf(x, y) = i
  BY <1>6, <1>7, <1>8, PlaceInPass
<1>10. Target(r, i) + k = UnitOf(x, y, k)
  <2>1. /\ Target(r, i) \in Nat /\ 0 * pixel_units = 0 /\ 0 * stride_units = 0
    BY <1>2, <1>4
  <2> QED BY <1>2, <1>6, <2>1
<1> QED BY <1>1, <1>4, <1>6, <1>8, <1>9, <1>10 DEF x, y

\* expand_pass copies a unit of each pixel that belongs to the row.
LEMMA SparseCopiesPixel ==
  ASSUME frame \in Frames, NEW r, IsRow(r), NEW x, NEW y, NEW k, IsUnit(x, y, k), NEW q
  PROVE  <<UnitOf(x, y, k), q>> \in SparseCopies(r)
           <=> (PassOf(x, y) = r.pass /\ LineOf(x, y) = r.line)
               /\ q = SampleOf(x, y) * pixel_units + k
<1>1. ASSUME <<UnitOf(x, y, k), q>> \in SparseCopies(r)
      PROVE  PassOf(x, y) = r.pass /\ LineOf(x, y) = r.line
             /\ q = SampleOf(x, y) * pixel_units + k
  <2>1. PICK i \in 0 .. r.samples - 1, m \in 0 .. pixel_units - 1 :
          /\ IsUnit(Right(r, i, 0), Below(r, 0), m)
          /\ PassOf(Right(r, i, 0), Below(r, 0)) = r.pass
          /\ LineOf(Right(r, i, 0), Below(r, 0)) = r.line
          /\ SampleOf(Right(r, i, 0), Below(r, 0)) = i
          /\ <<UnitOf(x, y, k), q>> = <<UnitOf(Right(r, i, 0), Below(r, 0), m), i * pixel_units + m>>
    BY <1>1, SparseCopyIs
  <2>2. x = Right(r, i, 0) /\ y = Below(r, 0) /\ k = m
    BY <2>1, UnitsApart
  <2> QED BY <2>1, <2>2
<1>2. ASSUME PassOf(x, y) = r.pass, LineOf(x, y) = r.line
      PROVE  <<UnitOf(x, y, k), SampleOf(x, y) * pixel_units + k>> \in SparseCopies(r)
  <2> DEFINE i == SampleOf(x, y)
  <2>1. /\ r.pass \in 1 .. 7 /\ frame.width \in Nat /\ frame.height \in Nat /\ r.line \in Nat
        /\ pixel_units \in Nat /\ stride_units \in Nat /\ r.samples \in Nat
        /\ \A n \in Nat : n < r.samples <=> xs(r.pass) * n + xo(r.pass) < frame.width
    BY RowFacts, UnitFacts
  <2>2. x \in Nat /\ y \in Nat /\ k \in 0 .. pixel_units - 1 /\ x < frame.width
    BY <2>1 DEF IsUnit
  <2>3. /\ i = x \div xs(r.pass) /\ x = xs(r.pass) * i + xo(r.pass)
        /\ y = ys(r.pass) * r.line + yo(r.pass)
    BY <1>2, <2>2, PlaceInPass
  <2>4. i \in Nat
    BY <2>1, <2>2, <2>3, GridConstants
  <2> HIDE DEF i
  <2>5. i \in 0 .. r.samples - 1
    BY <2>1, <2>2, <2>3, <2>4
  <2>6. /\ x_pixel(r, i) = x /\ prog_line(r) = y
        /\ Target(r, i) = y * stride_units + x * pixel_units /\ Origin(i) = i * pixel_units
    BY <2>1, <2>3, <2>4, TargetOfPixel, OriginOfPixel
  <2>7. Target(r, i) + k = UnitOf(x, y, k)
    <3>1. x * pixel_units \in Nat /\ y * stride_units \in Nat
      BY <2>1, <2>2
    <3> QED BY <2>1, <2>2, <2>6, <3>1 DEF UnitOf
  <2>8. <<Target(r, i) + k, Origin(i) + k>> \in SparseCopies(r)
    BY <2>2, <2>5 DEF SparseCopies
  <2> QED BY <2>6, <2>7, <2>8 DEF i
<1> QED BY <1>1, <1>2

\* expand_pass_splat copies to a pixel of a block.
LEMMA SplatCopyIs ==
  ASSUME frame \in Frames, NEW r, IsRow(r), NEW c \in SplatCopies(r)
  PROVE  \E x, y, k :
           /\ IsUnit(x, y, k)
           /\ InBlock(r.pass, x, y) /\ y \div ys(r.pass) = r.line
           /\ c = <<UnitOf(x, y, k), (x \div xs(r.pass)) * pixel_units + k>>
<1> DEFINE p == r.pass
<1>1. PICK i \in 0 .. r.samples - 1 :
        \E dx \in 0 .. splat_pixel_repeat(r, i) - 1, dy \in 0 .. splat_line_repeat(r) - 1,
           k \in 0 .. pixel_units - 1 :
          c = <<Target(r, i) + dx * pixel_units + k + dy * stride_units, Origin(i) + k>>
  BY DEF SplatCopies
<1>2. PICK dx \in 0 .. splat_pixel_repeat(r, i) - 1, dy \in 0 .. splat_line_repeat(r) - 1,
           k \in 0 .. pixel_units - 1 :
        c = <<Target(r, i) + dx * pixel_units + k + dy * stride_units, Origin(i) + k>>
  BY <1>1
<1>3. /\ p \in 1 .. 7 /\ r.line \in Nat /\ i \in Nat /\ pixel_units \in Nat /\ k \in Nat
      /\ frame.width \in Nat /\ frame.height \in Nat
  BY RowFacts, UnitFacts
<1>4. xs(p) \in Nat /\ ys(p) \in Nat /\ xo(p) \in Nat /\ yo(p) \in Nat
  BY <1>3, GridConstants
<1>5. x_pixel(r, i) \in Nat /\ prog_line(r) \in Nat /\ Origin(i) = i * pixel_units
  BY <1>3, TargetOfPixel, OriginOfPixel
<1>6. /\ splat_pixel_repeat(r, i) = lesser(frame.width - x_pixel(r, i), xs(p) - xo(p))
      /\ splat_line_repeat(r) = lesser(frame.height - prog_line(r), ys(p) - yo(p))
  BY DEF splat_pixel_repeat, splat_line_repeat, xs, xo, ys, yo
<1>7. /\ dx \in Nat /\ dx < xs(p) - xo(p) /\ Right(r, i, dx) < frame.width
      /\ dy \in Nat /\ dy < ys(p) - yo(p) /\ Below(r, dy) < frame.height
  BY <1>3, <1>4, <1>5, <1>6 DEF lesser, Right, Below
<1> DEFINE x == Right(r, i, dx)
           y == Below(r, dy)
<1>8. /\ IsUnit(x, y, k) /\ x \div xs(p) = i /\ x % xs(p) = xo(p) + dx
      /\ y \div ys(p) = r.line /\ y % ys(p) = yo(p) + dy
      /\ Target(r, i) + dx * pixel_units + k + dy * stride_units = UnitOf(x, y, k)
  BY <1>7, PixelOfBlock
<1> HIDE DEF x, y
<1>9. InBlock(p, x, y)
  BY <1>4, <1>7, <1>8 DEF InBlock
<1> QED BY <1>2, <1>5, <1>8, <1>9

\* expand_pass_splat copies a unit to each pixel in a block of the row.
LEMMA SplatCopiesPixel ==
  ASSUME frame \in Frames, NEW r, IsRow(r), NEW x, NEW y, NEW k, IsUnit(x, y, k), NEW q
  PROVE  <<UnitOf(x, y, k), q>> \in SplatCopies(r)
           <=> (InBlock(r.pass, x, y) /\ y \div ys(r.pass) = r.line)
               /\ q = (x \div xs(r.pass)) * pixel_units + k
<1> DEFINE p == r.pass
<1>1. ASSUME <<UnitOf(x, y, k), q>> \in SplatCopies(r)
      PROVE  InBlock(p, x, y) /\ y \div ys(p) = r.line /\ q = (x \div xs(p)) * pixel_units + k
  <2>1. PICK v, z, m :
          /\ IsUnit(v, z, m)
          /\ InBlock(p, v, z) /\ z \div ys(p) = r.line
          /\ <<UnitOf(x, y, k), q>> = <<UnitOf(v, z, m), (v \div xs(p)) * pixel_units + m>>
    BY <1>1, SplatCopyIs
  <2>2. x = v /\ y = z /\ k = m
    BY <2>1, UnitsApart
  <2> QED BY <2>1, <2>2
<1>2. ASSUME InBlock(p, x, y), y \div ys(p) = r.line
      PROVE  <<UnitOf(x, y, k), (x \div xs(p)) * pixel_units + k>> \in SplatCopies(r)
  <2> DEFINE i == x \div xs(p)
             dx == (x % xs(p)) - xo(p)
             dy == (y % ys(p)) - yo(p)
  <2>1. /\ i \in 0 .. r.samples - 1
        /\ dx \in Nat /\ dx < xs(p) - xo(p) /\ x = Right(r, i, dx)
        /\ dy \in Nat /\ dy < ys(p) - yo(p) /\ y = Below(r, dy)
    BY <1>2, BlockOfPixel
  <2> HIDE DEF i, dx, dy
  <2>2. /\ p \in 1 .. 7 /\ r.line \in Nat /\ i \in Nat /\ pixel_units \in Nat
        /\ frame.width \in Nat /\ frame.height \in Nat /\ x < frame.width /\ y < frame.height
        /\ k \in 0 .. pixel_units - 1
    <3>1. /\ p \in 1 .. 7 /\ r.line \in Nat /\ i \in Nat /\ pixel_units \in Nat
          /\ frame.width \in Nat /\ frame.height \in Nat
      BY <2>1, RowFacts, UnitFacts
    <3> QED BY <3>1 DEF IsUnit
  <2>3. xs(p) \in Nat /\ ys(p) \in Nat /\ xo(p) \in Nat /\ yo(p) \in Nat
    BY <2>2, GridConstants
  <2>4. x_pixel(r, i) \in Nat /\ prog_line(r) \in Nat /\ Origin(i) = i * pixel_units
    BY <2>2, TargetOfPixel, OriginOfPixel
  <2>5. /\ splat_pixel_repeat(r, i) = lesser(frame.width - x_pixel(r, i), xs(p) - xo(p))
        /\ splat_line_repeat(r) = lesser(frame.height - prog_line(r), ys(p) - yo(p))
    BY DEF splat_pixel_repeat, splat_line_repeat, xs, xo, ys, yo
  <2>6. dx \in 0 .. splat_pixel_repeat(r, i) - 1 /\ dy \in 0 .. splat_line_repeat(r) - 1
    BY <2>1, <2>2, <2>3, <2>4, <2>5 DEF lesser, Right, Below
  <2>7. Target(r, i) + dx * pixel_units + k + dy * stride_units = UnitOf(x, y, k)
    BY <2>1, <2>2, PixelOfBlock
  <2>8. <<Target(r, i) + dx * pixel_units + k + dy * stride_units, Origin(i) + k>>
          \in SplatCopies(r)
    BY <2>1, <2>2, <2>6 DEF SplatCopies
  <2> QED BY <2>4, <2>7, <2>8 DEF i
<1> QED BY <1>1, <1>2

-------------------------------------------------------------------------------
(* What a row does to a unit of a pixel, and to the others.                    *)

\* The pixel is of the row, or in a block that the row fills.
OfRow(r, x, y)    == PassOf(x, y) = r.pass /\ LineOf(x, y) = r.line
FilledBy(r, x, y) == InBlock(r.pass, x, y) /\ y \div ys(r.pass) = r.line

\* A unit of the pixel afterwards.
SparseAfter(image, r, x, y, k) ==
  IF OfRow(r, x, y)
  THEN IF bits THEN image[UnitOf(x, y, k)] \cup {Own(x, y, k)} ELSE {Own(x, y, k)}
  ELSE image[UnitOf(x, y, k)]

SplatAfter(image, r, x, y, k) ==
  IF FilledBy(r, x, y) THEN {RowUnit(r, (x \div xs(r.pass)) * pixel_units + k)}
  ELSE image[UnitOf(x, y, k)]

LEMMA ExpandPassPixel ==
  ASSUME frame \in Frames, NEW r, IsRow(r), NEW x, NEW y, NEW k, IsUnit(x, y, k),
         NEW image, DOMAIN image = ImageUnits(frame)
  PROVE  expand_pass(image, r)[UnitOf(x, y, k)] = SparseAfter(image, r, x, y, k)
<1> DEFINE u == UnitOf(x, y, k)
           o == SampleOf(x, y) * pixel_units + k
           copies == SparseCopies(r)
           ofRow == OfRow(r, x, y)
<1>1. \A c \in copies : c = <<c[1], c[2]>>
  BY SparseCopyIs
<1>2. \A q : <<u, q>> \in copies <=> ofRow /\ q = o
  BY SparseCopiesPixel DEF OfRow
<1>3. ofRow \in BOOLEAN
  BY DEF OfRow
<1> HIDE DEF u, o, copies, ofRow
<1>4. /\ Written(copies, r, u) = IF ofRow THEN {RowUnit(r, o)} ELSE {}
      /\ u \in { c[1] : c \in copies } <=> ofRow
  BY <1>1, <1>2, <1>3, WrittenFromOne
<1>5. u \in DOMAIN image
  BY UnitInLine DEF u
<1>6. ofRow => RowUnit(r, o) = Own(x, y, k)
  BY DEF ofRow, OfRow, o, RowUnit, Own
<1>7. CASE bits
  <2>1. expand_pass(image, r)[u] = image[u] \cup Written(copies, r, u)
    BY <1>5, <1>7 DEF expand_pass, OrInto, copies
  <2> QED BY <1>4, <1>6, <1>7, <2>1 DEF u, ofRow, SparseAfter
<1>8. CASE ~ bits
  <2>1. expand_pass(image, r)[u]
          = IF u \in { c[1] : c \in copies } THEN Written(copies, r, u) ELSE image[u]
    BY <1>5, <1>8 DEF expand_pass, Store, copies
  <2> QED BY <1>4, <1>6, <1>8, <2>1 DEF u, ofRow, SparseAfter
<1> QED BY <1>7, <1>8

LEMMA ExpandPassSplatPixel ==
  ASSUME frame \in Frames, NEW r, IsRow(r), NEW x, NEW y, NEW k, IsUnit(x, y, k),
         NEW image, DOMAIN image = ImageUnits(frame)
  PROVE  expand_pass_splat(image, r)[UnitOf(x, y, k)] = SplatAfter(image, r, x, y, k)
<1> DEFINE u == UnitOf(x, y, k)
           o == (x \div xs(r.pass)) * pixel_units + k
           copies == SplatCopies(r)
           filled == FilledBy(r, x, y)
<1>1. \A c \in copies : c = <<c[1], c[2]>>
  BY SplatCopyIs
<1>2. \A q : <<u, q>> \in copies <=> filled /\ q = o
  BY SplatCopiesPixel DEF FilledBy
<1>3. filled \in BOOLEAN
  BY DEF FilledBy, InBlock
<1> HIDE DEF u, o, copies, filled
<1>4. /\ Written(copies, r, u) = IF filled THEN {RowUnit(r, o)} ELSE {}
      /\ u \in { c[1] : c \in copies } <=> filled
  BY <1>1, <1>2, <1>3, WrittenFromOne
<1>5. u \in DOMAIN image
  BY UnitInLine DEF u
<1>6. expand_pass_splat(image, r)[u]
        = IF u \in { c[1] : c \in copies } THEN Written(copies, r, u) ELSE image[u]
  BY <1>5 DEF expand_pass_splat, Store, copies
<1> QED BY <1>4, <1>6 DEF u, o, filled, SplatAfter

\* A unit of no pixel of the frame.
IsBeside(u) == \A x, y, k : IsUnit(x, y, k) => u # UnitOf(x, y, k)

LEMMA BesideStays ==
  ASSUME frame \in Frames, NEW r, IsRow(r), NEW image, NEW u \in DOMAIN image, IsBeside(u)
  PROVE  expand_pass(image, r)[u] = image[u] /\ expand_pass_splat(image, r)[u] = image[u]
<1>1. \A c \in SparseCopies(r) : c[1] # u
  <2> SUFFICES ASSUME NEW c \in SparseCopies(r) PROVE c[1] # u
    OBVIOUS
  <2>1. PICK x, y, k, o : IsUnit(x, y, k) /\ c = <<UnitOf(x, y, k), o>>
    BY SparseCopyIs
  <2> QED BY <2>1 DEF IsBeside
<1>2. \A c \in SplatCopies(r) : c[1] # u
  <2> SUFFICES ASSUME NEW c \in SplatCopies(r) PROVE c[1] # u
    OBVIOUS
  <2>1. PICK x, y, k, o : IsUnit(x, y, k) /\ c = <<UnitOf(x, y, k), o>>
    BY SplatCopyIs
  <2> QED BY <2>1 DEF IsBeside
<1>3. Written(SparseCopies(r), r, u) = {} /\ u \notin { c[1] : c \in SparseCopies(r) }
  BY <1>1 DEF Written
<1>4. u \notin { c[1] : c \in SplatCopies(r) }
  BY <1>2
<1>5. expand_pass(image, r)[u] = image[u]
  BY <1>3 DEF expand_pass, OrInto, Store
<1>6. expand_pass_splat(image, r)[u] = image[u]
  BY <1>4 DEF expand_pass_splat, Store
<1> QED BY <1>5, <1>6

\* The block of a pixel holds no pixel that was delivered earlier; of its own pass it
\* holds that pixel only.
LEMMA FilledAhead ==
  ASSUME NEW r, r.pass \in 1 .. 7, r.line \in Nat, NEW x \in Nat, NEW y \in Nat, FilledBy(r, x, y)
  PROVE  /\ PassOf(x, y) >= r.pass
         /\ PassOf(x, y) = r.pass => LineOf(x, y) = r.line /\ SampleOf(x, y) = x \div xs(r.pass)
<1>1. PassOf(x, y) >= r.pass
  BY PassOfGrid DEF FilledBy
<1>2. PassOf(x, y) = r.pass => LineOf(x, y) = r.line /\ SampleOf(x, y) = x \div xs(r.pass)
  BY PlaceInPass DEF FilledBy
<1> QED BY <1>1, <1>2

LEMMA OwnBlock ==
  ASSUME NEW r, r.pass \in 1 .. 7, NEW x \in Nat, NEW y \in Nat, OfRow(r, x, y)
  PROVE  FilledBy(r, x, y)
<1>1. OnGrid(r.pass, x, y)
  BY PassOfGrid DEF OfRow
<1>2. InBlock(r.pass, x, y)
  BY <1>1, GridConstants DEF OnGrid, InBlock
<1>3. y \div ys(r.pass) = r.line
  BY PlaceInPass DEF OfRow
<1> QED BY <1>2, <1>3 DEF FilledBy

-------------------------------------------------------------------------------
(* The invariant.                                                              *)

Iterating ==
  /\ frame \in Frames
  /\ it \in [current_pass : 1 .. 7, line : Nat, lines : Nat, line_width : Nat]
  /\ it.lines = count_lines(it.current_pass, frame.height)
  /\ it.line_width = count_samples(it.current_pass, frame.width)

Images == DOMAIN sparse = ImageUnits(frame) /\ DOMAIN splat = ImageUnits(frame)

\* What was delivered is there in both images; of the rest the sparse image has nothing yet that
\* bits could be or-ed with.
PixelsKept ==
  \A x, y, k : IsUnit(x, y, k) =>
    /\ Delivered(x, y) =>
         sparse[UnitOf(x, y, k)] = {Own(x, y, k)} /\ splat[UnitOf(x, y, k)] = {Own(x, y, k)}
    /\ ~ Delivered(x, y) /\ bits => sparse[UnitOf(x, y, k)] = {}

\* The lines of blocks that the first pass has filled have no holes.
Covered ==
  \A x, y, k : IsUnit(x, y, k) /\ (it.current_pass > 1 \/ y < 8 * it.line) =>
    Old \notin splat[UnitOf(x, y, k)]

BesideKept ==
  \A u \in ImageUnits(frame) : IsBeside(u) => splat[u] = {Old} /\ sparse[u] \subseteq {Old}

IInv == Iterating /\ Images /\ PixelsKept /\ Covered /\ BesideKept

LEMMA PixelIsNat ==
  ASSUME frame \in Frames, NEW x, NEW y, NEW k, IsUnit(x, y, k)
  PROVE  /\ x \in Nat /\ y \in Nat /\ k \in Nat /\ x < frame.width /\ y < frame.height
         /\ PassOf(x, y) \in 1 .. 7 /\ LineOf(x, y) \in Nat
<1>1. frame.width \in Nat /\ frame.height \in Nat /\ pixel_units \in Nat
  BY UnitFacts
<1>2. x \in Nat /\ y \in Nat /\ k \in Nat /\ x < frame.width /\ y < frame.height
  BY <1>1 DEF IsUnit
<1>3. PassOf(x, y) \in 1 .. 7
  BY <1>2, PassOfGrid
<1>4. LineOf(x, y) \in Nat
  <2>1. LineOf(x, y) = y \div ys(PassOf(x, y)) /\ ys(PassOf(x, y)) \in {1, 2, 4, 8}
    BY <1>2, <1>3, PlaceInPass, GridConstants
  <2> QED BY <1>2, <2>1
<1> QED BY <1>2, <1>3, <1>4

LEMMA InitEstablishes == Init => IInv
<1> SUFFICES ASSUME Init PROVE IInv
  OBVIOUS
<1>1. frame \in Frames
  BY DEF Init
<1>2. frame.width \in Nat /\ frame.height \in Nat
  BY <1>1, UnitFacts
<1>3. Iterating
  <2>1. count_lines(1, frame.height) \in Nat /\ count_samples(1, frame.width) \in Nat
    <3>1. 1 \in 1 .. 7
      OBVIOUS
    <3> QED BY <1>2, <3>1, CountsCover
  <2> QED BY <1>1, <2>1 DEF Init, Iterating, init_pass
<1>4. Images
  BY DEF Init, Images
<1>5. it.current_pass = 1 /\ it.line = 0
  BY DEF Init, init_pass
<1>6. PixelsKept
  <2> SUFFICES ASSUME NEW x, NEW y, NEW k, IsUnit(x, y, k)
               PROVE  ~ Delivered(x, y) /\ (bits => sparse[UnitOf(x, y, k)] = {})
    BY DEF PixelsKept
  <2>1. ~ Delivered(x, y)
    BY <1>1, <1>5, PixelIsNat DEF Delivered
  <2>2. UnitOf(x, y, k) \in ImageUnits(frame)
    BY <1>1, UnitInLine
  <2> QED BY <2>1, <2>2 DEF Init
<1>7. Covered
  <2> SUFFICES ASSUME NEW x, NEW y, NEW k, IsUnit(x, y, k)
               PROVE  ~ (it.current_pass > 1 \/ y < 8 * it.line)
    BY DEF Covered
  <2> QED BY <1>1, <1>5, PixelIsNat
<1>8. BesideKept
  BY DEF Init, BesideKept
<1> QED BY <1>3, <1>4, <1>6, <1>7, <1>8 DEF IInv

\* Nothing of this depends on anything that changes.
LEMMA FrameStays ==
  frame' = frame =>
    /\ pixel_units' = pixel_units /\ bits' = bits
    /\ \A x, y, k : /\ IsUnit(x, y, k)' <=> IsUnit(x, y, k)
                    /\ UnitOf(x, y, k)' = UnitOf(x, y, k)
                    /\ Own(x, y, k)' = Own(x, y, k)
    /\ \A u : IsBeside(u)' <=> IsBeside(u)
<1> SUFFICES ASSUME frame' = frame
             PROVE  /\ pixel_units' = pixel_units /\ bits' = bits
                    /\ \A x, y, k : /\ IsUnit(x, y, k)' <=> IsUnit(x, y, k)
                                    /\ UnitOf(x, y, k)' = UnitOf(x, y, k)
                                    /\ Own(x, y, k)' = Own(x, y, k)
                    /\ \A u : IsBeside(u)' <=> IsBeside(u)
  OBVIOUS
<1>1. pixel_units' = pixel_units /\ bits' = bits
  BY DEF pixel_units, bits
<1>2. stride_units' = stride_units
  BY <1>1 DEF stride_units, row_stride
<1>3. \A x, y, k : /\ IsUnit(x, y, k)' <=> IsUnit(x, y, k)
                   /\ UnitOf(x, y, k)' = UnitOf(x, y, k)
                   /\ Own(x, y, k)' = Own(x, y, k)
  BY <1>1, <1>2 DEF IsUnit, UnitOf, Own
<1>4. \A u : IsBeside(u)' <=> IsBeside(u)
  BY <1>3 DEF IsBeside
<1> QED BY <1>1, <1>3, <1>4

LEMMA NextLineKeeps == IInv /\ NextLine => IInv'
<1> SUFFICES ASSUME IInv, NextLine PROVE IInv'
  OBVIOUS
<1> DEFINE r == Adam7Info
<1>1. /\ frame' = frame /\ frame \in Frames
      /\ it \in [current_pass : 1 .. 7, line : Nat, lines : Nat, line_width : Nat]
      /\ it.line < it.lines /\ it.line_width > 0
      /\ it' = [it EXCEPT !.line = @ + 1]
  BY DEF IInv, Iterating, NextLine, HasLine
<1>2. /\ r.pass = it.current_pass /\ r.line = it.line /\ r.samples = it.line_width
      /\ r.pass \in 1 .. 7 /\ r.line \in Nat
  BY <1>1 DEF Adam7Info
<1>3. IsRow(r)
  BY <1>1, <1>2 DEF IInv, Iterating, IsRow
<1>4. sparse' = expand_pass(sparse, r) /\ splat' = expand_pass_splat(splat, r)
  BY DEF NextLine
<1> HIDE DEF r
<1>5. /\ it'.current_pass = it.current_pass /\ it'.line = it.line + 1 /\ it'.lines = it.lines
      /\ it'.line_width = it.line_width
  BY <1>1
<1>6. Iterating'
  BY <1>1, <1>5 DEF IInv, Iterating
<1>7. Images'
  <2>1. DOMAIN sparse' = DOMAIN sparse /\ DOMAIN splat' = DOMAIN splat
    BY <1>4 DEF expand_pass, expand_pass_splat, OrInto, Store
  <2> QED BY <1>1, <2>1 DEF IInv, Images
<1>8. \A x, y : Delivered(x, y)' <=> \/ PassOf(x, y) < it.current_pass
                                       \/ /\ PassOf(x, y) = it.current_pass
                                          /\ LineOf(x, y) < it.line + 1
  BY <1>1, <1>5 DEF Delivered
<1>9. ASSUME NEW x, NEW y, NEW k, IsUnit(x, y, k)
       PROVE  /\ sparse'[UnitOf(x, y, k)] = SparseAfter(sparse, r, x, y, k)
              /\ splat'[UnitOf(x, y, k)] = SplatAfter(splat, r, x, y, k)
  <2>1. /\ frame \in Frames
        /\ DOMAIN sparse = ImageUnits(frame) /\ DOMAIN splat = ImageUnits(frame)
    BY <1>1 DEF IInv, Images
  <2>2. expand_pass(sparse, r)[UnitOf(x, y, k)] = SparseAfter(sparse, r, x, y, k)
    BY <1>3, <1>9, <2>1, ExpandPassPixel
  <2>3. expand_pass_splat(splat, r)[UnitOf(x, y, k)] = SplatAfter(splat, r, x, y, k)
    BY <1>3, <1>9, <2>1, ExpandPassSplatPixel
  <2> QED BY <1>4, <2>2, <2>3
<1>10. PixelsKept'
  <2> SUFFICES ASSUME NEW x, NEW y, NEW k, IsUnit(x, y, k)
               PROVE  /\ Delivered(x, y)' =>
                           /\ sparse'[UnitOf(x, y, k)] = {Own(x, y, k)}
                           /\ splat'[UnitOf(x, y, k)] = {Own(x, y, k)}
                      /\ ~ Delivered(x, y)' /\ bits => sparse'[UnitOf(x, y, k)] = {}
    BY <1>1, FrameStays DEF PixelsKept
  <2> DEFINE u == UnitOf(x, y, k)
  <2>1. x \in Nat /\ y \in Nat /\ PassOf(x, y) \in 1 .. 7 /\ LineOf(x, y) \in Nat
    BY <1>1, PixelIsNat
  <2>2. Delivered(x, y)' <=> Delivered(x, y) \/ OfRow(r, x, y)
    BY <1>1, <1>2, <1>8, <2>1 DEF OfRow, Delivered
  <2>3. OfRow(r, x, y) => ~ Delivered(x, y)
    BY <1>1, <1>2, <2>1 DEF OfRow, Delivered
  <2>4. /\ Delivered(x, y) => sparse[u] = {Own(x, y, k)} /\ splat[u] = {Own(x, y, k)}
        /\ ~ Delivered(x, y) /\ bits => sparse[u] = {}
    BY DEF IInv, PixelsKept
  <2>5. sparse'[u] = IF OfRow(r, x, y)
                     THEN IF bits THEN sparse[u] \cup {Own(x, y, k)} ELSE {Own(x, y, k)}
                     ELSE sparse[u]
    BY <1>9 DEF SparseAfter
  <2>6. splat'[u] = IF FilledBy(r, x, y) THEN {RowUnit(r, (x \div xs(r.pass)) * pixel_units + k)}
                    ELSE splat[u]
    BY <1>9 DEF SplatAfter
  <2> HIDE DEF u
  <2>7. sparse'[u] = IF OfRow(r, x, y) THEN {Own(x, y, k)} ELSE sparse[u]
    BY <2>3, <2>4, <2>5
  <2>8. CASE OfRow(r, x, y)
    <3>1. FilledBy(r, x, y) /\ SampleOf(x, y) = x \div xs(r.pass)
      BY <1>2, <2>1, <2>8, OwnBlock, FilledAhead DEF OfRow
    <3>2. splat'[u] = {Own(x, y, k)}
      BY <2>6, <2>8, <3>1 DEF RowUnit, Own, OfRow
    <3> QED BY <2>2, <2>7, <2>8, <3>2 DEF u
  <2>9. CASE Delivered(x, y)
    <3>1. ~ FilledBy(r, x, y)
      BY <1>1, <1>2, <2>1, <2>9, FilledAhead DEF Delivered
    <3>2. sparse'[u] = {Own(x, y, k)} /\ splat'[u] = {Own(x, y, k)}
      BY <2>3, <2>4, <2>6, <2>7, <2>9, <3>1 DEF u
    <3> QED BY <2>2, <2>9, <3>2 DEF u
  <2>10. CASE ~ OfRow(r, x, y) /\ ~ Delivered(x, y)
    BY <2>2, <2>4, <2>7, <2>10 DEF u
  <2> QED BY <2>8, <2>9, <2>10
<1>11. Covered'
  <2> SUFFICES ASSUME NEW x, NEW y, NEW k, IsUnit(x, y, k),
                      it.current_pass > 1 \/ y < 8 * (it.line + 1)
               PROVE  Old \notin splat'[UnitOf(x, y, k)]
    BY <1>1, <1>5, FrameStays DEF Covered
  <2>1. x \in Nat /\ y \in Nat
    BY <1>1, PixelIsNat
  <2>2. CASE FilledBy(r, x, y)
    <3>1. splat'[UnitOf(x, y, k)] = {RowUnit(r, (x \div xs(r.pass)) * pixel_units + k)}
      BY <1>9, <2>2 DEF SplatAfter
    <3>2. RowUnit(r, (x \div xs(r.pass)) * pixel_units + k) # Old
      BY <1>2 DEF RowUnit, Old
    <3> QED BY <3>1, <3>2
  <2>3. CASE ~ FilledBy(r, x, y)
    <3>1. splat'[UnitOf(x, y, k)] = splat[UnitOf(x, y, k)]
      BY <1>9, <2>3 DEF SplatAfter
    <3>2. it.current_pass > 1 \/ y < 8 * it.line
      <4> SUFFICES ASSUME it.current_pass = 1, y < 8 * (it.line + 1) PROVE y < 8 * it.line
        BY <1>1
      <4>1. r.pass = 1 /\ xo(1) = 0 /\ yo(1) = 0 /\ xs(1) = 8 /\ ys(1) = 8
        BY <1>2, PassTable
      <4>2. y \div 8 # it.line
        BY <1>2, <2>1, <2>3, <4>1 DEF FilledBy, InBlock
      <4> QED BY <1>1, <2>1, <4>2
    <3> QED BY <3>1, <3>2 DEF IInv, Covered
  <2> QED BY <2>2, <2>3
<1>12. BesideKept'
  <2> SUFFICES ASSUME NEW u \in ImageUnits(frame), IsBeside(u)
               PROVE  splat'[u] = {Old} /\ sparse'[u] \subseteq {Old}
    BY <1>1, FrameStays DEF BesideKept
  <2>1. u \in DOMAIN sparse /\ u \in DOMAIN splat
    BY DEF IInv, Images
  <2>2. sparse'[u] = sparse[u] /\ splat'[u] = splat[u]
    BY <1>1, <1>3, <1>4, <2>1, BesideStays
  <2> QED BY <2>2 DEF IInv, BesideKept
<1> QED BY <1>6, <1>7, <1>10, <1>11, <1>12 DEF IInv

\* When a pass has no line left its pixels are delivered.
LEMMA PassDelivered ==
  ASSUME IInv, ~ HasLine, NEW x, NEW y, NEW k, IsUnit(x, y, k), PassOf(x, y) <= it.current_pass
  PROVE  Delivered(x, y)
<1> DEFINE p == it.current_pass
<1>1. /\ frame \in Frames /\ p \in 1 .. 7 /\ it.line \in Nat /\ it.lines \in Nat
      /\ it.line_width \in Nat
      /\ it.lines = count_lines(p, frame.height)
      /\ it.line_width = count_samples(p, frame.width)
  BY DEF IInv, Iterating
<1>2. /\ x \in Nat /\ y \in Nat /\ x < frame.width /\ y < frame.height
      /\ PassOf(x, y) \in 1 .. 7 /\ LineOf(x, y) \in Nat
  BY <1>1, PixelIsNat
<1>3. frame.width \in Nat /\ frame.height \in Nat
  BY <1>1, UnitFacts
<1>4. CASE PassOf(x, y) < p
  BY <1>4 DEF Delivered
<1>5. CASE PassOf(x, y) = p
  <2>1. p \in 1 .. 7
    BY <1>1
  <2> HIDE DEF p
  <2>2. /\ y = ys(p) * LineOf(x, y) + yo(p) /\ x = xs(p) * SampleOf(x, y) + xo(p)
        /\ SampleOf(x, y) = x \div xs(p)
    BY <1>2, <1>5, PlaceInPass
  <2>3. SampleOf(x, y) \in Nat
    BY <1>2, <2>1, <2>2, GridConstants
  <2>4. ys(p) * LineOf(x, y) + yo(p) < frame.height
    BY <1>2, <2>2
  <2>5. xs(p) * SampleOf(x, y) + xo(p) < frame.width
    BY <1>2, <2>2
  <2>6. LineOf(x, y) < count_lines(p, frame.height)
    BY <1>2, <1>3, <2>1, <2>4, CountsCover
  <2>7. SampleOf(x, y) < count_samples(p, frame.width)
    BY <1>3, <2>1, <2>3, <2>5, CountsCover
  <2>8. LineOf(x, y) < it.line
    BY <1>1, <1>2, <2>3, <2>6, <2>7 DEF HasLine
  <2> QED BY <1>5, <2>8 DEF Delivered, p
<1> QED BY <1>1, <1>2, <1>4, <1>5

LEMMA NextPassKeeps == IInv /\ NextPass => IInv'
<1> SUFFICES ASSUME IInv, NextPass PROVE IInv'
  OBVIOUS
<1> DEFINE p == it.current_pass
<1>1. /\ frame' = frame /\ sparse' = sparse /\ splat' = splat
      /\ frame \in Frames /\ p \in 1 .. 7 /\ p < 7 /\ ~ HasLine
      /\ it.line \in Nat /\ it.lines \in Nat /\ it.line_width \in Nat
      /\ it.lines = count_lines(p, frame.height)
      /\ it.line_width = count_samples(p, frame.width)
      /\ it' = init_pass(frame, p + 1, it.line)
  BY DEF IInv, Iterating, NextPass
<1>2. frame.width \in Nat \ {0} /\ frame.height \in Nat \ {0} /\ p + 1 \in 1 .. 7
  <2>1. frame \in Frames /\ p + 1 \in 1 .. 7
    BY <1>1
  <2>2. frame.width \in Nat \ {0} /\ frame.height \in Nat \ {0}
    BY <2>1, UnitFacts
  <2> QED BY <2>1, <2>2
<1>3. it'.current_pass = p + 1 /\ it'.line = 0
  BY <1>1 DEF init_pass
<1>4. Iterating'
  <2>1. count_lines(p + 1, frame.height) \in Nat /\ count_samples(p + 1, frame.width) \in Nat
    BY <1>2, CountsCover
  <2> QED BY <1>1, <1>2, <2>1 DEF Iterating, init_pass
<1>5. Images'
  BY <1>1 DEF IInv, Images
<1>6. PixelsKept'
  <2> SUFFICES ASSUME NEW x, NEW y, NEW k, IsUnit(x, y, k)
               PROVE  Delivered(x, y)' <=> Delivered(x, y)
    BY <1>1, FrameStays DEF IInv, PixelsKept
  <2>1. PassOf(x, y) \in 1 .. 7 /\ LineOf(x, y) \in Nat
    BY <1>1, PixelIsNat
  <2>2. Delivered(x, y)' <=> PassOf(x, y) <= p
    BY <1>1, <1>3, <2>1 DEF Delivered
  <2>3. Delivered(x, y) => PassOf(x, y) <= p
    BY <1>1, <2>1 DEF Delivered
  <2>4. PassOf(x, y) <= p => Delivered(x, y)
    BY <1>1, PassDelivered
  <2> QED BY <2>2, <2>3, <2>4
<1>7. Covered'
  <2> SUFFICES ASSUME NEW x, NEW y, NEW k, IsUnit(x, y, k)
               PROVE  it.current_pass > 1 \/ y < 8 * it.line
    BY <1>1, FrameStays DEF IInv, Covered
  <2> SUFFICES ASSUME p = 1 PROVE y < 8 * it.line
    BY <1>1
  <2>1. y \in Nat /\ y < frame.height
    BY <1>1, PixelIsNat
  <2>2. xs(1) = 8 /\ xo(1) = 0 /\ ys(1) = 8 /\ yo(1) = 0 /\ 1 \in 1 .. 7
    BY PassTable
  <2>3. 0 < it.line_width
    <3>1. xs(1) * 0 + xo(1) < frame.width
      BY <1>2, <2>2
    <3> QED BY <1>1, <1>2, <2>2, <3>1, CountsCover
  <2>4. y \div 8 < it.lines
    <3>1. y \div 8 \in Nat /\ ys(1) * (y \div 8) + yo(1) < frame.height
      BY <1>2, <2>1, <2>2
    <3> QED BY <1>1, <1>2, <2>2, <3>1, CountsCover
  <2>5. y \div 8 < it.line
    BY <1>1, <2>1, <2>3, <2>4 DEF HasLine
  <2> QED BY <1>1, <2>1, <2>5
<1>8. BesideKept'
  BY <1>1, FrameStays DEF IInv, BesideKept
<1> QED BY <1>4, <1>5, <1>6, <1>7, <1>8 DEF IInv

LEMMA StepKeeps == IInv /\ [Next]_vars => IInv'
<1>1. IInv /\ UNCHANGED vars => IInv'
  <2> SUFFICES ASSUME IInv, UNCHANGED vars PROVE IInv'
    OBVIOUS
  <2>1. frame' = frame /\ it' = it /\ sparse' = sparse /\ splat' = splat
    BY DEF vars
  <2>2. \A x, y : Delivered(x, y)' <=> Delivered(x, y)
    BY <2>1 DEF Delivered
  <2>3. Iterating' /\ Images'
    BY <2>1 DEF IInv, Iterating, Images
  <2>4. PixelsKept' /\ Covered' /\ BesideKept'
    BY <2>1, <2>2, FrameStays DEF IInv, PixelsKept, Covered, BesideKept
  <2> QED BY <2>3, <2>4 DEF IInv
<1> QED BY <1>1, NextLineKeeps, NextPassKeeps DEF Next

\* What next_frame does besides, to rows, leaves the iterator and the images alone.
LEMMA OutputInvariant == OutputSpec => []IInv
<1>1. OutputInit => IInv
  BY InitEstablishes DEF OutputInit
<1>2. [OutputNext]_outputVars => [Next]_vars
  BY DEF OutputNext, outputVars, BeginRow, TransformRow, EndRow, AdvancePass, Next
<1>3. IInv /\ [OutputNext]_outputVars => IInv'
  BY <1>2, StepKeeps
<1> QED BY <1>1, <1>3, PTL DEF OutputSpec

LEMMA PixelsAreUnits ==
  ASSUME NEW q \in Pixels, NEW k \in 0 .. pixel_units - 1
  PROVE  IsUnit(q[1], q[2], k)
BY DEF Pixels, IsUnit

\* For frames of every size, depth and stride: a pixel that was delivered stays in both images,
\* whatever passes, lines and repetitions of pixels follow ("Data written in previous passes must
\* not be modified").
THEOREM DeliveredPixelsStay == OutputSpec => []DeliveredStays
<1>1. IInv => DeliveredStays
  BY PixelsAreUnits DEF IInv, PixelsKept, DeliveredStays, Holds
<1> QED BY <1>1, OutputInvariant, PTL

\* For frames of every size: from the end of the first pass on the image that
\* expand_pass_splat fills can be shown, there is no pixel in it that was not written.
THEOREM FirstPassCovers == OutputSpec => []NoHoles
<1>1. IInv => NoHoles
  BY PixelsAreUnits DEF IInv, Covered, NoHoles
<1> QED BY <1>1, OutputInvariant, PTL

LEMMA PlaceInLine ==
  ASSUME NEW s \in Nat \ {0}, NEW m \in Nat, NEW c \in Nat, c < s
  PROVE  (m * s + c) % s = c
<1> DEFINE n == m * s + c
<1>1. m * s \in Nat /\ n \in Nat
  OBVIOUS
<1> HIDE DEF n
<1>2. n \div s \in Nat /\ n % s \in Nat /\ n % s < s /\ n = s * (n \div s) + (n % s)
  BY <1>1
<1>3. s * (n \div s) = (n \div s) * s
  BY <1>2
<1>4. m * s + c = (n \div s) * s + (n % s)
  BY <1>2, <1>3 DEF n
<1> QED BY <1>2, <1>4, LinesApart DEF n

\* For frames of every size, depth and stride: when the iterator has come to its end every pixel
\* is at its place in both images, and nothing beside the frame was touched.
THEOREM ImageIsRecovered == OutputSpec => []ImageRecovered
<1>1. ASSUME IInv, Done PROVE \A q \in Pixels : Holds(sparse, q[1], q[2]) /\ Holds(splat, q[1], q[2])
  <2> SUFFICES ASSUME NEW q \in Pixels, NEW k \in 0 .. pixel_units - 1
               PROVE  Delivered(q[1], q[2])
    BY <1>1, PixelsAreUnits DEF IInv, PixelsKept, Holds
  <2>1. IsUnit(q[1], q[2], k) /\ ~ HasLine /\ it.current_pass = 7 /\ frame \in Frames
    BY <1>1, PixelsAreUnits DEF Done, IInv, Iterating
  <2>2. PassOf(q[1], q[2]) <= it.current_pass
    BY <2>1, PixelIsNat
  <2> QED BY <1>1, <2>1, <2>2, PassDelivered
<1>2. ASSUME IInv PROVE BesideUntouched
  <2> SUFFICES ASSUME NEW u \in DOMAIN splat, (u % stride_units) >= frame.width * pixel_units
               PROVE  splat[u] = {Old} /\ sparse[u] \subseteq {Old}
    BY DEF BesideUntouched
  <2>1. frame \in Frames /\ u \in ImageUnits(frame)
    BY <1>2 DEF IInv, Iterating, Images
  <2>2. IsBeside(u)
    <3> SUFFICES ASSUME NEW x, NEW y, NEW k, IsUnit(x, y, k), u = UnitOf(x, y, k) PROVE FALSE
      BY DEF IsBeside
    <3> DEFINE c == x * pixel_units + k
    <3>1. /\ c \in 0 .. frame.width * pixel_units - 1 /\ c < stride_units
          /\ u = y * stride_units + c
      BY <2>1, UnitInLine
    <3>2. stride_units \in Nat /\ y \in Nat /\ frame.width * pixel_units \in Nat
      <4>1. frame.width \in Nat /\ pixel_units \in Nat /\ stride_units \in Nat
        BY <2>1, UnitFacts
      <4> QED BY <2>1, <4>1, PixelIsNat
    <3> HIDE DEF c
    <3>3. u % stride_units = c
      BY <3>1, <3>2, PlaceInLine
    <3> QED BY <3>1, <3>2, <3>3
  <2> QED BY <1>2, <2>1, <2>2 DEF IInv, BesideKept
<1>3. IInv => ImageRecovered
  BY <1>1, <1>2 DEF ImageRecovered
<1> QED BY <1>3, OutputInvariant, PTL
===============================================================================
