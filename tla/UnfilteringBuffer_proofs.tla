---------------------- MODULE UnfilteringBuffer_proofs ----------------------
(***************************************************************************)
(* Proofs about UnfilteringBuffer, for every window size, look-back        *)
(* distance, frame layout and compressed stream.                           *)
(***************************************************************************)
EXTENDS UnfilteringBuffer, SequenceTheorems, TLAPS

Ordered(b) ==
  /\ b.prev_start <= b.current_start
  /\ b.current_start <= b.available
  /\ b.available <= b.filled
  /\ b.filled <= Len(b.data_stream)

\* Two buffers show the same bytes between prev_start and filled, wherever these
\* lie in the vector.
SameExtent(b, c) ==
  /\ c.current_start - c.prev_start = b.current_start - b.prev_start
  /\ c.available - c.current_start = b.available - b.current_start
  /\ c.filled - c.current_start = b.filled - b.current_start
  /\ c.remaining_bytes = b.remaining_bytes

SameWindow(b, c) ==
  /\ SameExtent(b, c)
  /\ \A o \in b.prev_start .. b.filled - 1 :
       c.data_stream[(o - b.prev_start) + c.prev_start + 1] = b.data_stream[o + 1]

LEMMA BufFields ==
  ASSUME NEW b \in BufType
  PROVE  /\ b.data_stream \in Seq(Int) /\ Len(b.data_stream) \in Nat
         /\ b.prev_start \in Nat
         /\ b.current_start \in Nat
         /\ b.filled \in Nat
         /\ b.available \in Nat
         /\ b.remaining_bytes \in Nat
<1>1. b.data_stream \in Seq(Int)
  BY DEF BufType
<1>2. Len(b.data_stream) \in Nat
  BY <1>1, LenProperties
<1> QED BY <1>1, <1>2 DEF BufType

-----------------------------------------------------------------------------
(* The vector operations.                                                  *)

LEMMA FunctionIsSeq ==
  ASSUME NEW n \in Nat, NEW s \in [1 .. n -> Int]
  PROVE  s \in Seq(Int) /\ Len(s) = n
BY SeqDef

LEMMA CopyToFrontProperties ==
  ASSUME NEW s \in Seq(Int), NEW prev_start \in Nat, NEW end \in Nat,
         prev_start <= end, end <= Len(s)
  PROVE  /\ CopyToFront(s, prev_start, end) \in Seq(Int)
         /\ Len(CopyToFront(s, prev_start, end)) = Len(s)
         /\ \A i \in 1 .. end - prev_start :
              CopyToFront(s, prev_start, end)[i] = s[i + prev_start]
<1> DEFINE t == CopyToFront(s, prev_start, end)
<1>1. Len(s) \in Nat /\ \A i \in 1 .. Len(s) : s[i] \in Int
  BY LenProperties
<1>2. t \in [1 .. Len(s) -> Int]
  BY <1>1 DEF CopyToFront
<1>3. t \in Seq(Int) /\ Len(t) = Len(s)
  BY <1>1, <1>2, FunctionIsSeq
<1>4. \A i \in 1 .. end - prev_start : t[i] = s[i + prev_start]
  BY <1>1 DEF CopyToFront
<1> QED BY <1>3, <1>4

LEMMA ResizeProperties ==
  ASSUME NEW s \in Seq(Int), NEW n \in Nat
  PROVE  /\ Resize(s, n) \in Seq(Int)
         /\ Len(Resize(s, n)) = n
         /\ \A i \in 1 .. n : i <= Len(s) => Resize(s, n)[i] = s[i]
<1> DEFINE t == Resize(s, n)
<1>1. Len(s) \in Nat /\ \A i \in 1 .. Len(s) : s[i] \in Int
  BY LenProperties
<1>2. t \in [1 .. n -> Int]
  BY <1>1 DEF Resize, Zero
<1>3. t \in Seq(Int) /\ Len(t) = n
  BY <1>2, FunctionIsSeq
<1>4. \A i \in 1 .. n : i <= Len(s) => t[i] = s[i]
  BY DEF Resize
<1> QED BY <1>3, <1>4

LEMMA InflateIsSeq ==
  ASSUME NEW s \in Seq(Int), NEW filled \in Nat, NEW n \in Nat, NEW out \in Nat
  PROVE  /\ Inflate(s, filled, n, out) \in Seq(Int)
         /\ Len(Inflate(s, filled, n, out)) = Len(s)
<1> DEFINE t == Inflate(s, filled, n, out)
<1>1. Len(s) \in Nat /\ \A i \in 1 .. Len(s) : s[i] \in Int
  BY LenProperties
<1>2. t \in [1 .. Len(s) -> Int]
  BY <1>1 DEF Inflate, Raw
<1> HIDE DEF t
<1>3. t \in Seq(Int) /\ Len(t) = Len(s)
  BY <1>1, <1>2, FunctionIsSeq
<1> QED BY <1>3 DEF t

LEMMA InflateBytes ==
  ASSUME NEW s \in Seq(Int), NEW filled \in Nat, NEW n \in Nat, NEW out \in Nat
  PROVE  /\ \A i \in 1 .. Len(s) : i <= filled => Inflate(s, filled, n, out)[i] = s[i]
         /\ \A i \in 1 .. Len(s) : filled < i /\ i <= filled + n =>
              Inflate(s, filled, n, out)[i] = Raw(out + (i - 1 - filled))
<1>1. Len(s) \in Nat
  BY LenProperties
<1> QED BY <1>1 DEF Inflate

-----------------------------------------------------------------------------
(* Making the window ready keeps what is in it.                            *)

LEMMA SameWindowTrans ==
  ASSUME NEW a \in BufType, NEW b \in BufType, NEW c \in BufType,
         SameWindow(a, b), SameWindow(b, c)
  PROVE  SameWindow(a, c)
<1>1. SameExtent(a, b) /\ SameExtent(b, c)
  BY DEF SameWindow
<1>2. SameExtent(a, c)
  BY <1>1 DEF SameExtent, BufType
<1>3. ASSUME NEW o \in a.prev_start .. a.filled - 1
      PROVE  c.data_stream[(o - a.prev_start) + c.prev_start + 1] = a.data_stream[o + 1]
  <2> DEFINE p == (o - a.prev_start) + b.prev_start
  <2>a. /\ a.prev_start \in Nat /\ a.filled \in Nat /\ a.current_start \in Nat
        /\ b.prev_start \in Nat /\ b.filled \in Nat /\ b.current_start \in Nat
    BY BufFields
  <2>b. /\ b.current_start - b.prev_start = a.current_start - a.prev_start
        /\ b.filled - b.current_start = a.filled - a.current_start
    BY <1>1 DEF SameExtent
  <2>1. p \in b.prev_start .. b.filled - 1
    BY <2>a, <2>b
  <2>2. p - b.prev_start = o - a.prev_start
    BY BufFields
  <2>3. c.data_stream[(p - b.prev_start) + c.prev_start + 1] = b.data_stream[p + 1]
    BY <2>1 DEF SameWindow
  <2>4. b.data_stream[p + 1] = a.data_stream[o + 1]
    BY DEF SameWindow
  <2> QED BY <2>2, <2>3, <2>4
<1> QED BY <1>2, <1>3 DEF SameWindow

LEMMA ShiftBackKeepsWindow ==
  ASSUME NEW b \in BufType, Ordered(b)
  PROVE  /\ ShiftBack(b) \in BufType
         /\ Ordered(ShiftBack(b))
         /\ SameWindow(b, ShiftBack(b))
<1> DEFINE c == ShiftBack(b)
           s == b.data_stream
<1>1. CASE ~ (b.prev_start >= shift_back_limit /\ b.filled >= Len(s) \div 2)
  <2>1. ShiftBack(b) = b
    BY <1>1 DEF ShiftBack
  <2>2. SameWindow(b, b)
    BY DEF SameWindow, SameExtent, BufType
  <2> QED BY <2>1, <2>2
<1>2. CASE b.prev_start >= shift_back_limit /\ b.filled >= Len(s) \div 2
  <2> DEFINE end == IF Len(s) - b.filled >= TAIL_COPY THEN b.filled ELSE Len(s)
             t == CopyToFront(s, b.prev_start, end)
  <2>1. Len(s) \in Nat
    BY LenProperties DEF BufType
  <2>2. end \in Nat /\ b.filled <= end /\ end <= Len(s) /\ b.prev_start <= end
    BY <2>1 DEF BufType, Ordered
  <2>3. /\ t \in Seq(Int) /\ Len(t) = Len(s)
        /\ \A i \in 1 .. end - b.prev_start : t[i] = s[i + b.prev_start]
    <3> HIDE DEF end
    <3> QED BY <2>2, CopyToFrontProperties DEF BufType
  <2>4. c = [b EXCEPT !.data_stream = t,
                      !.current_start = @ - b.prev_start,
                      !.available = @ - b.prev_start,
                      !.filled = @ - b.prev_start,
                      !.prev_start = 0]
    BY <1>2 DEF ShiftBack
  <2> HIDE DEF end, t, c
  <2>5. c \in BufType /\ Ordered(c)
    <3>1. /\ c.data_stream = t
          /\ c.prev_start = 0
          /\ c.current_start = b.current_start - b.prev_start
          /\ c.available = b.available - b.prev_start
          /\ c.filled = b.filled - b.prev_start
          /\ c.remaining_bytes = b.remaining_bytes
      BY <2>4 DEF BufType
    <3>2. /\ c.current_start \in Nat /\ c.available \in Nat /\ c.filled \in Nat
          /\ c.remaining_bytes \in Nat
      BY <3>1, BufFields DEF Ordered
    <3>3. c \in BufType
      BY <2>3, <2>4, <3>1, <3>2 DEF BufType
    <3>4. Ordered(c)
      BY <2>3, <3>1, BufFields DEF Ordered
    <3> QED BY <3>3, <3>4
  <2>6. ASSUME NEW o \in b.prev_start .. b.filled - 1
        PROVE  c.data_stream[(o - b.prev_start) + c.prev_start + 1] = s[o + 1]
    <3>0. b.prev_start \in Nat /\ b.filled \in Nat /\ o \in Int
      BY BufFields
    <3>1. (o - b.prev_start) + 1 \in 1 .. end - b.prev_start
      BY ONLY <2>2, <3>0, o \in b.prev_start .. b.filled - 1
    <3>2. c.data_stream = t /\ c.prev_start = 0
      BY <2>4 DEF BufType
    <3>3. (o - b.prev_start) + c.prev_start + 1 = (o - b.prev_start) + 1
      BY ONLY <3>0, <3>2
    <3>4. t[(o - b.prev_start) + 1] = s[((o - b.prev_start) + 1) + b.prev_start]
      BY <2>3, <3>1
    <3>5. ((o - b.prev_start) + 1) + b.prev_start = o + 1
      BY ONLY <3>0
    <3> QED BY <3>2, <3>3, <3>4, <3>5
  <2>7. /\ c.current_start - c.prev_start = b.current_start - b.prev_start
        /\ c.available - c.current_start = b.available - b.current_start
        /\ c.filled - c.current_start = b.filled - b.current_start
        /\ c.remaining_bytes = b.remaining_bytes
    BY <2>4 DEF BufType
  <2> QED BY <2>5, <2>6, <2>7 DEF SameWindow, SameExtent, c
<1> QED BY <1>1, <1>2

LEMMA GrowKeepsWindow ==
  ASSUME NEW b \in BufType, Ordered(b)
  PROVE  /\ Grow(b) \in BufType
         /\ Ordered(Grow(b))
         /\ SameWindow(b, Grow(b))
         /\ Len(Grow(b).data_stream) - Grow(b).filled <= b.remaining_bytes
         /\ b.remaining_bytes > 0 => Len(Grow(b).data_stream) > Grow(b).filled
<1> DEFINE s == b.data_stream
           grown == IF b.filled + GROWTH_BYTES > Len(s)
                    THEN Resize(s, b.filled + GROWTH_BYTES) ELSE s
           cut == IF b.filled + b.remaining_bytes < Len(grown)
                  THEN Resize(grown, b.filled + b.remaining_bytes) ELSE grown
<1>1. Len(s) \in Nat /\ s \in Seq(Int)
  BY LenProperties DEF BufType
<1>2. b.filled + GROWTH_BYTES \in Nat /\ b.filled + b.remaining_bytes \in Nat
  BY SizesAssumption DEF BufType
<1>3. /\ grown \in Seq(Int)
      /\ Len(grown) \in Nat
      /\ Len(grown) >= b.filled + GROWTH_BYTES
      /\ \A i \in 1 .. b.filled : grown[i] = s[i]
  <2>1. CASE b.filled + GROWTH_BYTES > Len(s)
    <3> DEFINE t == Resize(s, b.filled + GROWTH_BYTES)
    <3>1. /\ t \in Seq(Int)
          /\ Len(t) = b.filled + GROWTH_BYTES
          /\ \A i \in 1 .. b.filled + GROWTH_BYTES : i <= Len(s) => t[i] = s[i]
      BY <1>1, <1>2, ResizeProperties
    <3> HIDE DEF t
    <3>2. b.filled \in Nat /\ b.filled <= Len(s) /\ GROWTH_BYTES \in Nat
      BY BufFields, SizesAssumption DEF Ordered
    <3>3. ASSUME NEW i \in 1 .. b.filled
          PROVE  t[i] = s[i]
      <4>1. i \in 1 .. b.filled + GROWTH_BYTES /\ i <= Len(s)
        BY <3>2, <1>1
      <4> QED BY <4>1, <3>1
    <3>4. grown = t
      BY <2>1 DEF t
    <3> HIDE DEF grown
    <3> QED BY <3>1, <3>3, <3>4, <1>2
  <2>2. CASE ~ (b.filled + GROWTH_BYTES > Len(s))
    BY <2>2, <1>1, BufFields, SizesAssumption
  <2> QED BY <2>1, <2>2
<1>4. /\ cut \in Seq(Int)
      /\ Len(cut) \in Nat
      /\ b.filled <= Len(cut)
      /\ Len(cut) - b.filled <= b.remaining_bytes
      /\ b.remaining_bytes > 0 => Len(cut) > b.filled
      /\ \A i \in 1 .. b.filled : cut[i] = s[i]
  <2> HIDE DEF grown
  <2>1. CASE b.filled + b.remaining_bytes < Len(grown)
    <3> DEFINE t == Resize(grown, b.filled + b.remaining_bytes)
    <3>1. /\ t \in Seq(Int)
          /\ Len(t) = b.filled + b.remaining_bytes
          /\ \A i \in 1 .. b.filled + b.remaining_bytes : i <= Len(grown) => t[i] = grown[i]
      BY <1>2, <1>3, ResizeProperties
    <3> HIDE DEF t
    <3>2. b.filled \in Nat /\ b.remaining_bytes \in Nat /\ GROWTH_BYTES \in Nat
      BY BufFields, SizesAssumption
    <3>3. ASSUME NEW i \in 1 .. b.filled
          PROVE  t[i] = s[i]
      <4>1. i \in 1 .. b.filled + b.remaining_bytes /\ i <= Len(grown)
        BY <3>2, <1>3
      <4>2. t[i] = grown[i]
        BY <4>1, <3>1
      <4> QED BY <4>2, <1>3
    <3>4. cut = t
      BY <2>1 DEF t
    <3> HIDE DEF cut
    <3> QED BY <3>1, <3>2, <3>3, <3>4, <1>2
  <2>2. CASE ~ (b.filled + b.remaining_bytes < Len(grown))
    BY <2>2, <1>3, BufFields, SizesAssumption
  <2> QED BY <2>1, <2>2
<1>5. Grow(b) = [b EXCEPT !.data_stream = cut]
  BY DEF Grow
<1> DEFINE c == Grow(b)
<1> HIDE DEF cut, c
<1>6. /\ c.data_stream = cut
      /\ c.prev_start = b.prev_start
      /\ c.current_start = b.current_start
      /\ c.available = b.available
      /\ c.filled = b.filled
      /\ c.remaining_bytes = b.remaining_bytes
      /\ c \in BufType
  BY <1>4, <1>5 DEF BufType, c
<1>7. Ordered(c)
  BY <1>4, <1>6, BufFields DEF Ordered
<1>8. SameExtent(b, c)
  BY <1>6, BufFields DEF SameExtent
<1>9. ASSUME NEW o \in b.prev_start .. b.filled - 1
      PROVE  c.data_stream[(o - b.prev_start) + c.prev_start + 1] = s[o + 1]
  <2>1. b.prev_start \in Nat /\ b.filled \in Nat
    BY BufFields
  <2>2. (o - b.prev_start) + c.prev_start + 1 = o + 1 /\ o + 1 \in 1 .. b.filled
    BY <1>6, <2>1
  <2> QED BY <1>4, <1>6, <2>2
<1> QED BY <1>4, <1>6, <1>7, <1>8, <1>9 DEF SameWindow, c

\* What the closure of with_unfilled_buffer gets: the same window, made ready.
LEMMA UnfilledIsReady ==
  ASSUME buf \in BufType, MarkersOrdered
  PROVE  /\ Unfilled \in BufType
         /\ Ordered(Unfilled)
         /\ SameWindow(buf, Unfilled)
         /\ Len(Unfilled.data_stream) - Unfilled.filled <= Unfilled.remaining_bytes
         /\ Unfilled.remaining_bytes > 0 => Len(Unfilled.data_stream) > Unfilled.filled
<1> DEFINE b == ShiftBack(buf)
           c == Grow(b)
<1>1. b \in BufType /\ Ordered(b) /\ SameWindow(buf, b)
  BY ShiftBackKeepsWindow DEF MarkersOrdered, Ordered
<1> HIDE DEF b
<1>2. /\ c \in BufType /\ Ordered(c) /\ SameWindow(b, c)
      /\ Len(c.data_stream) - c.filled <= b.remaining_bytes
      /\ b.remaining_bytes > 0 => Len(c.data_stream) > c.filled
  BY <1>1, GrowKeepsWindow
<1> HIDE DEF c
<1>3. SameWindow(buf, c)
  BY <1>1, <1>2, SameWindowTrans
<1>4. c.remaining_bytes = b.remaining_bytes
  BY <1>2 DEF SameWindow, SameExtent
<1>5. Unfilled = c
  BY DEF Unfilled, c, b
<1> QED BY <1>2, <1>3, <1>4, <1>5

-----------------------------------------------------------------------------
(* What the window holds, relative to the number of bytes delivered so far. *)

RawsFrom(b, base) ==
  \A o \in b.current_start .. b.filled - 1 :
    b.data_stream[o + 1] = Raw(base + (o - b.current_start))

CookedUpTo(b, base) ==
  \A o \in b.prev_start .. b.current_start - 1 :
    b.data_stream[o + 1] = Cooked(base + (o - b.current_start))

LEMMA WindowKeepsBytes ==
  ASSUME NEW b \in BufType, NEW c \in BufType, Ordered(b), Ordered(c),
         SameWindow(b, c), NEW base \in Nat, RawsFrom(b, base), CookedUpTo(b, base)
  PROVE  RawsFrom(c, base) /\ CookedUpTo(c, base)
<1>1. /\ b.prev_start \in Nat /\ b.current_start \in Nat /\ b.filled \in Nat
      /\ c.prev_start \in Nat /\ c.current_start \in Nat /\ c.filled \in Nat
  BY BufFields
<1>2. /\ c.current_start - c.prev_start = b.current_start - b.prev_start
      /\ c.filled - c.current_start = b.filled - b.current_start
  BY DEF SameWindow, SameExtent
<1>3. b.prev_start <= b.current_start /\ c.prev_start <= c.current_start
      /\ b.current_start <= b.filled /\ c.current_start <= c.filled
  BY BufFields DEF Ordered
<1>4. ASSUME NEW o \in c.prev_start .. c.filled - 1
      PROVE  LET p == (o - c.prev_start) + b.prev_start
             IN /\ p \in b.prev_start .. b.filled - 1
                /\ c.data_stream[o + 1] = b.data_stream[p + 1]
                /\ p - b.current_start = o - c.current_start
  <2> DEFINE p == (o - c.prev_start) + b.prev_start
  <2>1. p \in b.prev_start .. b.filled - 1 /\ p - b.current_start = o - c.current_start
    BY <1>1, <1>2, <1>3
  <2>2. (p - b.prev_start) + c.prev_start + 1 = o + 1
    BY <1>1
  <2>3. c.data_stream[(p - b.prev_start) + c.prev_start + 1] = b.data_stream[p + 1]
    BY <2>1 DEF SameWindow
  <2> QED BY <2>1, <2>2, <2>3
<1>5. ASSUME NEW o \in c.current_start .. c.filled - 1
      PROVE  c.data_stream[o + 1] = Raw(base + (o - c.current_start))
  <2> DEFINE p == (o - c.prev_start) + b.prev_start
  <2>1. o \in c.prev_start .. c.filled - 1
    BY <1>1, <1>3
  <2>2. /\ c.data_stream[o + 1] = b.data_stream[p + 1]
        /\ p - b.current_start = o - c.current_start
    BY <1>4, <2>1
  <2>3. p \in b.current_start .. b.filled - 1
    BY <1>1, <1>2, <1>3
  <2>4. b.data_stream[p + 1] = Raw(base + (p - b.current_start))
    BY <2>3 DEF RawsFrom
  <2> QED BY <2>2, <2>4
<1>6. ASSUME NEW o \in c.prev_start .. c.current_start - 1
      PROVE  c.data_stream[o + 1] = Cooked(base + (o - c.current_start))
  <2> DEFINE p == (o - c.prev_start) + b.prev_start
  <2>1. o \in c.prev_start .. c.filled - 1
    BY <1>1, <1>3
  <2>2. /\ c.data_stream[o + 1] = b.data_stream[p + 1]
        /\ p - b.current_start = o - c.current_start
    BY <1>4, <2>1
  <2>3. p \in b.prev_start .. b.current_start - 1
    BY <1>1, <1>2, <1>3
  <2>4. b.data_stream[p + 1] = Cooked(base + (p - b.current_start))
    BY <2>3 DEF CookedUpTo
  <2> QED BY <2>2, <2>4
<1> QED BY <1>5, <1>6 DEF RawsFrom, CookedUpTo

LEMMA RefillKeepsBytes ==
  ASSUME NEW b \in BufType, Ordered(b), NEW n \in Nat, NEW available \in Nat,
         n <= Len(b.data_stream) - b.filled, n <= b.remaining_bytes,
         b.available <= available, available <= b.filled + n,
         inflater.out \in Nat, NEW base \in Nat,
         inflater.out = base + (b.filled - b.current_start),
         RawsFrom(b, base), CookedUpTo(b, base)
  PROVE  LET c == Refill(b, n, available)
         IN /\ c \in BufType /\ Ordered(c)
            /\ RawsFrom(c, base) /\ CookedUpTo(c, base)
            /\ c.prev_start = b.prev_start
            /\ c.current_start = b.current_start
            /\ c.filled = b.filled + n
            /\ c.remaining_bytes = b.remaining_bytes - n
            /\ c.available = IF c.remaining_bytes = 0 THEN c.filled ELSE available
<1> DEFINE s == b.data_stream
           prev == b.prev_start
           cur == b.current_start
           filled == b.filled
           avail == b.available
           rest == b.remaining_bytes
           out == inflater.out
           t == Inflate(s, filled, n, out)
           c == Refill(b, n, available)
<1>1. /\ s \in Seq(Int) /\ Len(s) \in Nat /\ prev \in Nat /\ cur \in Nat
      /\ filled \in Nat /\ avail \in Nat /\ rest \in Nat /\ out \in Nat
  BY BufFields
<1>2. /\ prev <= cur /\ cur <= avail /\ avail <= filled
      /\ n <= Len(s) - filled /\ n <= rest
      /\ avail <= available /\ available <= filled + n
      /\ out = base + (filled - cur)
  BY DEF Ordered
<1>3. c = [b EXCEPT !.data_stream = t,
                    !.filled = @ + n,
                    !.remaining_bytes = @ - n,
                    !.available = IF rest = n THEN filled + n ELSE available]
  BY DEF Refill
<1>4. /\ \A o \in cur .. filled - 1 : s[o + 1] = Raw(base + (o - cur))
      /\ \A o \in prev .. cur - 1 : s[o + 1] = Cooked(base + (o - cur))
  BY DEF RawsFrom, CookedUpTo
<1> HIDE DEF c, t
<1>5. /\ c.data_stream = t
      /\ c.prev_start = prev
      /\ c.current_start = cur
      /\ c.filled = filled + n
      /\ c.remaining_bytes = rest - n
      /\ c.available = IF rest = n THEN filled + n ELSE available
      /\ (t \in Seq(Int) /\ filled + n \in Nat /\ rest - n \in Nat => c \in BufType)
  BY <1>3 DEF BufType
<1> HIDE DEF s, prev, cur, filled, avail, rest, out
<1>6. t \in Seq(Int)
  BY ONLY <1>1, n \in Nat, InflateIsSeq DEF t
<1>7. Len(t) = Len(s)
  BY ONLY <1>1, n \in Nat, InflateIsSeq DEF t
<1>8. \A i \in 1 .. Len(s) : i <= filled => t[i] = s[i]
  BY ONLY <1>1, n \in Nat, InflateBytes DEF t
<1>9. \A i \in 1 .. Len(s) : filled < i /\ i <= filled + n =>
        t[i] = Raw(out + (i - 1 - filled))
  BY ONLY <1>1, n \in Nat, InflateBytes DEF t
<1>10. c \in BufType
  BY ONLY <1>1, <1>2, <1>5, <1>6, n \in Nat
<1>11. c.available = IF c.remaining_bytes = 0 THEN c.filled ELSE available
  BY ONLY <1>1, <1>5, n \in Nat
<1>12. Ordered(c)
  BY ONLY <1>1, <1>2, <1>5, <1>7, n \in Nat, available \in Nat DEF Ordered
<1>13. ASSUME NEW o \in cur .. filled + n - 1
       PROVE  t[o + 1] = Raw(base + (o - cur))
  <2>1. o \in Nat /\ o + 1 \in 1 .. Len(s)
    BY ONLY <1>1, <1>2, n \in Nat, o \in cur .. filled + n - 1
  <2>2. CASE o < filled
    <3>1. o \in cur .. filled - 1 /\ o + 1 <= filled
      BY ONLY <1>1, <2>1, <2>2, o \in cur .. filled + n - 1
    <3>2. t[o + 1] = s[o + 1]
      BY ONLY <1>8, <2>1, <3>1
    <3> QED BY ONLY <1>4, <3>1, <3>2
  <2>3. CASE o >= filled
    <3>1. filled < o + 1 /\ o + 1 <= filled + n
      BY ONLY <1>1, <2>1, <2>3, n \in Nat, o \in cur .. filled + n - 1
    <3>2. t[o + 1] = Raw(out + ((o + 1) - 1 - filled))
      BY ONLY <1>9, <2>1, <3>1
    <3>3. out + ((o + 1) - 1 - filled) = base + (o - cur)
      BY ONLY <1>1, <1>2, <2>1, base \in Nat
    <3> QED BY ONLY <3>2, <3>3
  <2> QED BY ONLY <1>1, <2>1, <2>2, <2>3
<1>14. ASSUME NEW o \in prev .. cur - 1
       PROVE  t[o + 1] = Cooked(base + (o - cur))
  <2>1. o + 1 \in 1 .. Len(s) /\ o + 1 <= filled
    BY ONLY <1>1, <1>2, n \in Nat, o \in prev .. cur - 1
  <2>2. t[o + 1] = s[o + 1]
    BY ONLY <1>8, <2>1
  <2> QED BY ONLY <1>4, <2>2, o \in prev .. cur - 1
<1>15. RawsFrom(c, base)
  <2>1. ASSUME NEW o \in c.current_start .. c.filled - 1
        PROVE  c.data_stream[o + 1] = Raw(base + (o - c.current_start))
    <3>1. c.data_stream = t /\ c.current_start = cur /\ c.filled = filled + n
      BY ONLY <1>5
    <3>2. o \in cur .. filled + n - 1
      BY ONLY <1>1, <3>1, n \in Nat, o \in c.current_start .. c.filled - 1
    <3>3. t[o + 1] = Raw(base + (o - cur))
      BY ONLY <3>2, <1>13
    <3> QED BY ONLY <3>1, <3>3
  <2> QED BY ONLY <2>1 DEF RawsFrom
<1>16. CookedUpTo(c, base)
  BY ONLY <1>5, <1>14 DEF CookedUpTo
<1> QED BY <1>5, <1>10, <1>11, <1>12, <1>15, <1>16 DEF c, prev, cur, filled, rest

-----------------------------------------------------------------------------
(* The inductive invariant.                                                *)

LEMMA FrameFacts ==
  ASSUME NEW f \in Frames, NEW r \in 1 .. f.rows
  PROVE  /\ f.rows \in Nat /\ f.frame_bytes \in Nat
         /\ f.offset[r] \in Nat /\ f.offset[r + 1] \in Nat
         /\ f.offset[r + 1] >= f.offset[r] + 2
         /\ f.offset[r + 1] <= f.frame_bytes
         /\ RowLen(f, r) = f.offset[r + 1] - f.offset[r]
         /\ RowLen(f, r) \in Nat /\ RowLen(f, r) >= 2
         /\ ~ f.first[r] => r > 1 /\ RowLen(f, r) = RowLen(f, r - 1)
<1>1. /\ f.rows \in Nat /\ f.frame_bytes \in Nat
      /\ f.offset \in [1 .. f.rows + 1 -> Nat]
      /\ f.offset[r + 1] >= f.offset[r] + 2
      /\ f.offset[r + 1] <= f.frame_bytes
      /\ ~ f.first[r] => r > 1 /\ RowLen(f, r) = RowLen(f, r - 1)
  BY FramesAssumption
<1>2. r \in 1 .. f.rows + 1 /\ r + 1 \in 1 .. f.rows + 1
  BY <1>1
<1>3. f.offset[r] \in Nat /\ f.offset[r + 1] \in Nat
  BY <1>1, <1>2
<1>4. RowLen(f, r) = f.offset[r + 1] - f.offset[r]
  BY DEF RowLen
<1> QED BY <1>1, <1>3, <1>4

\* The rows above and below the current position, whether or not a call is running.
AboveCurrentRow ==
  transformable /\ row <= frame.rows =>
    IF frame.first[row]
    THEN reading \/ row = 1 => buf.prev_start = buf.current_start
    ELSE buf.current_start - buf.prev_start = RowLen(frame, row) - 1

IInv ==
  /\ TypeOK
  /\ MarkersOrdered
  /\ BytesAccounted
  /\ LookbackKept
  /\ buf.remaining_bytes = 0 => buf.available = buf.filled
  /\ inflater.out <= inflater.size
  /\ reading => row <= frame.rows
  /\ ~ transformable => row = 1
  /\ RawsFrom(buf, taken)
  /\ CookedUpTo(buf, taken)
  /\ AboveCurrentRow

\* What TypeOK says in the form the provers use.
LEMMA StateFacts ==
  ASSUME TypeOK
  PROVE  /\ buf \in BufType
         /\ buf.data_stream \in Seq(Int) /\ Len(buf.data_stream) \in Nat
         /\ buf.prev_start \in Nat /\ buf.current_start \in Nat
         /\ buf.filled \in Nat /\ buf.available \in Nat /\ buf.remaining_bytes \in Nat
         /\ inflater \in InflaterType /\ inflater.out \in Nat /\ inflater.size \in Nat
         /\ inflater.started \in BOOLEAN /\ inflater.done \in BOOLEAN
         /\ inflater.ends \in BOOLEAN /\ inflater.drained \in BOOLEAN
         /\ frame \in Frames /\ frame.rows \in Nat /\ frame.frame_bytes \in Nat
         /\ row \in Nat /\ 1 <= row /\ row <= frame.rows + 1
         /\ frame.offset[row] \in Nat /\ transformable \in BOOLEAN
<1>1. buf \in BufType /\ inflater \in InflaterType /\ frame \in Frames
  BY DEF TypeOK
<1>2. /\ frame.rows \in Nat /\ frame.frame_bytes \in Nat
      /\ frame.offset \in [1 .. frame.rows + 1 -> Nat]
  BY <1>1, FramesAssumption
<1>3. row \in 1 .. frame.rows + 1 /\ transformable \in BOOLEAN
  BY DEF TypeOK
<1>4. row \in Nat /\ 1 <= row /\ row <= frame.rows + 1 /\ frame.offset[row] \in Nat
  BY <1>2, <1>3
<1>5. /\ inflater.out \in Nat /\ inflater.size \in Nat
      /\ inflater.started \in BOOLEAN /\ inflater.done \in BOOLEAN
      /\ inflater.ends \in BOOLEAN /\ inflater.drained \in BOOLEAN
  BY <1>1 DEF InflaterType
<1>6. /\ buf.data_stream \in Seq(Int) /\ Len(buf.data_stream) \in Nat
      /\ buf.prev_start \in Nat /\ buf.current_start \in Nat
      /\ buf.filled \in Nat /\ buf.available \in Nat /\ buf.remaining_bytes \in Nat
  BY <1>1, BufFields
<1> QED BY <1>1, <1>2, <1>3, <1>4, <1>5, <1>6

\* The accounting in the form the provers use.
LEMMA TakenFacts ==
  ASSUME TypeOK, BytesAccounted
  PROVE  /\ taken \in Nat
         /\ inflater.out = taken + (buf.filled - buf.current_start)
         /\ taken + (buf.filled - buf.current_start) + buf.remaining_bytes
              = frame.frame_bytes
<1>1. /\ inflater.out \in Nat /\ buf.filled \in Nat /\ buf.current_start \in Nat
      /\ buf.remaining_bytes \in Nat
  BY StateFacts
<1>2. /\ inflater.out + buf.remaining_bytes = frame.frame_bytes
      /\ taken >= 0
      /\ taken = inflater.out - (buf.filled - buf.current_start)
  BY DEF BytesAccounted, taken
<1> QED BY ONLY <1>1, <1>2

\* What Init and StartFrame establish.
FrameBegins ==
  \E f \in Frames, size \in StreamSizes, ends \in BOOLEAN :
    /\ buf = EmptyBuffer(f.frame_bytes)
    /\ inflater = [started |-> FALSE, done |-> FALSE, out |-> 0,
                   size |-> size, ends |-> ends, drained |-> FALSE]
    /\ frame = f
    /\ row = 1
    /\ transformable \in BOOLEAN
    /\ reading = FALSE
    /\ consumed_and_flushed = FALSE
    /\ error \in Errors

\* A fresh frame satisfies the invariant.
LEMMA FreshFrame == FrameBegins => IInv
<1> SUFFICES ASSUME
      NEW f \in Frames, NEW size \in StreamSizes, NEW ends \in BOOLEAN,
      buf = EmptyBuffer(f.frame_bytes),
      inflater = [started |-> FALSE, done |-> FALSE, out |-> 0,
                  size |-> size, ends |-> ends, drained |-> FALSE],
      frame = f, row = 1, transformable \in BOOLEAN, reading = FALSE,
      consumed_and_flushed = FALSE, error \in Errors
    PROVE IInv
  BY DEF FrameBegins
<1>1. /\ f.rows \in Nat /\ f.frame_bytes \in Nat /\ f.offset[1] = 0
  BY FramesAssumption
<1>2. size \in Nat
  BY SizesAssumption
<1>3. /\ buf.data_stream = << >> /\ buf.prev_start = 0 /\ buf.current_start = 0
      /\ buf.filled = 0 /\ buf.available = 0 /\ buf.remaining_bytes = f.frame_bytes
  BY DEF EmptyBuffer
<1>4. << >> \in Seq(Int) /\ Len(<< >>) = 0
  BY EmptySeq
<1>5. buf \in BufType
  BY <1>1, <1>4 DEF EmptyBuffer, BufType
<1>6. inflater \in InflaterType /\ inflater.out = 0 /\ inflater.size = size
  BY <1>2 DEF InflaterType
<1>7. TypeOK
  <2>1. row \in 1 .. frame.rows + 1
    BY ONLY <1>1, frame = f, row = 1
  <2>2. reading \in BOOLEAN /\ consumed_and_flushed \in BOOLEAN /\ frame \in Frames
    OBVIOUS
  <2> QED BY <1>5, <1>6, <2>1, <2>2 DEF TypeOK
<1>8. MarkersOrdered /\ BytesAccounted /\ LookbackKept
  BY <1>1, <1>3, <1>4, <1>6 DEF MarkersOrdered, BytesAccounted, LookbackKept, taken
<1>9. RawsFrom(buf, taken) /\ CookedUpTo(buf, taken)
  BY <1>3 DEF RawsFrom, CookedUpTo
<1>10. AboveCurrentRow
  <2>1. 1 <= f.rows => f.first[1]
    BY <1>1, FrameFacts, FramesAssumption
  <2> QED BY <1>3, <2>1 DEF AboveCurrentRow
<1> QED BY <1>2, <1>3, <1>6, <1>7, <1>8, <1>9, <1>10 DEF IInv

-----------------------------------------------------------------------------
(* Every step preserves it.                                                *)

\* The look-back distance is kept by whatever with_unfilled_buffer's closure does to
\* available while the stream is not at its end.
LEMMA LookbackArithmetic ==
  ASSUME NEW filled \in Nat, NEW available \in Nat, NEW n \in Nat, NEW out \in Nat,
         NEW moved \in Nat, available <= filled,
         filled - available >= LOOKBACK_SIZE \/ filled - available >= out,
         moved = available \/ moved = BeyondLookback(available, filled + n)
  PROVE  \/ (filled + n) - moved >= LOOKBACK_SIZE
         \/ (filled + n) - moved >= out + n
<1>1. LOOKBACK_SIZE \in Nat
  BY SizesAssumption
<1> QED BY <1>1 DEF BeyondLookback

LEMMA RefillStep ==
  ASSUME IInv, NEW n \in Nat, NEW available \in Nat,
         n <= Len(Unfilled.data_stream) - Unfilled.filled,
         Unfilled.available <= available, available <= Unfilled.filled + n,
         buf' = Refill(Unfilled, n, available),
         inflater' \in InflaterType,
         inflater'.out = inflater.out + n, inflater'.out <= inflater'.size,
         ~ inflater'.done =>
           /\ ~ inflater.done
           /\ \/ available = Unfilled.available
              \/ available = BeyondLookback(Unfilled.available, Unfilled.filled + n),
         reading' \in BOOLEAN, reading' => reading,
         consumed_and_flushed' \in BOOLEAN, error' \in Errors,
         UNCHANGED << frame, row, transformable >>
  PROVE  IInv'
<1> DEFINE u == Unfilled
           base == taken
<1>1. /\ TypeOK /\ MarkersOrdered /\ BytesAccounted /\ LookbackKept
      /\ reading => row <= frame.rows
      /\ RawsFrom(buf, base) /\ CookedUpTo(buf, base)
      /\ AboveCurrentRow
      /\ ~ transformable => row = 1
  BY DEF IInv
<1>2. /\ buf \in BufType /\ base \in Nat
      /\ buf.prev_start \in Nat /\ buf.current_start \in Nat
      /\ buf.filled \in Nat /\ buf.available \in Nat /\ buf.remaining_bytes \in Nat
      /\ inflater.out \in Nat /\ frame.frame_bytes \in Nat
  BY <1>1, StateFacts, TakenFacts
<1>3. /\ u \in BufType /\ Ordered(u) /\ SameWindow(buf, u)
      /\ Len(u.data_stream) - u.filled <= u.remaining_bytes
  BY <1>1, <1>2, UnfilledIsReady
<1>4. /\ u.prev_start \in Nat /\ u.current_start \in Nat /\ u.filled \in Nat
      /\ u.available \in Nat /\ u.remaining_bytes \in Nat /\ Len(u.data_stream) \in Nat
  BY <1>3, BufFields
<1>5. /\ u.current_start - u.prev_start = buf.current_start - buf.prev_start
      /\ u.available - u.current_start = buf.available - buf.current_start
      /\ u.filled - u.current_start = buf.filled - buf.current_start
      /\ u.remaining_bytes = buf.remaining_bytes
  BY <1>3 DEF SameWindow, SameExtent
<1>6. RawsFrom(u, base) /\ CookedUpTo(u, base)
  BY <1>1, <1>2, <1>3, WindowKeepsBytes DEF MarkersOrdered, Ordered
<1>7. /\ base + (buf.filled - buf.current_start) + buf.remaining_bytes = frame.frame_bytes
      /\ inflater.out = base + (buf.filled - buf.current_start)
  BY <1>1, TakenFacts
<1>8. inflater.out = base + (u.filled - u.current_start)
  BY ONLY <1>2, <1>4, <1>5, <1>7
<1>9. n <= u.remaining_bytes
  BY ONLY <1>3, <1>4, n \in Nat, n <= Len(Unfilled.data_stream) - Unfilled.filled DEF u
<1> HIDE DEF u
<1>10. /\ buf' \in BufType /\ Ordered(buf')
       /\ RawsFrom(buf', base) /\ CookedUpTo(buf', base)
       /\ buf'.prev_start = u.prev_start
       /\ buf'.current_start = u.current_start
       /\ buf'.filled = u.filled + n
       /\ buf'.remaining_bytes = u.remaining_bytes - n
       /\ buf'.available = IF buf'.remaining_bytes = 0 THEN buf'.filled ELSE available
  <2>1. /\ n <= Len(u.data_stream) - u.filled
        /\ u.available <= available /\ available <= u.filled + n
        /\ buf' = Refill(u, n, available)
    BY DEF u
  <2> HIDE DEF base
  <2> QED BY ONLY <1>2, <1>3, <1>6, <1>8, <1>9, <2>1, n \in Nat, available \in Nat,
             RefillKeepsBytes
<1>11. TypeOK'
  BY <1>1, <1>10 DEF TypeOK
<1>12. MarkersOrdered'
  BY <1>10 DEF MarkersOrdered, Ordered
<1>13. BytesAccounted' /\ base' = base
  <2> HIDE DEF base
  <2>a. /\ buf'.filled = u.filled + n
        /\ buf'.current_start = u.current_start
        /\ buf'.remaining_bytes = u.remaining_bytes - n
    BY ONLY <1>10
  <2>b. /\ u.current_start \in Nat /\ u.filled \in Nat /\ u.remaining_bytes \in Nat
        /\ base \in Nat
    BY ONLY <1>2, <1>4
  <2>c. base + (u.filled - u.current_start) + u.remaining_bytes = frame.frame_bytes
    BY ONLY <1>5, <1>7
  <2>1. base + (buf'.filled - buf'.current_start) + buf'.remaining_bytes = frame.frame_bytes
    <3>1. base + (buf'.filled - buf'.current_start) + buf'.remaining_bytes
            = base + ((u.filled + n) - u.current_start) + (u.remaining_bytes - n)
      BY ONLY <2>a
    <3>2. base + ((u.filled + n) - u.current_start) + (u.remaining_bytes - n)
            = base + (u.filled - u.current_start) + u.remaining_bytes
      BY ONLY <2>b, n \in Nat
    <3> QED BY ONLY <3>1, <3>2, <2>c
  <2>2. inflater.out + n = base + (buf'.filled - buf'.current_start)
    <3>1. base + (buf'.filled - buf'.current_start) = base + ((u.filled + n) - u.current_start)
      BY ONLY <2>a
    <3>2. base + ((u.filled + n) - u.current_start) = (base + (u.filled - u.current_start)) + n
      BY ONLY <2>b, n \in Nat
    <3> QED BY ONLY <3>1, <3>2, <1>8
  <2>3. frame' = frame /\ inflater'.out = inflater.out + n
    OBVIOUS
  <2>4. inflater'.out + buf'.remaining_bytes = frame'.frame_bytes
    BY ONLY <2>1, <2>2, <2>3
  <2>5. base' = base
    <3>1. base' = inflater'.out - (buf'.filled - buf'.current_start)
      BY DEF base, taken
    <3>2. inflater'.out = base + ((u.filled + n) - u.current_start)
      BY ONLY <2>a, <2>2, <2>3
    <3>3. base' = (base + ((u.filled + n) - u.current_start))
                    - ((u.filled + n) - u.current_start)
      BY ONLY <3>1, <3>2, <2>a
    <3> QED BY ONLY <2>b, <3>3, n \in Nat
  <2>6. transformable => base = frame.offset[row]
    BY <1>1 DEF BytesAccounted, base
  <2>7. /\ base' >= 0
        /\ transformable' => base' = frame'.offset[row']
    BY ONLY <2>b, <2>5, <2>6, UNCHANGED << frame, row, transformable >>
  <2>8. BytesAccounted'
    BY ONLY <2>4, <2>7 DEF BytesAccounted, base
  <2> QED BY ONLY <2>5, <2>8
<1>14. LookbackKept'
  <2> SUFFICES ASSUME ~ inflater'.done, buf'.remaining_bytes > 0
               PROVE  \/ buf'.filled - buf'.available >= LOOKBACK_SIZE
                      \/ buf'.filled - buf'.available >= inflater'.out
    BY DEF LookbackKept
  <2>1. /\ ~ inflater.done
        /\ \/ available = u.available
           \/ available = BeyondLookback(u.available, u.filled + n)
    BY DEF u
  <2>2. buf.remaining_bytes > 0
    BY ONLY <1>2, <1>4, <1>5, <1>10, n \in Nat, buf'.remaining_bytes > 0
  <2>3. \/ u.filled - u.available >= LOOKBACK_SIZE
        \/ u.filled - u.available >= inflater.out
    <3>1. \/ buf.filled - buf.available >= LOOKBACK_SIZE
          \/ buf.filled - buf.available >= inflater.out
      BY <1>1, <2>1, <2>2 DEF LookbackKept
    <3>a. /\ u.available - u.current_start = buf.available - buf.current_start
          /\ u.filled - u.current_start = buf.filled - buf.current_start
      BY ONLY <1>5
    <3>b. /\ u.available \in Nat /\ u.filled \in Nat /\ u.current_start \in Nat
          /\ buf.available \in Nat /\ buf.filled \in Nat /\ buf.current_start \in Nat
      BY ONLY <1>2, <1>4
    <3>2. u.filled - u.available = buf.filled - buf.available
      BY ONLY <3>a, <3>b
    <3> QED BY ONLY <3>1, <3>2
  <2>4. u.available <= u.filled
    BY <1>3 DEF Ordered
  <2>5. \/ (u.filled + n) - available >= LOOKBACK_SIZE
        \/ (u.filled + n) - available >= inflater.out + n
    BY ONLY <1>2, <1>4, <2>1, <2>3, <2>4, n \in Nat, available \in Nat, LookbackArithmetic
  <2>6. buf'.filled = u.filled + n /\ buf'.available = available
    BY ONLY <1>10, buf'.remaining_bytes > 0, <1>4, n \in Nat
  <2> QED BY <2>5, <2>6
<1>15. buf'.remaining_bytes = 0 => buf'.available = buf'.filled
  BY <1>10
<1>16. AboveCurrentRow'
  <2>1. buf'.current_start - buf'.prev_start = buf.current_start - buf.prev_start
    BY ONLY <1>5, <1>10
  <2>2. buf.prev_start = buf.current_start => buf'.prev_start = buf'.current_start
    BY ONLY <1>2, <1>4, <1>5, <1>10
  <2> QED BY <1>1, <2>1, <2>2 DEF AboveCurrentRow
<1>17. RawsFrom(buf', base') /\ CookedUpTo(buf', base')
  BY <1>10, <1>13
<1> QED BY <1>1, <1>10, <1>11, <1>12, <1>13, <1>14, <1>15, <1>16, <1>17 DEF IInv

LEMMA BeyondLookbackBounds ==
  ASSUME NEW filled \in Nat, NEW available \in Nat, available <= filled
  PROVE  /\ BeyondLookback(available, filled) \in Nat
         /\ available <= BeyondLookback(available, filled)
         /\ BeyondLookback(available, filled) <= filled
BY SizesAssumption DEF BeyondLookback

LEMMA UnfilledFacts ==
  ASSUME TypeOK, MarkersOrdered
  PROVE  /\ Unfilled.filled \in Nat /\ Unfilled.available \in Nat
         /\ Len(Unfilled.data_stream) \in Nat
         /\ Unfilled.available <= Unfilled.filled
         /\ Unfilled.filled <= Len(Unfilled.data_stream)
<1>1. buf \in BufType
  BY StateFacts
<1>2. Unfilled \in BufType /\ Ordered(Unfilled)
  BY <1>1, UnfilledIsReady
<1> QED BY <1>2, BufFields DEF Ordered

\* One field of the inflater is assigned.
LEMMA InflaterAssign ==
  ASSUME NEW i \in InflaterType
  PROVE  /\ \A b \in BOOLEAN :
              /\ [i EXCEPT !.started = b] \in InflaterType
              /\ [i EXCEPT !.started = b].out = i.out
              /\ [i EXCEPT !.started = b].size = i.size
         /\ \A b \in BOOLEAN :
              /\ [i EXCEPT !.done = b] \in InflaterType
              /\ [i EXCEPT !.done = b].out = i.out
              /\ [i EXCEPT !.done = b].size = i.size
              /\ [i EXCEPT !.done = b].done = b
         /\ \A b \in BOOLEAN :
              /\ [i EXCEPT !.drained = b] \in InflaterType
              /\ [i EXCEPT !.drained = b].out = i.out
              /\ [i EXCEPT !.drained = b].size = i.size
              /\ [i EXCEPT !.drained = b].done = i.done
         /\ \A m \in Nat :
              /\ [i EXCEPT !.out = m] \in InflaterType
              /\ [i EXCEPT !.out = m].out = m
              /\ [i EXCEPT !.out = m].size = i.size
              /\ [i EXCEPT !.out = m].done = i.done
BY DEF InflaterType

LEMMA DecompressStep ==
  ASSUME IInv, Decompress
  PROVE  IInv'
<1> DEFINE u == Unfilled
           limit == IF u.filled + GROWTH_BYTES <= Len(u.data_stream)
                    THEN u.filled + GROWTH_BYTES ELSE Len(u.data_stream)
<1>1. TypeOK /\ MarkersOrdered /\ inflater.out <= inflater.size
  BY DEF IInv
<1>2. PICK n \in 0 .. limit - u.filled, done \in BOOLEAN :
        /\ inflater.done => n = 0 /\ done
        /\ inflater.out + n <= inflater.size
        /\ inflater' = [inflater EXCEPT !.started = TRUE, !.done = done, !.out = @ + n]
        /\ buf' = Refill(u, n,
                    IF inflater.done THEN u.available
                    ELSE IF done THEN u.filled + n
                    ELSE BeyondLookback(u.available, u.filled + n))
  BY DEF Decompress
<1> DEFINE available == IF inflater.done THEN u.available
                        ELSE IF done THEN u.filled + n
                        ELSE BeyondLookback(u.available, u.filled + n)
<1>3. /\ u.filled \in Nat /\ u.available \in Nat /\ Len(u.data_stream) \in Nat
      /\ u.available <= u.filled /\ u.filled <= Len(u.data_stream)
  BY <1>1, UnfilledFacts
<1>4. buf' = Refill(u, n, available)
  BY <1>2
<1>5. /\ inflater \in InflaterType /\ inflater.out \in Nat /\ inflater.size \in Nat
      /\ inflater.done \in BOOLEAN
  BY <1>1, StateFacts
<1> HIDE DEF u
<1>6. n \in Nat /\ n <= Len(u.data_stream) - u.filled
  BY <1>3, SizesAssumption
<1>7. /\ available \in Nat /\ u.available <= available /\ available <= u.filled + n
  <2>1. u.filled + n \in Nat /\ u.available <= u.filled + n
    BY <1>3, <1>6
  <2>2. /\ BeyondLookback(u.available, u.filled + n) \in Nat
        /\ u.available <= BeyondLookback(u.available, u.filled + n)
        /\ BeyondLookback(u.available, u.filled + n) <= u.filled + n
    BY <1>3, <2>1, BeyondLookbackBounds
  <2> QED BY <1>3, <2>1, <2>2
<1>8. /\ inflater' \in InflaterType
      /\ inflater'.out = inflater.out + n
      /\ inflater'.size = inflater.size
      /\ inflater'.done = done
  <2> DEFINE a == [inflater EXCEPT !.started = TRUE]
             b == [a EXCEPT !.done = done]
             c == [b EXCEPT !.out = inflater.out + n]
  <2>1. inflater' = c
    BY <1>2
  <2>2. inflater.out + n \in Nat
    BY <1>5, <1>6
  <2>3. a \in InflaterType /\ a.size = inflater.size
    BY <1>5, InflaterAssign
  <2> HIDE DEF a
  <2>4. b \in InflaterType /\ b.size = inflater.size /\ b.done = done
    BY <2>3, InflaterAssign
  <2> HIDE DEF b
  <2>5. /\ c \in InflaterType /\ c.out = inflater.out + n
        /\ c.size = inflater.size /\ c.done = done
    BY <2>2, <2>4, InflaterAssign
  <2> HIDE DEF c
  <2> QED BY ONLY <2>1, <2>5
<1>9. ~ inflater'.done =>
        /\ ~ inflater.done
        /\ \/ available = u.available
           \/ available = BeyondLookback(u.available, u.filled + n)
  BY <1>2, <1>8
<1>10. /\ reading' = reading /\ consumed_and_flushed' = consumed_and_flushed
       /\ error' = error /\ frame' = frame /\ row' = row
       /\ transformable' = transformable
  BY DEF Decompress
<1>11. /\ reading' \in BOOLEAN /\ consumed_and_flushed' \in BOOLEAN /\ error' \in Errors
  BY <1>1, <1>10 DEF TypeOK
<1>12. inflater'.out <= inflater'.size
  BY <1>2, <1>8
<1> HIDE DEF available
<1> QED BY <1>4, <1>6, <1>7, <1>8, <1>9, <1>10, <1>11, <1>12, RefillStep DEF u

LEMMA FinishStep ==
  ASSUME IInv, Finish
  PROVE  IInv'
<1> DEFINE u == Unfilled
           room == Len(u.data_stream) - u.filled
           left == inflater.size - inflater.out
           n == IF ~ inflater.started \/ inflater.done \/ room = 0 THEN 0
                ELSE IF left < room THEN left ELSE room
<1>1. TypeOK /\ MarkersOrdered /\ inflater.out <= inflater.size /\ reading
  BY DEF IInv, Finish, Polls, NeedsData
<1>2. PICK done \in BOOLEAN : Drain(u, done)
  BY DEF Finish
<1> DEFINE ok == ~ inflater.started \/ inflater.done \/ room = 0 \/ done
           available == IF ~ inflater.done /\ done THEN u.filled + n
                        ELSE IF ~ ok /\ n = room
                        THEN BeyondLookback(u.available, u.filled + n)
                        ELSE u.available
<1>3. /\ u.filled \in Nat /\ u.available \in Nat /\ Len(u.data_stream) \in Nat
      /\ u.available <= u.filled /\ u.filled <= Len(u.data_stream)
  BY <1>1, UnfilledFacts
<1>4. /\ buf' = Refill(u, n, available)
      /\ inflater' = [inflater EXCEPT !.done = done, !.out = @ + n, !.drained = TRUE]
      /\ inflater.done => done
      /\ consumed_and_flushed' = ok
      /\ error' = Verdict(ok, n = room)
      /\ reading' = (error' = "none")
  BY <1>2, Zenon DEF Drain
<1>5. /\ inflater \in InflaterType /\ inflater.out \in Nat /\ inflater.size \in Nat
      /\ inflater.done \in BOOLEAN
  BY <1>1, StateFacts
<1>6. /\ reading' \in BOOLEAN /\ consumed_and_flushed' \in BOOLEAN /\ error' \in Errors
  BY <1>4 DEF Errors, Verdict
<1> HIDE DEF u
<1>7. n \in Nat /\ n <= Len(u.data_stream) - u.filled /\ inflater.out + n <= inflater.size
  BY <1>1, <1>3, <1>5
<1> HIDE DEF n
<1>8. /\ available \in Nat /\ u.available <= available /\ available <= u.filled + n
  <2>1. u.filled + n \in Nat /\ u.available <= u.filled + n
    BY <1>3, <1>7
  <2>2. /\ BeyondLookback(u.available, u.filled + n) \in Nat
        /\ u.available <= BeyondLookback(u.available, u.filled + n)
        /\ BeyondLookback(u.available, u.filled + n) <= u.filled + n
    BY <1>3, <2>1, BeyondLookbackBounds
  <2> QED BY <1>3, <2>1, <2>2
<1>9. /\ inflater' \in InflaterType
      /\ inflater'.out = inflater.out + n
      /\ inflater'.size = inflater.size
      /\ inflater'.done = done
  <2> DEFINE a == [inflater EXCEPT !.done = done]
             b == [a EXCEPT !.out = inflater.out + n]
             c == [b EXCEPT !.drained = TRUE]
  <2>1. inflater' = c
    BY <1>4
  <2>2. inflater.out + n \in Nat
    BY <1>5, <1>7
  <2>3. a \in InflaterType /\ a.size = inflater.size /\ a.done = done
    BY <1>5, InflaterAssign
  <2> HIDE DEF a
  <2>4. /\ b \in InflaterType /\ b.out = inflater.out + n
        /\ b.size = inflater.size /\ b.done = done
    BY <2>2, <2>3, InflaterAssign
  <2> HIDE DEF b
  <2>5. /\ c \in InflaterType /\ c.out = inflater.out + n
        /\ c.size = inflater.size /\ c.done = done
    BY <2>4, InflaterAssign
  <2> HIDE DEF c
  <2> QED BY ONLY <2>1, <2>5
<1>10. ~ inflater'.done =>
        /\ ~ inflater.done
        /\ \/ available = u.available
           \/ available = BeyondLookback(u.available, u.filled + n)
  BY <1>4, <1>9
<1>11. frame' = frame /\ row' = row /\ transformable' = transformable
  BY DEF Finish
<1>12. inflater'.out <= inflater'.size
  BY <1>7, <1>9
<1> HIDE DEF available, room
<1> QED BY <1>1, <1>4, <1>6, <1>7, <1>8, <1>9, <1>10, <1>11, <1>12, RefillStep DEF u

LEMMA InterruptStep ==
  ASSUME IInv, Interrupt
  PROVE  IInv'
<1> DEFINE u == Unfilled
<1>1. TypeOK /\ MarkersOrdered /\ LookbackKept /\ inflater.out <= inflater.size
  BY DEF IInv
<1>2. /\ u.filled \in Nat /\ u.available \in Nat /\ Len(u.data_stream) \in Nat
      /\ u.available <= u.filled /\ u.filled <= Len(u.data_stream)
  BY <1>1, UnfilledFacts
<1>3. /\ inflater \in InflaterType /\ inflater.out \in Nat
  BY <1>1, StateFacts
<1>4. /\ buf' = Refill(u, 0, u.available)
      /\ reading' = FALSE /\ inflater' = inflater /\ frame' = frame /\ row' = row
      /\ transformable' = transformable
      /\ consumed_and_flushed' = consumed_and_flushed
      /\ error' \in IF error = "none" THEN {"none", "Corrupt"} ELSE {error}
  BY DEF Interrupt
<1>5. /\ reading' \in BOOLEAN /\ consumed_and_flushed' \in BOOLEAN /\ error' \in Errors
  BY <1>1, <1>4 DEF TypeOK, Errors
<1> HIDE DEF u
<1>6. /\ 0 \in Nat /\ 0 <= Len(u.data_stream) - u.filled
      /\ u.available <= u.available /\ u.available <= u.filled + 0
      /\ inflater'.out = inflater.out + 0 /\ inflater'.out <= inflater'.size
  BY <1>1, <1>2, <1>3, <1>4
<1>7. inflater' \in InflaterType
  BY <1>3, <1>4
<1>8. CASE inflater.done
  BY <1>2, <1>4, <1>5, <1>6, <1>7, <1>8, RefillStep DEF u
<1>9. CASE ~ inflater.done
  BY <1>2, <1>4, <1>5, <1>6, <1>7, <1>9, RefillStep DEF u
<1> QED BY <1>8, <1>9

LEMMA StartFrameStep ==
  ASSUME IInv, StartFrame
  PROVE  IInv'
<1>1. error \in Errors /\ reading = FALSE /\ transformable \in BOOLEAN
  BY DEF IInv, TypeOK, StartFrame
<1>2. FrameBegins'
  <2>1. PICK f \in Frames, size \in StreamSizes, ends \in BOOLEAN :
          /\ buf' = EmptyBuffer(f.frame_bytes)
          /\ inflater' = [started |-> FALSE, done |-> FALSE, out |-> 0,
                          size |-> size, ends |-> ends, drained |-> FALSE]
          /\ frame' = f
    BY DEF StartFrame
  <2>2. /\ row' = 1 /\ consumed_and_flushed' = FALSE
        /\ reading' = FALSE /\ error' \in Errors /\ transformable' \in BOOLEAN
    BY <1>1 DEF StartFrame
  <2> QED BY <2>1, <2>2 DEF FrameBegins
<1>3. (FrameBegins => IInv)'
  BY FreshFrame, PTL
<1> QED BY <1>2, <1>3

\* Steps that leave the window, the inflater and the position alone.
LEMMA ControlStep ==
  ASSUME IInv, UNCHANGED << buf, inflater, frame, row, transformable >>,
         reading' \in BOOLEAN, reading' => reading,
         consumed_and_flushed' \in BOOLEAN, error' \in Errors
  PROVE  IInv'
<1>1. TypeOK'
  BY DEF IInv, TypeOK
<1>2. MarkersOrdered' /\ BytesAccounted' /\ LookbackKept'
  BY DEF IInv, MarkersOrdered, BytesAccounted, LookbackKept, taken
<1>3. (RawsFrom(buf, taken) /\ CookedUpTo(buf, taken))'
  BY DEF IInv, RawsFrom, CookedUpTo, taken
<1>4. AboveCurrentRow'
  BY DEF IInv, AboveCurrentRow
<1> QED BY <1>1, <1>2, <1>3, <1>4 DEF IInv

LEMMA ControlSteps ==
  ASSUME IInv, AssertionFails \/ NoMoreImageData \/ UnknownFilterMethod \/ FinishDecoding
  PROVE  IInv'
<1>1. reading \in BOOLEAN /\ consumed_and_flushed \in BOOLEAN /\ error \in Errors
  BY DEF IInv, TypeOK
<1>2. CASE NoMoreImageData
  BY <1>1, <1>2, ControlStep DEF NoMoreImageData
<1>3. CASE UnknownFilterMethod
  BY <1>1, <1>3, ControlStep DEF UnknownFilterMethod
<1>4. CASE FinishDecoding
  BY <1>1, <1>4, ControlStep DEF FinishDecoding
<1>5. CASE AssertionFails
  BY <1>1, <1>5, ControlStep DEF AssertionFails, Errors
<1> QED BY <1>2, <1>3, <1>4, <1>5

\* What read_row does to the window: it forgets the row above, or nothing.  It may only
\* do nothing at the top of a pass if the pass is the whole image.
LEMMA ReadRowWindow ==
  ASSUME TypeOK, ReadRow
  PROVE  /\ buf' \in BufType
         /\ buf'.data_stream = buf.data_stream
         /\ buf'.current_start = buf.current_start
         /\ buf'.filled = buf.filled
         /\ buf'.available = buf.available
         /\ buf'.remaining_bytes = buf.remaining_bytes
         /\ \/ frame.first[row] /\ buf'.prev_start = buf.current_start
            \/ ~ frame.first[row] /\ buf' = buf
            \/ OnePass(frame) /\ row = 1 /\ buf' = buf
<1>1. buf \in BufType /\ row \in Nat /\ 1 <= row /\ frame.rows \in Nat
  BY StateFacts
<1>2. CASE frame.first[row] /\ buf' = [buf EXCEPT !.prev_start = buf.current_start]
  BY <1>1, <1>2 DEF BufType
<1>3. CASE (~ frame.first[row] \/ OnePass(frame)) /\ buf' = buf
  <2>1. frame.first[row] => OnePass(frame) /\ row = 1
    <3> SUFFICES ASSUME frame.first[row], row # 1 PROVE FALSE
      BY <1>3
    <3>1. row \in 2 .. frame.rows
      BY <1>1 DEF ReadRow
    <3> QED BY <1>3, <3>1 DEF OnePass
  <2> QED BY <1>1, <1>3, <2>1
<1> QED BY <1>2, <1>3 DEF ReadRow

LEMMA ReadRowStep ==
  ASSUME IInv, ReadRow
  PROVE  IInv'
<1> DEFINE base == taken
<1>1. /\ TypeOK /\ MarkersOrdered /\ BytesAccounted /\ LookbackKept
      /\ RawsFrom(buf, base) /\ CookedUpTo(buf, base) /\ AboveCurrentRow
      /\ buf.remaining_bytes = 0 => buf.available = buf.filled
      /\ inflater.out <= inflater.size
      /\ ~ transformable => row = 1
  BY DEF IInv
<1>2. /\ buf \in BufType /\ buf.prev_start \in Nat /\ buf.current_start \in Nat
      /\ buf.filled \in Nat
  BY <1>1, StateFacts
<1>3. /\ row <= frame.rows /\ reading' = TRUE
      /\ UNCHANGED << inflater, frame, row, transformable, consumed_and_flushed, error >>
  BY DEF ReadRow
<1>4. /\ buf' \in BufType
      /\ buf'.data_stream = buf.data_stream
      /\ buf'.current_start = buf.current_start
      /\ buf'.filled = buf.filled
      /\ buf'.available = buf.available
      /\ buf'.remaining_bytes = buf.remaining_bytes
      /\ \/ frame.first[row] /\ buf'.prev_start = buf.current_start
         \/ ~ frame.first[row] /\ buf' = buf
         \/ OnePass(frame) /\ row = 1 /\ buf' = buf
  BY <1>1, ReadRowWindow
<1>5. TypeOK'
  BY <1>1, <1>3, <1>4 DEF TypeOK
<1>6. MarkersOrdered'
  BY <1>1, <1>2, <1>4 DEF MarkersOrdered
<1>7. base' = base
  BY <1>3, <1>4 DEF taken
<1>8. BytesAccounted' /\ LookbackKept'
  BY <1>1, <1>3, <1>4, <1>7 DEF BytesAccounted, LookbackKept
<1> HIDE DEF base
<1>9. RawsFrom(buf', base')
  BY <1>1, <1>4, <1>7 DEF RawsFrom
<1>10. CookedUpTo(buf', base')
  <2>1. CASE buf'.prev_start = buf.current_start
    BY <1>2, <1>4, <2>1 DEF CookedUpTo
  <2>2. CASE buf' = buf
    BY <1>1, <1>7, <2>2
  <2> QED BY <1>4, <2>1, <2>2
<1>11. AboveCurrentRow'
  BY <1>1, <1>3, <1>4 DEF AboveCurrentRow
<1>12. /\ buf'.remaining_bytes = 0 => buf'.available = buf'.filled
       /\ inflater'.out <= inflater'.size /\ row' <= frame'.rows
       /\ ~ transformable' => row' = 1
  BY <1>1, <1>3, <1>4
<1> QED BY <1>5, <1>6, <1>8, <1>9, <1>10, <1>11, <1>12 DEF IInv, base

\* The offsets lo .. hi - 1 hold the bytes from base on.
RawsIn(s, lo, hi, base) ==
  \A o \in lo .. hi - 1 : s[o + 1] = Raw(base + (o - lo))

CookedIn(s, lo, hi, base) ==
  \A o \in lo .. hi - 1 : s[o + 1] = Cooked(base + (o - hi))

\* What unfilter_curr_row makes of the vector.
UnfilterRow(s, start, rowlen) ==
  [i \in 1 .. Len(s) |-> IF start + 1 < i /\ i <= start + rowlen THEN - s[i] ELSE s[i]]

\* Rewriting a row in place: what it touches and what it leaves alone.
LEMMA UnfilterBytes ==
  ASSUME NEW s \in Seq(Int), NEW start \in Nat, NEW rowlen \in Nat, NEW filled \in Nat,
         NEW base \in Nat, start + rowlen <= filled, filled <= Len(s), rowlen >= 1,
         RawsIn(s, start, filled, base)
  PROVE  /\ UnfilterRow(s, start, rowlen) \in Seq(Int)
         /\ Len(UnfilterRow(s, start, rowlen)) = Len(s)
         /\ RawsIn(UnfilterRow(s, start, rowlen), start + rowlen, filled, base + rowlen)
         /\ CookedIn(UnfilterRow(s, start, rowlen), start + 1, start + rowlen, base + rowlen)
<1> DEFINE t == UnfilterRow(s, start, rowlen)
<1>1. Len(s) \in Nat /\ \A i \in 1 .. Len(s) : s[i] \in Int
  BY LenProperties, ElementOfSeq
<1>2. /\ t \in [1 .. Len(s) -> Int]
      /\ \A i \in 1 .. Len(s) :
           t[i] = IF start + 1 < i /\ i <= start + rowlen THEN - s[i] ELSE s[i]
  BY <1>1 DEF UnfilterRow
<1> HIDE DEF t
<1>3. t \in Seq(Int) /\ Len(t) = Len(s)
  BY <1>1, <1>2, FunctionIsSeq
<1>4. ASSUME NEW o \in start + rowlen .. filled - 1
      PROVE  t[o + 1] = Raw((base + rowlen) + (o - (start + rowlen)))
  <2>1. o \in Nat /\ o + 1 \in 1 .. Len(s) /\ ~ (o + 1 <= start + rowlen) /\ o \in start .. filled - 1
    BY <1>1
  <2>2. t[o + 1] = s[o + 1]
    BY <1>2, <2>1
  <2>3. s[o + 1] = Raw(base + (o - start))
    BY <2>1 DEF RawsIn
  <2>4. (base + rowlen) + (o - (start + rowlen)) = base + (o - start)
    BY <2>1
  <2> QED BY <2>2, <2>3, <2>4
<1>5. ASSUME NEW o \in start + 1 .. start + rowlen - 1
      PROVE  t[o + 1] = Cooked((base + rowlen) + (o - (start + rowlen)))
  <2>1. /\ o \in Nat /\ o + 1 \in 1 .. Len(s) /\ start + 1 < o + 1
        /\ o + 1 <= start + rowlen /\ o \in start .. filled - 1
    BY <1>1
  <2>2. t[o + 1] = - s[o + 1]
    BY <1>2, <2>1
  <2>3. s[o + 1] = Raw(base + (o - start))
    BY <2>1 DEF RawsIn
  <2>4. (base + rowlen) + (o - (start + rowlen)) = base + (o - start)
    BY <2>1
  <2> QED BY <2>2, <2>3, <2>4 DEF Raw, Cooked
<1> QED BY <1>3, <1>4, <1>5 DEF t, RawsIn, CookedIn

LEMMA UnfilterStep ==
  ASSUME IInv, UnfilterCurrRow
  PROVE  IInv'
<1> DEFINE base == taken
           start == buf.current_start
           rowlen == RowLen(frame, row)
           t == UnfilterRow(buf.data_stream, start, rowlen)
<1>1. /\ TypeOK /\ MarkersOrdered /\ BytesAccounted /\ LookbackKept
      /\ RawsFrom(buf, base)
      /\ buf.remaining_bytes = 0 => buf.available = buf.filled
      /\ inflater.out <= inflater.size
      /\ ~ transformable => row = 1
      /\ reading /\ row <= frame.rows
  BY DEF IInv, UnfilterCurrRow
<1>2. /\ buf \in BufType /\ buf.data_stream \in Seq(Int)
      /\ Len(buf.data_stream) \in Nat
      /\ start \in Nat /\ buf.filled \in Nat /\ buf.available \in Nat
      /\ buf.remaining_bytes \in Nat /\ inflater.out \in Nat
      /\ frame \in Frames /\ frame.rows \in Nat /\ frame.frame_bytes \in Nat
      /\ row \in Nat /\ 1 <= row /\ base \in Nat /\ transformable \in BOOLEAN
  BY <1>1, StateFacts, TakenFacts
<1>3. row \in 1 .. frame.rows
  BY <1>1, <1>2
<1>4. /\ rowlen \in Nat /\ rowlen >= 2
      /\ transformable => frame.offset[row + 1] = base + rowlen
  <2>1. /\ rowlen \in Nat /\ rowlen >= 2 /\ frame.offset[row + 1] \in Nat
        /\ rowlen = frame.offset[row + 1] - frame.offset[row]
    BY <1>2, <1>3, FrameFacts
  <2>2. transformable => base = frame.offset[row]
    BY <1>1 DEF BytesAccounted
  <2>3. ASSUME transformable PROVE frame.offset[row + 1] = base + rowlen
    <3> DEFINE next == frame.offset[row + 1]
    <3>1. rowlen = next - base
      BY <2>1, <2>2, <2>3
    <3>2. next \in Nat /\ base \in Nat
      BY <1>2, <2>1
    <3> HIDE DEF next, rowlen, base
    <3>3. next = base + rowlen
      BY ONLY <3>1, <3>2
    <3> QED BY ONLY <3>3 DEF next
  <2> HIDE DEF rowlen, base
  <2> QED BY ONLY <2>1, <2>3
<1>5. start + rowlen <= buf.available /\ start + rowlen <= buf.filled
  <2>1. /\ buf.available - start >= rowlen
        /\ buf.available <= buf.filled
    BY <1>1 DEF UnfilterCurrRow, curr_row_len, MarkersOrdered
  <2> HIDE DEF rowlen, start
  <2> QED BY ONLY <1>2, <1>4, <2>1
<1>6. /\ buf' = [buf EXCEPT !.data_stream = t, !.prev_start = start + 1,
                          !.current_start = start + rowlen]
      /\ row' = IF transformable THEN row + 1 ELSE row
      /\ reading' = FALSE
      /\ UNCHANGED << inflater, frame, transformable, consumed_and_flushed, error >>
  BY DEF UnfilterCurrRow, UnfilterRow
<1>7. buf.filled <= Len(buf.data_stream)
  BY <1>1 DEF MarkersOrdered
<1>8. RawsIn(buf.data_stream, start, buf.filled, base)
  BY <1>1 DEF RawsFrom, RawsIn
<1> HIDE DEF base, rowlen, start
<1>9. /\ t \in Seq(Int) /\ Len(t) = Len(buf.data_stream)
      /\ RawsIn(t, start + rowlen, buf.filled, base + rowlen)
      /\ CookedIn(t, start + 1, start + rowlen, base + rowlen)
  <2>1. rowlen >= 1
    BY <1>4
  <2> QED BY ONLY <1>2, <1>4, <1>5, <1>7, <1>8, <2>1, UnfilterBytes DEF t
<1> HIDE DEF t
<1>10. start + 1 \in Nat /\ start + rowlen \in Nat
  BY <1>2, <1>4
<1>11. /\ buf' \in BufType
       /\ buf'.data_stream = t
       /\ buf'.prev_start = start + 1
       /\ buf'.current_start = start + rowlen
       /\ buf'.filled = buf.filled
       /\ buf'.available = buf.available
       /\ buf'.remaining_bytes = buf.remaining_bytes
  BY <1>2, <1>6, <1>9, <1>10 DEF BufType
<1>12. taken' = base + rowlen
  <2>1. taken' = inflater.out - (buf.filled - (start + rowlen))
    BY <1>6, <1>11 DEF taken
  <2>2. inflater.out = base + (buf.filled - start)
    BY <1>1, TakenFacts DEF base, start
  <2> QED BY ONLY <1>2, <1>4, <2>1, <2>2
<1>13. TypeOK'
  <2>1. row' \in 1 .. frame'.rows + 1
    BY <1>2, <1>3, <1>6
  <2> QED BY <1>1, <1>6, <1>11, <2>1 DEF TypeOK
<1>14. MarkersOrdered'
  <2>1. start + 1 <= start + rowlen
    BY <1>2, <1>4
  <2>2. buf.available <= buf.filled
    BY <1>1 DEF MarkersOrdered
  <2> QED BY <1>5, <1>7, <1>9, <1>11, <2>1, <2>2 DEF MarkersOrdered
<1>15. BytesAccounted'
  <2>1. inflater.out + buf.remaining_bytes = frame.frame_bytes
    BY <1>1 DEF BytesAccounted
  <2>2. transformable => taken' = frame'.offset[row']
    BY <1>4, <1>6, <1>12
  <2>3. taken' >= 0
    BY <1>2, <1>4, <1>12
  <2>4. inflater'.out + buf'.remaining_bytes = frame'.frame_bytes
    BY <1>6, <1>11, <2>1
  <2> QED BY <1>6, <2>2, <2>3, <2>4 DEF BytesAccounted
<1>16. LookbackKept'
  BY <1>1, <1>6, <1>11 DEF LookbackKept
<1>17. RawsFrom(buf', taken')
  BY <1>9, <1>11, <1>12 DEF RawsFrom, RawsIn
<1>18. CookedUpTo(buf', taken')
  BY <1>9, <1>11, <1>12 DEF CookedUpTo, CookedIn
<1>19. AboveCurrentRow'
  <2> SUFFICES ASSUME transformable, row + 1 <= frame.rows, ~ frame.first[row + 1]
               PROVE  buf'.current_start - buf'.prev_start = RowLen(frame, row + 1) - 1
    BY <1>2, <1>6 DEF AboveCurrentRow
  <2>1. row + 1 \in 1 .. frame.rows
    BY <1>2
  <2>2. RowLen(frame, row + 1) = RowLen(frame, (row + 1) - 1)
    BY <1>2, <2>1, FrameFacts
  <2>3. RowLen(frame, row + 1) = rowlen
    BY <1>2, <2>2 DEF rowlen
  <2>4. (start + rowlen) - (start + 1) = rowlen - 1
    BY <1>2, <1>4
  <2> QED BY <1>11, <2>3, <2>4
<1>20. /\ buf'.remaining_bytes = 0 => buf'.available = buf'.filled
       /\ inflater'.out <= inflater'.size
       /\ ~ transformable' => row' = 1
  BY <1>1, <1>6, <1>11
<1> QED BY <1>6, <1>13, <1>14, <1>15, <1>16, <1>17, <1>18, <1>19, <1>20 DEF IInv

LEMMA StepKeepsIInv == IInv /\ [Next]_vars => IInv'
<1> SUFFICES ASSUME IInv, [Next]_vars PROVE IInv'
  OBVIOUS
<1>1. CASE StartFrame
  BY <1>1, StartFrameStep
<1>2. CASE ReadRow
  BY <1>2, ReadRowStep
<1>3. CASE Decompress
  BY <1>3, DecompressStep
<1>4. CASE Finish
  BY <1>4, FinishStep
<1>5. CASE Interrupt
  BY <1>5, InterruptStep
<1>6. CASE AssertionFails \/ NoMoreImageData \/ UnknownFilterMethod \/ FinishDecoding
  BY <1>6, ControlSteps
<1>7. CASE UnfilterCurrRow
  BY <1>7, UnfilterStep
<1>8. CASE UNCHANGED vars
  <2>1. reading \in BOOLEAN /\ consumed_and_flushed \in BOOLEAN /\ error \in Errors
    BY DEF IInv, TypeOK
  <2> QED BY <1>8, <2>1, ControlStep DEF vars
<1> QED BY <1>1, <1>2, <1>3, <1>4, <1>5, <1>6, <1>7, <1>8 DEF Next

LEMMA InitIInv == Init => IInv
<1> SUFFICES ASSUME Init PROVE FrameBegins
  BY FreshFrame
<1>1. error \in Errors
  BY DEF Init, Errors
<1> QED BY <1>1 DEF Init, FrameBegins

-----------------------------------------------------------------------------
(* The theorems.                                                           *)

\* IInv, the inductive invariant, holds in every reachable state of the window, for
\* all window sizes, frame layouts and compressed streams.
THEOREM Inductive == Spec => []IInv
BY InitIInv, StepKeepsIInv, PTL DEF Spec

\* Every variable keeps its type: above all the unsigned subtractions of
\* with_unfilled_buffer and of the shift never underflow.
THEOREM TypeCorrect == Spec => []TypeOK
<1>1. IInv => TypeOK
  BY DEF IInv
<1> QED BY <1>1, Inductive, PTL

\* debug_assert_invariants never fails: the markers of the vector stay in order.
THEOREM MarkersStayOrdered == Spec => []MarkersOrdered
<1>1. IInv => MarkersOrdered
  BY DEF IInv
<1> QED BY <1>1, Inductive, PTL

\* Taken, buffered and outstanding bytes always make up the frame, and where rows can be
\* transformed the rows before the iterator's position are exactly the taken ones.
THEOREM NoByteLost == Spec => []BytesAccounted
<1>1. IInv => BytesAccounted
  BY DEF IInv
<1> QED BY <1>1, Inductive, PTL

\* Unfiltering never touches a byte the deflate stream may still refer to.
THEOREM LookbackIsKept == Spec => []LookbackKept
<1>1. IInv => LookbackKept
  BY DEF IInv
<1> QED BY <1>1, Inductive, PTL

\* Every byte from the current row on is the byte of the stream that belongs there,
\* so each row is unfiltered once and from its own bytes.
THEOREM StreamIsIntact == Spec => []RawBytesIntact
<1>1. IInv => RawBytesIntact
  BY DEF IInv, RawsFrom, RawBytesIntact
<1> QED BY <1>1, Inductive, PTL

\* The previous row handed to unfilter() is the finished row above, in the same pass,
\* and empty at the top of a pass.
THEOREM PrevRowIsRight == Spec => []PrevRowIsRowAbove
<1>1. IInv => PrevRowIsRowAbove
  <2> SUFFICES ASSUME IInv, reading, transformable
               PROVE  IF frame.first[row]
                      THEN buf.prev_start = buf.current_start
                      ELSE /\ buf.current_start - buf.prev_start = RowLen(frame, row) - 1
                           /\ \A o \in buf.prev_start .. buf.current_start - 1 :
                                buf.data_stream[o + 1]
                                  = Cooked(frame.offset[row] + (o - buf.current_start))
    BY DEF PrevRowIsRowAbove
  <2>1. taken = frame.offset[row]
    BY DEF IInv, BytesAccounted
  <2> QED BY <2>1 DEF IInv, AboveCurrentRow, CookedUpTo
<1> QED BY <1>1, Inductive, PTL

\* As long as rows can be transformed, the row loop never asks for data when the frame
\* expects none (its assert!(remaining_bytes > 0) holds), and in any case
\* with_unfilled_buffer has room to offer when the inflater is called.
THEOREM DataHasRoom == Spec => []RoomForData
<1>1. IInv => RoomForData
  <2> SUFFICES ASSUME IInv, NeedsData, ~ consumed_and_flushed
               PROVE  /\ transformable => buf.remaining_bytes > 0
                      /\ buf.remaining_bytes > 0 =>
                           Unfilled.filled < Len(Unfilled.data_stream)
    BY DEF RoomForData
  <2> DEFINE base == taken
             rowlen == RowLen(frame, row)
  <2>1. /\ TypeOK /\ MarkersOrdered /\ BytesAccounted
        /\ buf.remaining_bytes = 0 => buf.available = buf.filled
        /\ row <= frame.rows /\ buf.available - buf.current_start < rowlen
    BY DEF IInv, NeedsData, curr_row_len
  <2>2. /\ buf \in BufType
        /\ buf.current_start \in Nat /\ buf.filled \in Nat /\ buf.available \in Nat
        /\ buf.remaining_bytes \in Nat
        /\ frame \in Frames /\ frame.rows \in Nat /\ frame.frame_bytes \in Nat
        /\ row \in Nat /\ 1 <= row /\ base \in Nat
    BY <2>1, StateFacts, TakenFacts
  <2>3. row \in 1 .. frame.rows
    BY <2>1, <2>2
  <2>4. rowlen \in Nat /\ rowlen = frame.offset[row + 1] - frame.offset[row]
        /\ frame.offset[row] \in Nat
        /\ frame.offset[row + 1] \in Nat /\ frame.offset[row + 1] <= frame.frame_bytes
    BY <2>2, <2>3, FrameFacts
  <2>5. /\ base + (buf.filled - buf.current_start) + buf.remaining_bytes = frame.frame_bytes
        /\ transformable => base = frame.offset[row]
    BY <2>1, TakenFacts DEF BytesAccounted
  <2> HIDE DEF base, rowlen
  <2>6. transformable => buf.remaining_bytes # 0
    <3> SUFFICES ASSUME transformable, buf.remaining_bytes = 0 PROVE FALSE
      OBVIOUS
    <3>1. buf.available = buf.filled
      BY <2>1
    <3>2. base + (buf.filled - buf.current_start) = frame.frame_bytes
      BY ONLY <2>2, <2>5, buf.remaining_bytes = 0
    <3>3. buf.filled - buf.current_start < rowlen
      BY <2>1, <3>1
    <3>4. base = frame.offset[row]
      BY <2>5
    <3> QED BY ONLY <2>2, <2>4, <3>2, <3>3, <3>4
  <2>7. /\ Unfilled \in BufType
        /\ Unfilled.remaining_bytes = buf.remaining_bytes
        /\ Unfilled.remaining_bytes > 0 => Len(Unfilled.data_stream) > Unfilled.filled
    BY <2>1, <2>2, UnfilledIsReady DEF SameWindow, SameExtent
  <2>8. Unfilled.filled \in Nat /\ Len(Unfilled.data_stream) \in Nat
    BY <2>7, BufFields
  <2> QED BY <2>2, <2>6, <2>7, <2>8
<1> QED BY <1>1, Inductive, PTL

\* A verdict against the stream: what is missing is not just its end.
Shortfall == error = "Truncated" => inflater.out < frame.frame_bytes

LEMMA FinishVerdict ==
  ASSUME IInv, Finish, error' = "Truncated"
  PROVE  inflater'.out < frame.frame_bytes
<1> DEFINE u == Unfilled
           room == Len(u.data_stream) - u.filled
           left == inflater.size - inflater.out
           n == IF ~ inflater.started \/ inflater.done \/ room = 0 THEN 0
                ELSE IF left < room THEN left ELSE room
<1>1. /\ TypeOK /\ MarkersOrdered /\ BytesAccounted /\ inflater.out <= inflater.size
      /\ row <= frame.rows
  BY DEF IInv, Finish, Polls, NeedsData
<1>2. PICK done \in BOOLEAN : Drain(u, done)
  BY DEF Finish
<1> DEFINE ok == ~ inflater.started \/ inflater.done \/ room = 0 \/ done
<1>3. /\ inflater' = [inflater EXCEPT !.done = done, !.out = @ + n, !.drained = TRUE]
      /\ error' = Verdict(ok, n = room)
  BY <1>2, Zenon DEF Drain
<1>4. ~ ok /\ n # room
  BY <1>3 DEF Verdict
<1>5. /\ inflater \in InflaterType /\ inflater.out \in Nat /\ inflater.size \in Nat
      /\ buf \in BufType /\ buf.remaining_bytes \in Nat /\ frame.frame_bytes \in Nat
      /\ row \in 1 .. frame.rows /\ frame \in Frames
  BY <1>1, StateFacts
<1>6. /\ room \in Nat /\ room <= buf.remaining_bytes
  <2>1. u \in BufType /\ SameWindow(buf, u) /\ room <= u.remaining_bytes
    BY <1>1, <1>5, UnfilledIsReady
  <2>2. u.remaining_bytes = buf.remaining_bytes
    BY <2>1 DEF SameWindow, SameExtent
  <2> QED BY <1>1, <2>1, <2>2, UnfilledFacts
<1> HIDE DEF u, room
<1>7. n \in Nat /\ n < room
  BY <1>1, <1>4, <1>5, <1>6
<1>8. inflater'.out = inflater.out + n
  BY <1>3, <1>5 DEF InflaterType
<1> HIDE DEF n
<1>9. inflater.out + buf.remaining_bytes = frame.frame_bytes
  BY <1>1 DEF BytesAccounted
<1> QED BY <1>5, <1>6, <1>7, <1>8, <1>9

LEMMA ShortfallStep == IInv /\ Shortfall /\ [Next]_vars => Shortfall'
<1> SUFFICES ASSUME IInv, Shortfall, [Next]_vars, error' = "Truncated"
             PROVE  inflater'.out < frame'.frame_bytes
  BY DEF Shortfall
<1>1. CASE Finish
  BY <1>1, FinishVerdict DEF Finish
<1>2. CASE StartFrame \/ Decompress
  BY <1>2 DEF StartFrame, Decompress, Polls
<1>3. CASE Interrupt
  BY <1>3 DEF Shortfall, Interrupt
<1>4. CASE \/ ReadRow \/ AssertionFails \/ NoMoreImageData \/ UnfilterCurrRow
           \/ UnknownFilterMethod \/ FinishDecoding \/ UNCHANGED vars
  BY <1>4 DEF Shortfall, ReadRow, AssertionFails, NoMoreImageData, UnfilterCurrRow,
              UnknownFilterMethod, FinishDecoding, vars
<1> QED BY <1>1, <1>2, <1>3, <1>4 DEF Next

\* A stream is refused for its end only when it has not given all pixels, whatever it lacks or
\* holds too much, and however much of it finish() still had to drain; for frames of which
\* frame_bytes is the sum of the rows, which all are but narrow interlaced ones.
THEOREM TruncatedOnlyBeforeLastPixel ==
  ASSUME \A f \in Frames : f.frame_bytes = PixelBytes(f)
  PROVE  Spec => []LenientAfterLastPixel
<1>1. Init => Shortfall
  BY DEF Init, Shortfall
<1>2. IInv /\ Shortfall => LenientAfterLastPixel
  BY DEF IInv, TypeOK, Shortfall, LenientAfterLastPixel
<1> QED BY <1>1, <1>2, ShortfallStep, Inductive, PTL DEF Spec

-----------------------------------------------------------------------------
(* The window implements RowQueue: what its bytes are, IInv says, so that    *)
(* only their number has to be followed through a step.                      *)

Raws(from, n) == [i \in 1 .. n |-> Raw(from + i - 1)]
Cookeds(from, n) == [i \in 1 .. n |-> Cooked(from + i - 1)]

LEMMA RawsFacts ==
  ASSUME NEW from \in Nat, NEW n \in Nat
  PROVE  /\ Raws(from, n) \in Seq(Int) /\ Len(Raws(from, n)) = n
         /\ \A i \in 1 .. n : Raws(from, n)[i] = Raw(from + i - 1)
         /\ \A i \in 1 .. n : Raws(from, n)[i] = from + i
         /\ Cookeds(from, n) \in Seq(Int) /\ Len(Cookeds(from, n)) = n
<1>1. Raws(from, n) \in [1 .. n -> Int] /\ Cookeds(from, n) \in [1 .. n -> Int]
  BY DEF Raws, Cookeds, Raw, Cooked
<1>2. \A i \in 1 .. n : Raws(from, n)[i] = Raw(from + i - 1)
  BY DEF Raws
<1>3. \A i \in 1 .. n : Raws(from, n)[i] = from + i
  BY DEF Raws, Raw
<1> QED BY <1>1, <1>2, <1>3, FunctionIsSeq

LEMMA SameSeq ==
  ASSUME NEW s \in Seq(Int), NEW t \in Seq(Int), Len(s) = Len(t),
         \A i \in 1 .. Len(s) : s[i] = t[i]
  PROVE  s = t
BY SeqEqual

LEMMA RawsConcat ==
  ASSUME NEW from \in Nat, NEW m \in Nat, NEW n \in Nat
  PROVE  Raws(from, m) \o Queue!Arriving(from + m, n) = Raws(from, m + n)
<1> DEFINE s == Raws(from, m)  t == Queue!Arriving(from + m, n)  u == Raws(from, m + n)
<1>1. /\ s \in Seq(Int) /\ Len(s) = m /\ \A i \in 1 .. m : s[i] = from + i
      /\ u \in Seq(Int) /\ Len(u) = m + n /\ \A i \in 1 .. m + n : u[i] = from + i
  <2>1. m + n \in Nat
    OBVIOUS
  <2>2. s \in Seq(Int) /\ Len(s) = m /\ \A i \in 1 .. m : s[i] = from + i
    BY RawsFacts
  <2>3. u \in Seq(Int) /\ Len(u) = m + n /\ \A i \in 1 .. m + n : u[i] = from + i
    BY <2>1, RawsFacts
  <2> QED BY <2>2, <2>3
<1>2. t \in [1 .. n -> Int] /\ \A i \in 1 .. n : t[i] = from + m + i
  BY DEF Queue!Arriving
<1>3. t \in Seq(Int) /\ Len(t) = n
  BY <1>2, FunctionIsSeq
<1> HIDE DEF s, t, u
<1>4. /\ s \o t \in Seq(Int) /\ Len(s \o t) = m + n
      /\ \A i \in 1 .. m + n : (s \o t)[i] = IF i <= m THEN s[i] ELSE t[i - m]
  BY <1>1, <1>3, ConcatProperties
<1>5. ASSUME NEW i \in 1 .. m + n PROVE (s \o t)[i] = u[i]
  <2>1. CASE i <= m
    <3>1. i \in 1 .. m
      BY <2>1
    <3> QED BY <1>1, <1>4, <2>1, <3>1
  <2>2. CASE ~ (i <= m)
    <3>1. i - m \in 1 .. n /\ from + m + (i - m) = from + i
      BY <2>2
    <3>2. t[i - m] = from + m + (i - m)
      BY <1>2, <3>1
    <3> QED BY <1>1, <1>4, <2>2, <3>1, <3>2
  <2> QED BY <2>1, <2>2
<1>6. s \o t = u
  BY <1>1, <1>4, <1>5, SameSeq
<1> QED BY <1>6 DEF s, t, u

LEMMA RawsTaken ==
  ASSUME NEW from \in Nat, NEW n \in Nat, NEW took \in Nat, 2 <= took, took <= n
  PROVE  /\ SubSeq(Raws(from, n), took + 1, n) = Raws(from + took, n - took)
         /\ Queue!Unfiltered(SubSeq(Raws(from, n), 2, took)) = Cookeds(from + 1, took - 1)
<1> DEFINE s == Raws(from, n)
           t == SubSeq(s, took + 1, n)
           u == SubSeq(s, 2, took)
<1>1. s \in Seq(Int) /\ Len(s) = n /\ \A i \in 1 .. n : s[i] = from + i
  BY RawsFacts DEF Raw
<1>2. \A i \in 1 .. n : s[i] \in Int
  BY <1>1
<1> HIDE DEF s
<1>3. t \in Seq(Int) /\ Len(t) = n - took /\ \A i \in 1 .. n - took : t[i] = s[took + i]
  <2>1. \A i \in took + 1 .. n : s[i] \in Int
    BY <1>2
  <2>2. /\ t \in Seq(Int)
        /\ Len(t) = IF took + 1 <= n THEN n - (took + 1) + 1 ELSE 0
        /\ \A i \in 1 .. n - (took + 1) + 1 : t[i] = s[took + 1 + i - 1]
    BY <2>1, SubSeqProperties
  <2> HIDE DEF t
  <2>3. Len(t) = n - took /\ n - (took + 1) + 1 = n - took
    BY <2>2
  <2>4. \A i \in 1 .. n - took : took + 1 + i - 1 = took + i
    OBVIOUS
  <2> QED BY <2>2, <2>3, <2>4
<1>4. u \in Seq(Int) /\ Len(u) = took - 1 /\ \A i \in 1 .. took - 1 : u[i] = s[i + 1]
  <2>1. \A i \in 2 .. took : s[i] \in Int
    BY <1>2
  <2>2. /\ u \in Seq(Int)
        /\ Len(u) = IF 2 <= took THEN took - 2 + 1 ELSE 0
        /\ \A i \in 1 .. took - 2 + 1 : u[i] = s[2 + i - 1]
    BY <2>1, SubSeqProperties
  <2> HIDE DEF u
  <2>3. Len(u) = took - 1 /\ took - 2 + 1 = took - 1
    BY <2>2
  <2>4. \A i \in 1 .. took - 1 : 2 + i - 1 = i + 1
    OBVIOUS
  <2> QED BY <2>2, <2>3, <2>4
<1> HIDE DEF t, u
<1>5. t = Raws(from + took, n - took)
  <2>1. /\ Raws(from + took, n - took) \in Seq(Int)
        /\ Len(Raws(from + took, n - took)) = n - took
        /\ \A i \in 1 .. n - took : Raws(from + took, n - took)[i] = Raw(from + took + i - 1)
    <3>1. from + took \in Nat /\ n - took \in Nat
      OBVIOUS
    <3> QED BY <3>1, RawsFacts
  <2>2. \A i \in 1 .. n - took : t[i] = Raw(from + took + i - 1)
    BY <1>1, <1>3 DEF Raw
  <2> QED BY <1>3, <2>1, <2>2, SameSeq
<1>6. Queue!Unfiltered(u) = Cookeds(from + 1, took - 1)
  <2>1. Len(u) = took - 1 /\ \A i \in 1 .. took - 1 : u[i] = from + (i + 1)
    <3>1. \A i \in 1 .. took - 1 : i + 1 \in 1 .. n
      OBVIOUS
    <3> QED BY <1>1, <1>4, <3>1
  <2>2. \A i \in 1 .. took - 1 : - u[i] = Cooked(from + 1 + i - 1)
    BY <2>1 DEF Cooked
  <2> QED BY <2>1, <2>2 DEF Queue!Unfiltered, Cookeds
<1> QED BY <1>5, <1>6 DEF s, t, u

\* What the two parts of the window hold in terms of the position and of their lengths.
Held == buf.filled - buf.current_start
Behind == buf.current_start - buf.prev_start

LEMMA WindowContents ==
  IInv =>
    /\ taken \in Nat /\ Held \in Nat /\ Behind \in Nat
    /\ Waiting = Raws(taken, Held)
    /\ Len(Waiting) = Held
    /\ Above = Cookeds(taken - Behind, Behind)
    /\ Behind = 0 => Above = << >>
<1> SUFFICES ASSUME IInv
    PROVE  /\ taken \in Nat /\ Held \in Nat /\ Behind \in Nat
           /\ Waiting = Raws(taken, Held)
           /\ Len(Waiting) = Held
           /\ Above = Cookeds(taken - Behind, Behind)
           /\ Behind = 0 => Above = << >>
  OBVIOUS
<1> DEFINE s == buf.data_stream
           lo == buf.prev_start
           mid == buf.current_start
           hi == buf.filled
           base == taken
<1>1. /\ s \in Seq(Int) /\ Len(s) \in Nat /\ lo \in Nat /\ mid \in Nat /\ hi \in Nat
      /\ base \in Nat /\ lo <= mid /\ mid <= hi /\ hi <= Len(s)
  BY StateFacts, TakenFacts DEF IInv, MarkersOrdered
<1>2. /\ \A o \in mid .. hi - 1 : s[o + 1] = Raw(base + (o - mid))
      /\ \A o \in lo .. mid - 1 : s[o + 1] = Cooked(base + (o - mid))
  BY DEF IInv, RawsFrom, CookedUpTo
<1>3. \A i \in 1 .. Len(s) : s[i] \in Int
  BY <1>1
<1> HIDE DEF s, lo, mid, hi, base
<1>4. /\ SubSeq(s, mid + 1, hi) \in Seq(Int)
      /\ Len(SubSeq(s, mid + 1, hi)) = hi - mid
      /\ \A i \in 1 .. hi - mid : SubSeq(s, mid + 1, hi)[i] = s[mid + i]
  <2>1. \A i \in mid + 1 .. hi : s[i] \in Int
    BY <1>1, <1>3
  <2>2. /\ SubSeq(s, mid + 1, hi) \in Seq(Int)
        /\ Len(SubSeq(s, mid + 1, hi)) = IF mid + 1 <= hi THEN hi - (mid + 1) + 1 ELSE 0
        /\ \A i \in 1 .. hi - (mid + 1) + 1 : SubSeq(s, mid + 1, hi)[i] = s[mid + 1 + i - 1]
    <3>1. mid + 1 \in Int /\ hi \in Int
      BY ONLY <1>1
    <3> QED BY ONLY <2>1, <3>1, SubSeqProperties
  <2>3. \A i \in 1 .. hi - mid : mid + 1 + i - 1 = mid + i
    BY <1>1
  <2>4. hi - (mid + 1) + 1 = hi - mid /\ (mid + 1 <= hi \/ hi - mid = 0)
    BY <1>1
  <2> QED BY <2>2, <2>3, <2>4
<1>5. /\ SubSeq(s, lo + 1, mid) \in Seq(Int)
      /\ Len(SubSeq(s, lo + 1, mid)) = mid - lo
      /\ \A i \in 1 .. mid - lo : SubSeq(s, lo + 1, mid)[i] = s[lo + i]
  <2>1. \A i \in lo + 1 .. mid : s[i] \in Int
    BY <1>1, <1>3
  <2>2. /\ SubSeq(s, lo + 1, mid) \in Seq(Int)
        /\ Len(SubSeq(s, lo + 1, mid)) = IF lo + 1 <= mid THEN mid - (lo + 1) + 1 ELSE 0
        /\ \A i \in 1 .. mid - (lo + 1) + 1 : SubSeq(s, lo + 1, mid)[i] = s[lo + 1 + i - 1]
    <3>1. lo + 1 \in Int /\ mid \in Int
      BY ONLY <1>1
    <3> QED BY ONLY <2>1, <3>1, SubSeqProperties
  <2>3. \A i \in 1 .. mid - lo : lo + 1 + i - 1 = lo + i
    BY <1>1
  <2>4. mid - (lo + 1) + 1 = mid - lo /\ (lo + 1 <= mid \/ mid - lo = 0)
    BY <1>1
  <2> QED BY <2>2, <2>3, <2>4
<1>6. SubSeq(s, mid + 1, hi) = Raws(base, hi - mid)
  <2>1. \A i \in 1 .. hi - mid : s[mid + i] = Raw(base + i - 1)
    <3> SUFFICES ASSUME NEW i \in 1 .. hi - mid PROVE s[mid + i] = Raw(base + i - 1)
      OBVIOUS
    <3>1. mid + i - 1 \in mid .. hi - 1 /\ (mid + i - 1) + 1 = mid + i
      BY <1>1
    <3>2. s[(mid + i - 1) + 1] = Raw(base + ((mid + i - 1) - mid))
      BY <1>2, <3>1
    <3> QED BY <1>1, <3>1, <3>2
  <2>2. hi - mid \in Nat
    BY <1>1
  <2>3. /\ Raws(base, hi - mid) \in Seq(Int) /\ Len(Raws(base, hi - mid)) = hi - mid
        /\ \A i \in 1 .. hi - mid : Raws(base, hi - mid)[i] = Raw(base + i - 1)
    BY <1>1, <2>2, RawsFacts
  <2> QED BY <1>4, <2>1, <2>3, SameSeq
<1>7. SubSeq(s, lo + 1, mid) = Cookeds(base - (mid - lo), mid - lo)
  <2>1. \A i \in 1 .. mid - lo : s[lo + i] = Cooked(base - (mid - lo) + i - 1)
    <3> SUFFICES ASSUME NEW i \in 1 .. mid - lo
                 PROVE  s[lo + i] = Cooked(base - (mid - lo) + i - 1)
      OBVIOUS
    <3>1. lo + i - 1 \in lo .. mid - 1 /\ (lo + i - 1) + 1 = lo + i
      BY <1>1
    <3>2. s[(lo + i - 1) + 1] = Cooked(base + ((lo + i - 1) - mid))
      BY <1>2, <3>1
    <3> QED BY <1>1, <3>1, <3>2
  <2>2. mid - lo \in Nat
    BY <1>1
  <2>3. /\ Cookeds(base - (mid - lo), mid - lo) \in Seq(Int)
        /\ Len(Cookeds(base - (mid - lo), mid - lo)) = mid - lo
    <3>1. Cookeds(base - (mid - lo), mid - lo) \in [1 .. mid - lo -> Int]
      BY <1>1 DEF Cookeds, Cooked
    <3> QED BY <2>2, <3>1, FunctionIsSeq
  <2>4. \A i \in 1 .. mid - lo : Cookeds(base - (mid - lo), mid - lo)[i]
                                  = Cooked(base - (mid - lo) + i - 1)
    BY DEF Cookeds
  <2> QED BY <1>5, <2>1, <2>3, <2>4, SameSeq
<1>8. /\ hi - mid \in Nat /\ mid - lo \in Nat
      /\ mid - lo = 0 => SubSeq(s, lo + 1, mid) = << >>
  <2>1. mid - lo = 0 => SubSeq(s, lo + 1, mid) = << >>
    BY <1>5, EmptySeq
  <2> QED BY <1>1, <2>1
<1> QED BY <1>1, <1>4, <1>6, <1>7, <1>8
       DEF Waiting, Above, Held, Behind, s, lo, mid, hi, base

\* Bytes that arrive, or none: all that happens to the queue while the window is made
\* ready, moved, grown and filled.
LEMMA ArriveStep ==
  ASSUME IInv, IInv', reading, UNCHANGED << frame, row, transformable >>,
         inflater'.out - inflater.out = Held' - Held, Held' >= Held, Behind' = Behind
  PROVE  Queue!Arrive
<1> DEFINE base == taken
<1>1. /\ base \in Nat /\ Held \in Nat
      /\ Waiting = Raws(base, Held) /\ Len(Waiting) = Held
      /\ Above = Cookeds(base - Behind, Behind)
  BY WindowContents
<1>2. /\ Held' \in Nat
      /\ Waiting' = Raws(taken', Held')
      /\ Above' = Cookeds(taken' - Behind', Behind')
  <2>1. (/\ Held \in Nat
         /\ Waiting = Raws(taken, Held)
         /\ Above = Cookeds(taken - Behind, Behind))'
    BY WindowContents, PTL
  <2> QED BY <2>1
<1>3. /\ frame' = frame /\ row' = row /\ transformable' = transformable
      /\ reading' \in BOOLEAN /\ taken' = base
  <2>1. inflater.out \in Nat /\ inflater'.out \in Nat
    BY DEF IInv, TypeOK, InflaterType
  <2>2. taken' = inflater'.out - Held' /\ base = inflater.out - Held
    BY DEF taken, Held
  <2>3. taken' = base
    <3>1. PICK h \in Nat : h = Held
      BY <1>1
    <3>2. PICK k \in Nat : k = Held'
      BY <1>2
    <3>3. inflater'.out - inflater.out = k - h
      BY <3>1, <3>2
    <3> HIDE DEF base
    <3> QED BY ONLY <2>1, <2>2, <3>1, <3>2, <3>3
  <2> QED BY <2>3 DEF IInv, TypeOK
<1>4. Above' = Above
  BY <1>1, <1>2, <1>3
<1>5. base + Held' + buf'.remaining_bytes = frame.frame_bytes /\ buf'.remaining_bytes \in Nat
  <2>1. BytesAccounted' /\ TypeOK'
    BY DEF IInv
  <2>2. buf'.remaining_bytes \in Nat
    BY <2>1 DEF TypeOK, BufType
  <2>3. (taken + (buf.filled - buf.current_start) + buf.remaining_bytes
           = frame.frame_bytes)'
    BY <2>1, TakenFacts, PTL
  <2> QED BY <1>3, <2>2, <2>3 DEF Held
<1> DEFINE n == Held' - Held
<1>6. n \in Nat /\ Held + n = Held' /\ n <= frame.frame_bytes - base - Held
      /\ frame.frame_bytes - base - Held \in Int
  <2>2. PICK h \in Nat : h = Held
    BY <1>1
  <2>3. PICK k \in Nat : k = Held'
    BY <1>2
  <2>4. PICK b \in Nat : b = base
    BY <1>1
  <2>5. PICK r \in Nat : r = buf'.remaining_bytes
    BY <1>5
  <2>6. k >= h /\ b + k + r = frame.frame_bytes
    BY <1>5, <2>2, <2>3, <2>4, <2>5
  <2>7. n = k - h
    BY <2>2, <2>3
  <2>8. PICK f \in Nat : f = frame.frame_bytes
    BY <2>6
  <2> HIDE DEF base, n
  <2>9. /\ k - h \in Nat /\ h + (k - h) = k
        /\ k - h <= f - b - h /\ f - b - h \in Int
    BY <2>6, <2>8
  <2>10. frame.frame_bytes - base - Held = f - b - h
    BY <2>2, <2>4, <2>8
  <2>11. n \in Nat /\ Held + n = Held'
    BY <2>2, <2>3, <2>7, <2>9
  <2> QED BY <2>7, <2>9, <2>10, <2>11
<1>7. n \in 0 .. frame.frame_bytes - base - Len(Waiting)
  BY <1>1, <1>6
<1> HIDE DEF n
<1>8. Raws(base, Held) \o Queue!Arriving(base + Held, n) = Raws(base, Held + n)
  BY <1>1, <1>6, RawsConcat
<1>9. Waiting' = Waiting \o Queue!Arriving(base + Len(Waiting), n)
  BY <1>1, <1>2, <1>3, <1>6, <1>8
<1> QED BY <1>3, <1>4, <1>7, <1>9 DEF Queue!Arrive

\* Making the window ready and filling it appends to what waits and leaves the rest.
LEMMA RefillArrives ==
  ASSUME IInv, IInv', reading, UNCHANGED << frame, row, transformable >>,
         NEW n \in Nat, NEW available, buf' = Refill(Unfilled, n, available),
         inflater'.out = inflater.out + n
  PROVE  Queue!Arrive
<1>1. buf \in BufType /\ MarkersOrdered
  BY DEF IInv, TypeOK
<1>2. Unfilled \in BufType /\ SameExtent(buf, Unfilled)
  BY <1>1, UnfilledIsReady DEF SameWindow
<1>3. /\ buf'.filled = Unfilled.filled + n
      /\ buf'.current_start = Unfilled.current_start
      /\ buf'.prev_start = Unfilled.prev_start
  BY <1>2 DEF Refill, BufType
<1>4. /\ Unfilled.filled \in Nat /\ Unfilled.current_start \in Nat
      /\ Unfilled.prev_start \in Nat
  BY <1>2 DEF BufType
<1>5. Held \in Nat
  BY WindowContents
<1>6. Unfilled.filled - Unfilled.current_start = Held
  BY <1>2 DEF SameExtent, Held
<1>7. Unfilled.current_start - Unfilled.prev_start = Behind
  BY <1>2 DEF SameExtent, Behind
<1>8. Held' >= Held /\ Held' - Held = n
  <2>1. Held' = buf'.filled - buf'.current_start
    BY ONLY DEF Held
  <2>2. PICK f \in Nat : f = Unfilled.filled
    BY <1>4
  <2>3. PICK c \in Nat : c = Unfilled.current_start
    BY <1>4
  <2>4. Held' = (f + n) - c /\ Held = f - c
    BY ONLY <1>3, <1>6, <2>1, <2>2, <2>3
  <2>5. (f + n) - c >= f - c /\ ((f + n) - c) - (f - c) = n
    OBVIOUS
  <2> QED BY <2>4, <2>5
<1>9. Behind' = Behind
  BY <1>3, <1>7 DEF Behind
<1>10. inflater'.out - inflater.out = Held' - Held
  <2>1. inflater.out \in Nat
    BY DEF IInv, TypeOK, InflaterType
  <2> QED BY <1>8, <2>1
<1> QED BY <1>8, <1>9, <1>10, ArriveStep

LEMMA DecompressArrives ==
  ASSUME IInv, IInv', Decompress
  PROVE  Queue!Arrive
<1> DEFINE limit == IF Unfilled.filled + GROWTH_BYTES <= Len(Unfilled.data_stream)
                    THEN Unfilled.filled + GROWTH_BYTES ELSE Len(Unfilled.data_stream)
<1>1. PICK n \in 0 .. limit - Unfilled.filled, done \in BOOLEAN :
        /\ inflater' = [inflater EXCEPT !.started = TRUE, !.done = done, !.out = @ + n]
        /\ buf' = Refill(Unfilled, n,
                    IF inflater.done THEN Unfilled.available
                    ELSE IF done THEN Unfilled.filled + n
                    ELSE BeyondLookback(Unfilled.available, Unfilled.filled + n))
  BY DEF Decompress
<1>2. reading /\ UNCHANGED << frame, row, transformable >>
  BY DEF Decompress, Polls, NeedsData
<1>3. n \in Nat
  OBVIOUS
<1>4. inflater'.out = inflater.out + n
  BY <1>1 DEF IInv, TypeOK, InflaterType
<1> QED BY <1>1, <1>2, <1>3, <1>4, RefillArrives

LEMMA FinishArrives ==
  ASSUME IInv, IInv', Finish
  PROVE  Queue!Arrive
<1> DEFINE room == Len(Unfilled.data_stream) - Unfilled.filled
           left == inflater.size - inflater.out
           n == IF ~ inflater.started \/ inflater.done \/ room = 0 THEN 0
                ELSE IF left < room THEN left ELSE room
<1>1. PICK done \in BOOLEAN : Drain(Unfilled, done)
  BY DEF Finish
<1> DEFINE ok == ~ inflater.started \/ inflater.done \/ room = 0 \/ done
<1>2. /\ buf' = Refill(Unfilled, n,
               IF ~ inflater.done /\ done THEN Unfilled.filled + n
               ELSE IF ~ ok /\ n = room
                    THEN BeyondLookback(Unfilled.available, Unfilled.filled + n)
               ELSE Unfilled.available)
      /\ inflater' = [inflater EXCEPT !.done = done, !.out = @ + n, !.drained = TRUE]
  BY <1>1, Zenon DEF Drain
<1>3. reading /\ UNCHANGED << frame, row, transformable >>
  BY DEF Finish, Polls, NeedsData
<1>4. TypeOK /\ MarkersOrdered /\ inflater.out <= inflater.size
  BY DEF IInv
<1>5. n \in Nat
  <2>1. /\ Unfilled.filled \in Nat /\ Len(Unfilled.data_stream) \in Nat
        /\ Unfilled.filled <= Len(Unfilled.data_stream)
    BY <1>4, UnfilledFacts
  <2>2. inflater.out \in Nat /\ inflater.size \in Nat
    BY <1>4, StateFacts
  <2> QED BY <1>4, <2>1, <2>2
<1> HIDE DEF n, ok, room, left
<1>6. inflater'.out = inflater.out + n
  BY <1>2, <1>4 DEF TypeOK, InflaterType
<1> QED BY <1>2, <1>3, <1>5, <1>6, RefillArrives

LEMMA InterruptArrives ==
  ASSUME IInv, IInv', Interrupt
  PROVE  Queue!Arrive
<1>1. /\ buf' = Refill(Unfilled, 0, Unfilled.available)
      /\ reading /\ UNCHANGED << frame, row, transformable >> /\ 0 \in Nat
  BY DEF Interrupt, NeedsData
<1>2. inflater'.out = inflater.out + 0
  BY DEF Interrupt, IInv, TypeOK, InflaterType
<1> QED BY <1>1, <1>2, RefillArrives

\* The call returns without having moved anything.
LEMMA FailureArrives ==
  ASSUME IInv, IInv', AssertionFails \/ NoMoreImageData \/ UnknownFilterMethod
  PROVE  Queue!Arrive
<1>1. reading /\ UNCHANGED << buf, inflater, frame, row, transformable >>
  BY DEF AssertionFails, NoMoreImageData, NeedsData, UnknownFilterMethod
<1>2. Held' = Held /\ Behind' = Behind /\ Held \in Nat
  BY <1>1, WindowContents DEF Held, Behind
<1>3. inflater'.out - inflater.out = Held' - Held /\ Held' >= Held
  <2>1. inflater.out \in Nat
    BY DEF IInv, TypeOK, InflaterType
  <2> QED BY <1>1, <1>2, <2>1
<1> QED BY <1>1, <1>2, <1>3, ArriveStep

\* unfilter_curr_row takes exactly the first row that waits.
LEMMA UnfilterDelivers ==
  ASSUME IInv, IInv', UnfilterCurrRow
  PROVE  Queue!Deliver
<1> DEFINE base == taken
           took == RowLen(frame, row)
<1>1. /\ TypeOK /\ MarkersOrdered /\ BytesAccounted /\ reading /\ row <= frame.rows
      /\ buf.available - buf.current_start >= took
  BY DEF IInv, UnfilterCurrRow, curr_row_len
<1>2. /\ buf \in BufType /\ buf.current_start \in Nat /\ buf.filled \in Nat
      /\ buf.available \in Nat /\ base \in Nat /\ row \in 1 .. frame.rows
      /\ frame \in Frames /\ inflater.out \in Nat
      /\ inflater.out = base + (buf.filled - buf.current_start)
  BY <1>1, StateFacts, TakenFacts
<1>3. /\ took \in Nat /\ took >= 2 /\ took = frame.offset[row + 1] - frame.offset[row]
  BY <1>2, FrameFacts
<1>4. /\ buf'.prev_start = buf.current_start + 1
      /\ buf'.current_start = buf.current_start + took
      /\ buf'.filled = buf.filled
      /\ row' = IF transformable THEN row + 1 ELSE row
      /\ reading' = FALSE /\ frame' = frame /\ transformable' = transformable
  BY <1>2 DEF UnfilterCurrRow, BufType
<1>5. taken' = inflater.out - (buf.filled - (buf.current_start + took))
  BY <1>4 DEF UnfilterCurrRow, taken
<1>6. /\ Waiting = Raws(base, Held) /\ Len(Waiting) = Held /\ Held \in Nat
  BY WindowContents
<1>7. /\ Waiting' = Raws(taken', Held')
      /\ Above' = Cookeds(taken' - Behind', Behind')
  <2>1. (/\ Waiting = Raws(taken, Held)
         /\ Above = Cookeds(taken - Behind, Behind))'
    BY WindowContents, PTL
  <2> QED BY <2>1
<1> HIDE DEF base, took
<1>8. /\ Held' = Held - took /\ Behind' = took - 1 /\ took <= Held
  <2>1. Held' = buf.filled - (buf.current_start + took)
    BY <1>4 DEF Held
  <2>2. Behind' = (buf.current_start + took) - (buf.current_start + 1)
    BY <1>4 DEF Behind
  <2>3. buf.available <= buf.filled
    BY <1>1 DEF MarkersOrdered
  <2>4. took <= buf.filled - buf.current_start
    BY <1>1, <1>2, <1>3, <2>3
  <2> QED BY <1>2, <1>3, <2>1, <2>2, <2>4 DEF Held
<1>9. taken' = base + took
  BY ONLY <1>2, <1>3, <1>5
<1>10. (base + took) - (took - 1) = base + 1
  BY <1>2, <1>3
<1>11. PICK held \in Nat : held = Held
  BY <1>6
<1>12. /\ SubSeq(Raws(base, held), took + 1, held) = Raws(base + took, held - took)
       /\ Queue!Unfiltered(SubSeq(Raws(base, held), 2, took)) = Cookeds(base + 1, took - 1)
  <2>1. took <= held /\ 2 <= took
    BY <1>3, <1>8, <1>11
  <2>2. base \in Nat /\ took \in Nat /\ held \in Nat
    BY <1>2, <1>3
  <2> QED BY ONLY <2>1, <2>2, RawsTaken
<1>13. Queue!rowlen = took
  BY <1>3 DEF Queue!rowlen
<1>14. Waiting' = SubSeq(Waiting, took + 1, Len(Waiting))
  BY <1>6, <1>7, <1>8, <1>9, <1>11, <1>12
<1>15. Above' = Queue!Unfiltered(SubSeq(Waiting, 2, took))
  <2>1. Above' = Cookeds(base + 1, took - 1)
    BY <1>7, <1>8, <1>9, <1>10
  <2> QED BY <1>6, <1>11, <1>12, <2>1
<1> QED BY <1>1, <1>4, <1>6, <1>8, <1>9, <1>13, <1>14, <1>15 DEF Queue!Deliver, base

\* The window of a frame that begins is empty.
EmptyWindow ==
  /\ buf.data_stream = << >> /\ buf.prev_start = 0 /\ buf.current_start = 0
  /\ buf.filled = 0

LEMMA EmptyQueue == EmptyWindow => Waiting = << >> /\ Above = << >>
<1>1. SubSeq(<< >>, 0 + 1, 0) = << >>
  BY SubSeqEmpty
<1> QED BY <1>1 DEF EmptyWindow, Waiting, Above

LEMMA StartFrameStarts ==
  ASSUME StartFrame
  PROVE  Queue!StartFrame
<1>1. EmptyWindow'
  BY DEF StartFrame, EmptyBuffer, EmptyWindow
<1>2. (Waiting = << >> /\ Above = << >>)'
  BY <1>1, EmptyQueue, PTL
<1>3. taken' = 0
  BY DEF StartFrame, EmptyBuffer, taken
<1> QED BY <1>2, <1>3 DEF StartFrame, Queue!StartFrame

\* The first row of a pass finds no row above it.
LEMMA ReadRowReads ==
  ASSUME IInv, IInv', ReadRow
  PROVE  Queue!ReadRow
<1>1. /\ buf \in BufType /\ TypeOK
      /\ ~ reading /\ row <= frame.rows /\ reading' = TRUE
      /\ UNCHANGED << inflater, frame, row, transformable >>
  BY DEF ReadRow, IInv, TypeOK
<1>2. /\ buf'.data_stream = buf.data_stream /\ buf'.current_start = buf.current_start
      /\ buf'.filled = buf.filled
      /\ \/ frame.first[row] /\ buf'.prev_start = buf.current_start
         \/ ~ frame.first[row] /\ buf' = buf
         \/ OnePass(frame) /\ row = 1 /\ buf' = buf
  BY <1>1, ReadRowWindow
<1>3. Waiting' = Waiting /\ taken' = taken
  BY ONLY <1>1, <1>2 DEF Waiting, taken
<1>4. CASE frame.first[row] /\ buf'.prev_start = buf.current_start
  <2>1. buf'.prev_start = buf.current_start /\ buf.current_start \in Nat
    BY <1>1, <1>4 DEF BufType
  <2>2. Behind' = 0
    BY ONLY <1>2, <2>1 DEF Behind
  <2>3. (Behind = 0 => Above = << >>)'
    BY WindowContents, PTL
  <2> QED BY <1>1, <1>3, <1>4, <2>2, <2>3 DEF Queue!ReadRow
<1>5. CASE (~ frame.first[row] \/ OnePass(frame)) /\ buf' = buf
  <2>1. Above' = Above
    BY <1>5 DEF Above
  <2>2. ~ frame.first[row] \/ Queue!OnePass
    BY <1>5 DEF OnePass, Queue!OnePass
  <2> QED BY <1>1, <1>3, <2>1, <2>2 DEF Queue!ReadRow
<1> QED BY <1>2, <1>4, <1>5

LEMMA QueueInit == Init => Queue!Init
<1> SUFFICES ASSUME Init PROVE Queue!Init
  OBVIOUS
<1>1. EmptyWindow
  BY DEF Init, EmptyBuffer, EmptyWindow
<1>2. Waiting = << >> /\ Above = << >>
  BY <1>1, EmptyQueue
<1>3. taken = 0
  BY DEF Init, EmptyBuffer, taken
<1> QED BY <1>2, <1>3 DEF Init, Queue!Init

LEMMA QueueStep == IInv /\ IInv' /\ [Next]_vars => [Queue!Next]_Queue!vars
<1> SUFFICES ASSUME IInv, IInv', [Next]_vars PROVE [Queue!Next]_Queue!vars
  OBVIOUS
<1>1. CASE StartFrame
  BY <1>1, StartFrameStarts DEF Queue!Next
<1>2. CASE ReadRow
  BY <1>2, ReadRowReads DEF Queue!Next
<1>3. CASE Decompress
  BY <1>3, DecompressArrives DEF Queue!Next
<1>4. CASE Finish
  BY <1>4, FinishArrives DEF Queue!Next
<1>5. CASE Interrupt
  BY <1>5, InterruptArrives DEF Queue!Next
<1>6. CASE AssertionFails \/ NoMoreImageData \/ UnknownFilterMethod
  BY <1>6, FailureArrives DEF Queue!Next
<1>7. CASE UnfilterCurrRow
  BY <1>7, UnfilterDelivers DEF Queue!Next
<1>8. CASE FinishDecoding \/ UNCHANGED vars
  BY <1>8 DEF FinishDecoding, vars, Queue!vars, Waiting, Above, taken
<1> QED BY <1>1, <1>2, <1>3, <1>4, <1>5, <1>6, <1>7, <1>8 DEF Next

\* WindowIsQueue: for every size of the window and of its steps, every frame layout and
\* every compressed stream, the vector that is shifted, grown, truncated and rewritten in
\* place behaves like a plain queue of rows: each step of it is a step of RowQueue, or
\* changes nothing that RowQueue can see.
THEOREM WindowImplementsQueue == Spec => WindowIsQueue
<1>1. Init => Queue!Init
  BY QueueInit
<1>2. IInv /\ IInv' /\ [Next]_vars => [Queue!Next]_Queue!vars
  BY QueueStep
<1>3. Spec => []IInv
  BY Inductive
<1> QED BY <1>1, <1>2, <1>3, PTL DEF Spec, WindowIsQueue, Queue!Spec
=============================================================================
