------------------------- MODULE StreamWriter_proofs -------------------------
(* Proofs about Writer and StreamWriter, for any frames, sizes of chunks and    *)
(* buffers, compressors, sequence of calls and failures of the sink: the file   *)
(* is as PngFile says.  An operator of the model takes a state, a record m, to  *)
(* the states a call may end in; so the invariant is about such records, and    *)
(* there is one lemma per operator.                                             *)
EXTENDS StreamWriter, FiniteSetTheorems, WellFoundedInduction, SequenceTheorems, TLAPS

------------------------------------------------------------------------------
(* The invariant.                                                               *)

FrameControl == [sequence_number : Nat, width : Nat, x_offset : Nat]

WriterType ==
  [num_frames : Nat, sep_def_img : BOOLEAN, validate_sequence : BOOLEAN,
   compression : {"Flate2", "FDeflate"}, frame_control : FrameControl,
   images_written : Nat, animation_written : Nat, iend_written : BOOLEAN]

StreamType ==
  [wrapper : {"None", "Chunk", "Flate2", "FDeflate", "Unrecoverable"}, buffer : Seq(Nat),
   prefix : Nat \cup {NoSeq}, size : Nat, curr_chunk : {"IDAT", "fdAT"}, emitted : Nat,
   index : Nat, line_len : Nat, to_write : Nat, fctl : FrameControl]

ChunkTypes ==
  {"IHDR", "pHYs", "sRGB", "gAMA", "cHRM", "iCCP", "eXIf", "acTL", "PLTE", "tRNS", "tEXt",
   "fcTL", "IDAT", "fdAT", "IEND"}

WrittenTexts ==
  { TextChunk(text.given, text.data.value) : text \in { t \in Encoded : t.data.ok } }

ChunkType ==
  [type : ChunkTypes, image : Nat, seq : Nat \cup {NoSeq}, frame : FrameControl, data : Seq(Nat)]
    \cup WrittenTexts

State ==
  [writer : WriterType, out : Seq(ChunkType), failed : BOOLEAN,
   result : {"ok", "err", "panic", "none"}, stream : StreamType, image : Nat]

Fits(fctl) == is_some(fctl) => fctl.x_offset + fctl.width <= Width

\* the sequence number that is free: one may be in the buffer already
NextFree(m) == File!Numbered(m.out) + (IF m.stream.prefix = NoSeq THEN 0 ELSE 1)

NumbersKept(m) ==
  /\ is_some(m.writer.frame_control) => /\ m.writer.frame_control.sequence_number = NextFree(m)
                                        /\ m.writer.animation_written < m.writer.num_frames
  /\ m.stream.prefix # NoSeq => m.stream.prefix = File!Numbered(m.out)

BufferKept(m) ==
  \A k \in DOMAIN m.stream.buffer : m.stream.buffer[k] = File!Reached(m.image, m.out) + k

\* What is true in every state, in the middle of a call too.
Sound(m) ==
  /\ m \in State
  /\ Fits(m.writer.frame_control) /\ Fits(m.stream.fctl)
  /\ \A i \in DOMAIN m.out : m.out[i].image <= m.image
  /\ ~ m.failed => NumbersKept(m) /\ BufferKept(m)

\* The file has its header and is not yet closed.
Open(m) ==
  /\ ~ m.writer.iend_written /\ "IEND" \notin File!Types(m.out)
  /\ ~ m.failed => m.out # << >>

Live(m) == Sound(m) /\ Open(m)

\* The bytes that the compressor has handed on are in the sink or in the buffer, which has room.
Tally(m) == ~ m.failed => m.stream.emitted = File!Reached(m.image, m.out) + Len(m.stream.buffer)
Room(m)  == m.stream.size > 4 /\ (~ m.failed => used(m) < m.stream.size)

Emitting(m) == Live(m) /\ Tally(m) /\ Room(m)

\* Rows end where the frame ends, and as long as one is missing there is a compressor for it.
Rows(m) ==
  ~ m.failed =>
    /\ m.stream.line_len > 0 /\ m.stream.index < m.stream.line_len
    /\ \E rows \in 0 .. Height : m.stream.to_write + m.stream.index = rows * m.stream.line_len
    /\ m.stream.to_write > 0 => Compressing(m)
    /\ is_some(m.stream.fctl) => is_some(m.writer.frame_control)

\* What the theorems ask of the chunk buffers: room for data behind the four bytes of a sequence
\* number.  stream_writer_with_size takes smaller ones too, with which a stream may panic or fail
\* though the sink has taken everything.
BuffersHoldData == \A len \in BufLens : len > 4

IInv ==
  /\ BuffersHoldData
  /\ Sound(Here)
  /\ user \in {"encoder", "writer", "borrowed", "owned", "gone"}
  /\ result \in {"ok", "err", "panic", "none"} /\ streams \in Nat
  /\ user = "encoder" => /\ out = << >> /\ ~ failed /\ image = 0 /\ stream = NoStream
                         /\ ~ writer.iend_written /\ writer.animation_written = 0
  /\ user = "writer" => stream = NoStream /\ Open(Here)
  /\ Streaming => Emitting(Here) /\ Rows(Here) /\ image # 0
  /\ result = "panic" => failed /\ user = "gone"

------------------------------------------------------------------------------
(* Induction: a non-empty set of numbers has a least one, since the subsets of  *)
(* a finite set are well-founded.                                               *)

LEMMA Least ==
  ASSUME NEW S \in SUBSET Nat, S # {}
  PROVE  \E m \in S : \A n \in S : m <= n
<1>1. PICK b \in S : TRUE
  OBVIOUS
<1> DEFINE U == 0 .. b
           T == { X \in SUBSET U : \E k \in S : k <= b /\ X = 0 .. k }
<1>2. IsFiniteSet(U) /\ FiniteSubsetsOf(U) = SUBSET U
  <2>1. IsFiniteSet(U)
    BY FS_Interval
  <2> QED BY <2>1, FS_FiniteSubsetsOfFinite
<1>3. IsWellFoundedOn(StrictSubsetOrdering(U), SUBSET U)
  BY <1>2, FS_StrictSubsetOrderingWellFounded
<1>4. T \subseteq SUBSET U /\ T # {}
  <2>1. U \in SUBSET U /\ b \in S /\ b <= b /\ U = 0 .. b
    BY <1>1
  <2>2. U \in T
    BY <2>1
  <2> QED BY <2>2
<1>5. PICK X \in T : \A Y \in T : ~ (<<Y, X>> \in StrictSubsetOrdering(U))
  <2> HIDE DEF T, U
  <2> QED BY <1>3, <1>4, WFMin
<1>6. PICK k \in S : k <= b /\ X = 0 .. k
  BY <1>5
<1>7. ASSUME NEW n \in S, ~ (k <= n) PROVE FALSE
  <2>1. 0 .. n \in T
    BY <1>1, <1>6, <1>7
  <2>2. 0 .. n \subseteq X /\ 0 .. n # X
    BY <1>6, <1>7
  <2>3. <<0 .. n, X>> \in StrictSubsetOrdering(U)
    BY <2>1, <2>2, <1>4, <1>5 DEF StrictSubsetOrdering
  <2> QED BY <2>1, <2>3, <1>5
<1> QED BY <1>6, <1>7

LEMMA Induction ==
  ASSUME NEW N \in Nat, NEW S, 0 \in S, \A n \in 1 .. N : n - 1 \in S => n \in S
  PROVE  0 .. N \subseteq S
<1> SUFFICES ASSUME NEW n \in 0 .. N, n \notin S PROVE FALSE
  OBVIOUS
<1> DEFINE T == { k \in 0 .. N : k \notin S }
<1>1. PICK k \in T : \A j \in T : k <= j
  <2>1. T \in SUBSET Nat /\ T # {}
    OBVIOUS
  <2> HIDE DEF T
  <2> QED BY <2>1, Least
<1>2. k \in 1 .. N /\ k - 1 \notin T
  BY <1>1
<1> QED BY <1>1, <1>2

\* The greatest of some numbers up to a bound, 0 if there are none.
LEMMA Greatest ==
  ASSUME NEW N \in Nat, NEW S \in SUBSET (1 .. N)
  PROVE  \E m \in {0} \cup S : \A n \in S : n <= m
<1> DEFINE T == { b \in 0 .. N : \A n \in S : n <= b }
<1>1. PICK m \in T : \A b \in T : m <= b
  <2>1. T \in SUBSET Nat /\ N \in T
    OBVIOUS
  <2> HIDE DEF T
  <2> QED BY <2>1, Least
<1>2. CASE m = 0
  BY <1>1, <1>2
<1>3. CASE m # 0 /\ m \notin S
  <2>1. \A n \in S : n <= m - 1
    BY <1>1, <1>3
  <2>2. m - 1 \in T
    BY <1>1, <1>3, <2>1
  <2> QED BY <1>1, <2>2
<1> QED BY <1>1, <1>2, <1>3

------------------------------------------------------------------------------
(* The file.                                                                    *)

LEMMA ChunkFields ==
  ASSUME NEW c \in ChunkType
  PROVE  c.image \in Nat /\ c.seq \in Nat \cup {NoSeq} /\ c.data \in Seq(Nat)
<1>1. CASE c \in WrittenTexts
  <2>1. PICK text \in Encoded : c = TextChunk(text.given, text.data.value)
    BY <1>1 DEF WrittenTexts
  <2> QED BY <2>1 DEF TextChunk
<1>2. CASE c \notin WrittenTexts
  BY <1>2 DEF ChunkType
<1> QED BY <1>1, <1>2

LEMMA AppendFacts ==
  ASSUME NEW file \in Seq(ChunkType), NEW c \in ChunkType
  PROVE  LET longer == Append(file, c) IN
         /\ longer \in Seq(ChunkType) /\ Len(longer) = Len(file) + 1
         /\ DOMAIN longer = DOMAIN file \cup {Len(file) + 1} /\ DOMAIN file = 1 .. Len(file)
         /\ \A i \in 1 .. Len(file) : longer[i] = file[i]
         /\ longer[Len(file) + 1] = c
         /\ SubSeq(longer, 1, Len(file)) = file
  OBVIOUS

Marked(file) == { i \in DOMAIN file : file[i].seq >= 0 }

LEMMA NumberedIs == \A file : File!Numbered(file) = Cardinality(Marked(file))
<1>1. \A S : File!Cardinality(S) = Cardinality(S)
  BY DEF File!Cardinality, Cardinality
<1> QED BY <1>1 DEF File!Numbered, Marked

LEMMA NumberedAppend ==
  ASSUME NEW file \in Seq(ChunkType), NEW c \in ChunkType
  PROVE  /\ File!Numbered(file) \in Nat
         /\ File!Numbered(Append(file, c)) =
              File!Numbered(file) + (IF c.seq = NoSeq THEN 0 ELSE 1)
<1> DEFINE longer == Append(file, c)
           S == Marked(file)
           T == Marked(longer)
<1>1. IsFiniteSet(S) /\ Cardinality(S) \in Nat
  <2>1. IsFiniteSet(1 .. Len(file))
    BY FS_Interval
  <2>2. S \in SUBSET (1 .. Len(file))
    BY DEF Marked
  <2>3. IsFiniteSet(S)
    BY <2>1, <2>2, FS_Subset
  <2> HIDE DEF S
  <2> QED BY <2>3, FS_CardinalityType
<1>2. /\ DOMAIN longer = DOMAIN file \cup {Len(file) + 1} /\ DOMAIN file = 1 .. Len(file)
      /\ \A i \in 1 .. Len(file) : longer[i] = file[i]
      /\ longer[Len(file) + 1] = c
  OBVIOUS
<1>3. c.seq = NoSeq \/ c.seq \in Nat
  BY ChunkFields
<1>4. CASE c.seq = NoSeq
  <2>1. T = S
    BY <1>2, <1>4 DEF NoSeq, Marked
  <2>2. File!Numbered(file) = Cardinality(S) /\ File!Numbered(longer) = Cardinality(T)
    BY NumberedIs
  <2> HIDE DEF S, T
  <2> QED BY <1>1, <1>4, <2>1, <2>2
<1>5. CASE c.seq # NoSeq
  <2>1. T = S \cup {Len(file) + 1} /\ Len(file) + 1 \notin S
    BY <1>2, <1>3, <1>5 DEF Marked
  <2>2. Cardinality(S \cup {Len(file) + 1}) = Cardinality(S) + 1
    <3> HIDE DEF S
    <3> QED BY <1>1, <2>1, FS_AddElement
  <2>3. File!Numbered(file) = Cardinality(S) /\ File!Numbered(longer) = Cardinality(T)
    BY NumberedIs
  <2> HIDE DEF S, T
  <2> QED BY <1>1, <1>5, <2>1, <2>2, <2>3
<1> QED BY <1>4, <1>5

LEMMA TypesAppend ==
  ASSUME NEW file \in Seq(ChunkType), NEW c \in ChunkType
  PROVE  File!Types(Append(file, c)) = File!Types(file) \cup {c.type}
BY AppendFacts DEF File!Types

\* the last data chunk of an image
LastOf(img, file) ==
  CHOOSE i \in {0} \cup File!DataChunks(img, file) : \A j \in File!DataChunks(img, file) : j <= i

LEMMA LastIs ==
  ASSUME NEW file \in Seq(ChunkType), NEW img \in Nat
  PROVE  /\ LastOf(img, file) \in {0} \cup File!DataChunks(img, file)
         /\ \A j \in File!DataChunks(img, file) : j <= LastOf(img, file)
         /\ LastOf(img, file) \in 0 .. Len(file)
         /\ File!Reached(img, file) =
              IF LastOf(img, file) = 0 THEN 0
              ELSE file[LastOf(img, file)].data[Len(file[LastOf(img, file)].data)]
         /\ File!Reached(img, file) \in Nat
<1> DEFINE S == File!DataChunks(img, file)
<1>1. S \in SUBSET (1 .. Len(file)) /\ Len(file) \in Nat
  BY DEF File!DataChunks
<1>2. \E m \in {0} \cup S : \A n \in S : n <= m
  <2> HIDE DEF S
  <2> QED BY <1>1, Greatest
<1>3. LastOf(img, file) \in {0} \cup S /\ \A j \in S : j <= LastOf(img, file)
  BY <1>2 DEF LastOf
<1>4. File!Reached(img, file) =
        IF LastOf(img, file) = 0 THEN 0
        ELSE file[LastOf(img, file)].data[Len(file[LastOf(img, file)].data)]
  BY DEF File!Reached, LastOf
<1>5. File!Reached(img, file) \in Nat
  <2>1. CASE LastOf(img, file) = 0
    BY <1>4, <2>1
  <2>2. CASE LastOf(img, file) # 0
    <3> DEFINE data == file[LastOf(img, file)].data
    <3>1. data \in Seq(Nat) /\ data # << >>
      BY <1>1, <1>3, <2>2, ChunkFields DEF File!DataChunks
    <3>2. data[Len(data)] \in Nat
      BY <3>1
    <3> QED BY <1>4, <2>2, <3>2
  <2> QED BY <2>1, <2>2
<1> QED BY <1>1, <1>3, <1>4, <1>5

LEMMA ReachedAppend ==
  ASSUME NEW file \in Seq(ChunkType), NEW c \in ChunkType, NEW img \in Nat
  PROVE  File!Reached(img, Append(file, c)) =
           IF c.image = img /\ c.data # << >> THEN c.data[Len(c.data)] ELSE File!Reached(img, file)
<1> DEFINE longer == Append(file, c)
           S == File!DataChunks(img, file)
           T == File!DataChunks(img, longer)
<1>1. /\ DOMAIN longer = DOMAIN file \cup {Len(file) + 1} /\ DOMAIN file = 1 .. Len(file)
      /\ \A i \in 1 .. Len(file) : longer[i] = file[i]
      /\ longer[Len(file) + 1] = c /\ longer \in Seq(ChunkType)
  OBVIOUS
<1>2. CASE c.image = img /\ c.data # << >>
  <2>1. T = S \cup {Len(file) + 1} /\ S \subseteq 1 .. Len(file)
    BY <1>1, <1>2 DEF File!DataChunks
  <2>2. LastOf(img, longer) = Len(file) + 1
    <3>1. Len(longer) = Len(file) + 1 /\ Len(file) \in Nat
      OBVIOUS
    <3>2. LastOf(img, longer) \in 0 .. Len(longer) /\ \A j \in T : j <= LastOf(img, longer)
      <4> HIDE DEF longer
      <4> QED BY <1>1, LastIs
    <3>3. Len(file) + 1 \in T
      BY <2>1
    <3>4. Len(file) + 1 <= LastOf(img, longer) /\ LastOf(img, longer) \in 0 .. Len(file) + 1
      BY <3>1, <3>2, <3>3
    <3> HIDE DEF longer
    <3> QED BY <3>1, <3>4
  <2>3. Len(file) + 1 # 0
    OBVIOUS
  <2>4. File!Reached(img, longer) =
          IF LastOf(img, longer) = 0 THEN 0
          ELSE longer[LastOf(img, longer)].data[Len(longer[LastOf(img, longer)].data)]
    <3> HIDE DEF longer
    <3> QED BY <1>1, LastIs
  <2> HIDE DEF longer
  <2>5. File!Reached(img, longer) = c.data[Len(c.data)]
    BY <1>1, <2>2, <2>3, <2>4
  <2> QED BY <1>2, <2>5 DEF longer
<1>3. CASE ~ (c.image = img /\ c.data # << >>)
  <2>1. T = S
    BY <1>1, <1>3 DEF File!DataChunks
  <2>2. LastOf(img, longer) = LastOf(img, file)
    BY <2>1 DEF LastOf
  <2>3. LastOf(img, file) # 0 => longer[LastOf(img, file)] = file[LastOf(img, file)]
    BY <1>1, LastIs
  <2>4. File!Reached(img, file) =
          IF LastOf(img, file) = 0 THEN 0
          ELSE file[LastOf(img, file)].data[Len(file[LastOf(img, file)].data)]
    BY LastIs
  <2>5. File!Reached(img, longer) =
          IF LastOf(img, longer) = 0 THEN 0
          ELSE longer[LastOf(img, longer)].data[Len(longer[LastOf(img, longer)].data)]
    <3> HIDE DEF longer
    <3> QED BY <1>1, LastIs
  <2>6. File!Reached(img, longer) = File!Reached(img, file)
    <3> HIDE DEF longer
    <3> QED BY <2>2, <2>3, <2>4, <2>5
  <2> QED BY <1>3, <2>6
<1> QED BY <1>2, <1>3
------------------------------------------------------------------------------
(* What a step of a call does to the file, and what it leaves alone.            *)

\* The chunks that are in s and not in m may follow those in m, one after the other; and where
\* an image has been started, it stays so.
Grown(m, s) ==
  /\ Len(m.out) <= Len(s.out) /\ SubSeq(s.out, 1, Len(m.out)) = m.out
  /\ m.failed => s.failed
  /\ m.image # 0 => s.image # 0
  /\ \A n \in Len(m.out) + 1 .. Len(s.out) :
       File!MayFollow(SubSeq(s.out, 1, n - 1), s.out[n], s.failed)

\* s differs from m in the file, the chunk buffer and the next sequence number only.
Same(m, s) ==
  /\ s.image = m.image
  /\ s.stream.wrapper = m.stream.wrapper /\ s.stream.size = m.stream.size
  /\ s.stream.curr_chunk = m.stream.curr_chunk /\ s.stream.index = m.stream.index
  /\ s.stream.line_len = m.stream.line_len /\ s.stream.to_write = m.stream.to_write
  /\ s.stream.fctl = m.stream.fctl
  /\ s.writer.num_frames = m.writer.num_frames /\ s.writer.sep_def_img = m.writer.sep_def_img
  /\ s.writer.validate_sequence = m.writer.validate_sequence
  /\ s.writer.compression = m.writer.compression
  /\ s.writer.frame_control.width = m.writer.frame_control.width
  /\ s.writer.frame_control.x_offset = m.writer.frame_control.x_offset
  /\ s.writer.images_written = m.writer.images_written
  /\ s.writer.animation_written = m.writer.animation_written
  /\ s.writer.iend_written = m.writer.iend_written

\* A step that is no end of the call, or one because the sink refused something.
Ends(s) == s.result = "ok" \/ (s.result = "err" /\ s.failed)

LEMMA GrownSelf ==
  ASSUME NEW m, NEW s, m.out \in Seq(ChunkType), s.out = m.out, m.failed => s.failed,
         m.image # 0 => s.image # 0
  PROVE  Grown(m, s)
<1>1. SubSeq(s.out, 1, Len(m.out)) = m.out /\ Len(m.out) \in Nat
  OBVIOUS
<1> QED BY <1>1 DEF Grown

LEMMA GrownOne ==
  ASSUME NEW m, NEW s, NEW c \in ChunkType, m.out \in Seq(ChunkType), s.out = Append(m.out, c),
         m.failed => s.failed, m.image # 0 => s.image # 0, File!MayFollow(m.out, c, s.failed)
  PROVE  Grown(m, s)
<1>1. /\ Len(s.out) = Len(m.out) + 1 /\ Len(m.out) \in Nat
      /\ s.out[Len(m.out) + 1] = c /\ SubSeq(s.out, 1, Len(m.out)) = m.out
  BY AppendFacts
<1>2. ASSUME NEW n \in Len(m.out) + 1 .. Len(s.out)
      PROVE  File!MayFollow(SubSeq(s.out, 1, n - 1), s.out[n], s.failed)
  <2>1. n = Len(m.out) + 1 /\ n - 1 = Len(m.out)
    BY <1>1
  <2> QED BY <1>1, <2>1
<1> QED BY <1>1, <1>2 DEF Grown

LEMMA GrownTransitive ==
  ASSUME NEW m, NEW s, NEW t,
         m.out \in Seq(ChunkType), s.out \in Seq(ChunkType), t.out \in Seq(ChunkType),
         Grown(m, s), Grown(s, t)
  PROVE  Grown(m, t)
<1> DEFINE a == Len(m.out)
           b == Len(s.out)
           c == Len(t.out)
<1>1. a \in Nat /\ b \in Nat /\ c \in Nat /\ a <= b /\ b <= c
  BY DEF Grown
<1>2. SubSeq(s.out, 1, a) = m.out /\ SubSeq(t.out, 1, b) = s.out
  BY DEF Grown
<1>3. ASSUME NEW n \in 0 .. b PROVE SubSeq(s.out, 1, n) = SubSeq(t.out, 1, n)
  <2>1. SubSeq(SubSeq(t.out, 1, b), 1, n) = SubSeq(t.out, 1, n)
    <3>1. n \in 0 .. Len(s.out) /\ Len(s.out) <= Len(t.out)
      BY <1>1
    <3> QED BY <1>1, <1>2, <3>1
  <2> QED BY <1>2, <2>1
<1>4. SubSeq(t.out, 1, a) = m.out
  BY <1>1, <1>2, <1>3
<1>5. ASSUME NEW n \in a + 1 .. c
      PROVE  File!MayFollow(SubSeq(t.out, 1, n - 1), t.out[n], t.failed)
  <2>1. CASE n <= b
    <3>1. File!MayFollow(SubSeq(s.out, 1, n - 1), s.out[n], s.failed)
      BY <1>1, <2>1 DEF Grown
    <3>2. SubSeq(s.out, 1, n - 1) = SubSeq(t.out, 1, n - 1)
      BY <1>1, <1>3, <2>1
    <3>3. s.out[n] = t.out[n]
      BY <1>1, <1>2, <2>1
    <3>4. s.failed => t.failed
      BY DEF Grown
    <3>5. File!MayFollow(SubSeq(t.out, 1, n - 1), t.out[n], s.failed)
      BY <3>1, <3>2, <3>3
    <3> QED BY <3>4, <3>5 DEF File!MayFollow
  <2>2. CASE n > b
    BY <1>1, <2>2 DEF Grown
  <2> QED BY <1>1, <2>1, <2>2
<1> QED BY <1>1, <1>4, <1>5 DEF Grown

\* States that differ in the result only.
Twins(m, s) ==
  /\ s \in State /\ m \in State
  /\ s.writer = m.writer /\ s.out = m.out /\ s.failed = m.failed
  /\ s.stream = m.stream /\ s.image = m.image

LEMMA TwinFacts ==
  ASSUME NEW m, NEW s, Twins(m, s)
  PROVE  /\ Grown(m, s) /\ Same(m, s) /\ s.stream.emitted = m.stream.emitted
         /\ Sound(m) <=> Sound(s)
         /\ Open(m) <=> Open(s)
         /\ Tally(m) <=> Tally(s)
         /\ Room(m) <=> Room(s)
         /\ Rows(m) <=> Rows(s)
         /\ Compressing(m) <=> Compressing(s)
<1>1. Grown(m, s)
  BY GrownSelf DEF Twins, State
<1>2. Same(m, s) /\ s.stream.emitted = m.stream.emitted
  BY DEF Twins, Same
<1>3. /\ NumbersKept(m) <=> NumbersKept(s)
      /\ BufferKept(m) <=> BufferKept(s)
      /\ used(m) = used(s) /\ (Compressing(m) <=> Compressing(s))
  BY DEF Twins, NumbersKept, BufferKept, NextFree, used, Compressing
<1>4. Sound(m) <=> Sound(s)
  BY <1>3 DEF Twins, Sound
<1>5. (Open(m) <=> Open(s)) /\ (Tally(m) <=> Tally(s)) /\ (Room(m) <=> Room(s))
  BY <1>3 DEF Twins, Open, Tally, Room
<1>6. Rows(m) <=> Rows(s)
  BY <1>3 DEF Twins, Rows
<1> QED BY <1>1, <1>2, <1>3, <1>4, <1>5, <1>6

LEMMA ResultTwins ==
  ASSUME NEW m \in State, NEW r \in {"ok", "err", "panic", "none"}
  PROVE  Twins(m, [m EXCEPT !.result = r]) /\ [m EXCEPT !.result = r].result = r
BY DEF Twins, State

\* The sink refuses: little is promised from then on.
LEMMA SinkRefuses ==
  ASSUME NEW m, Sound(m)
  PROVE  /\ Sound(Fail(m)) /\ Grown(m, Fail(m)) /\ Same(m, Fail(m))
         /\ Open(m) => Open(Fail(m))
         /\ Tally(Fail(m)) /\ Rows(Fail(m))
         /\ Fail(m).failed /\ Fail(m).result = "err" /\ Fail(m).stream = m.stream
         /\ Fail(m).writer = m.writer /\ Fail(m).out = m.out
<1>1. /\ Fail(m) \in State /\ Fail(m).failed /\ Fail(m).result = "err"
      /\ Fail(m).writer = m.writer /\ Fail(m).out = m.out /\ Fail(m).stream = m.stream
      /\ Fail(m).image = m.image /\ m.out \in Seq(ChunkType)
  BY DEF Sound, State, Fail
<1>2. Grown(m, Fail(m))
  BY <1>1, GrownSelf
<1>3. Sound(Fail(m)) /\ (Open(m) => Open(Fail(m))) /\ Tally(Fail(m)) /\ Rows(Fail(m))
  BY <1>1 DEF Sound, Open, Tally, Rows
<1> QED BY <1>1, <1>2, <1>3 DEF Same
------------------------------------------------------------------------------
(* The chunk buffer.                                                            *)

\* Whether the chunk may follow, in a file that is open and a state that has not failed.
Suits(m, c) ==
  /\ c.type \notin {"IHDR", "IEND"}
  /\ c.seq # NoSeq => c.seq = File!Numbered(m.out)
  /\ c.type = "fcTL" => Fits(c.frame) /\ is_some(c.frame)
  /\ c.image > 0 => c.image >= m.image
  /\ \A k \in DOMAIN c.data : c.data[k] = File!Reached(c.image, m.out) + k

LEMMA SuitsFollows ==
  ASSUME NEW m, m \in State, Open(m), \A i \in DOMAIN m.out : m.out[i].image <= m.image,
         NEW c \in ChunkType, ~ m.failed => Suits(m, c)
  PROVE  \A b \in BOOLEAN : (m.failed => b) => File!MayFollow(m.out, c, b)
<1>1. ASSUME ~ m.failed
      PROVE  /\ File!HeaderFirst(m.out, c) /\ File!TakesNextNumber(m.out, c)
             /\ File!FrameInImage(c) /\ File!ContinuesImage(m.out, c)
  <2>1. File!HeaderFirst(m.out, c)
    BY <1>1 DEF File!HeaderFirst, Suits, Open
  <2>2. File!TakesNextNumber(m.out, c)
    BY <1>1 DEF File!TakesNextNumber, Suits, NoSeq
  <2>3. File!FrameInImage(c)
    BY <1>1 DEF File!FrameInImage, Suits, Fits, is_some
  <2>4. ASSUME c.image > 0 PROVE \A i \in DOMAIN m.out : m.out[i].image <= c.image
    <3>1. m.image \in Nat /\ c.image \in Nat /\ c.image >= m.image
      BY <1>1, <2>4, ChunkFields DEF Suits, State
    <3>2. \A i \in DOMAIN m.out : m.out[i].image <= m.image
      OBVIOUS
    <3>3. \A i \in DOMAIN m.out : m.out[i].image \in Nat
      BY ChunkFields DEF State
    <3> QED BY <3>1, <3>2, <3>3
  <2>5. File!ContinuesImage(m.out, c)
    BY <1>1, <2>4 DEF File!ContinuesImage, Suits
  <2> QED BY <2>1, <2>2, <2>3, <2>5
<1>2. "IEND" \notin File!Types(m.out)
  BY DEF Open
<1> QED BY <1>1, <1>2 DEF File!MayFollow, State

\* What is in the buffer, written as a chunk.
LEMMA BufferedSuits ==
  ASSUME NEW m, Live(m)
  PROVE  /\ BufferedChunk(m) \in ChunkType
         /\ ~ m.failed => Suits(m, BufferedChunk(m))
         /\ BufferedChunk(m).image = m.image /\ BufferedChunk(m).data = m.stream.buffer
         /\ BufferedChunk(m).seq = m.stream.prefix /\ BufferedChunk(m).type \in {"IDAT", "fdAT"}
<1> DEFINE c == BufferedChunk(m)
<1>1. /\ c.type \in {"IDAT", "fdAT"} /\ c.image = m.image /\ c.seq = m.stream.prefix
      /\ c.frame = NoFrameControl /\ c.data = m.stream.buffer
  BY DEF BufferedChunk, Chunk, Live, Sound, State, StreamType
<1>2. NoFrameControl \in FrameControl
  BY DEF NoFrameControl, FrameControl
<1>3. m.image \in Nat /\ m.stream.prefix \in Nat \cup {NoSeq} /\ m.stream.buffer \in Seq(Nat)
  BY DEF Live, Sound, State, StreamType
<1>4. c \in ChunkType
  BY <1>1, <1>2, <1>3 DEF BufferedChunk, Chunk, ChunkType, ChunkTypes
<1>5. ASSUME ~ m.failed PROVE Suits(m, c)
  BY <1>1, <1>3, <1>5 DEF Suits, Live, Sound, NumbersKept, BufferKept
<1> QED BY <1>1, <1>4, <1>5

\* The state behind flush_inner.
Flushed(m) ==
  [[m EXCEPT !.out = Append(@, BufferedChunk(m))]
     EXCEPT !.stream.buffer = << >>, !.stream.prefix = NoSeq]

LEMMA FlushedFacts ==
  ASSUME NEW m, Live(m)
  PROVE  LET s == Flushed(m) IN
         /\ Live(s) /\ Grown(m, s) /\ Same(m, s) /\ s.result = m.result /\ s.failed = m.failed
         /\ s.stream.emitted = m.stream.emitted
         /\ Tally(m) => Tally(s)
         /\ s.stream.buffer = << >> /\ s.stream.prefix = NoSeq
         /\ s.writer = m.writer /\ s.out = Append(m.out, BufferedChunk(m))
<1> DEFINE s == Flushed(m)
           c == BufferedChunk(m)
<1>1. m \in State /\ m.out \in Seq(ChunkType) /\ c \in ChunkType /\ m.stream \in StreamType
  BY BufferedSuits DEF Live, Sound, State
<1>2. /\ s.writer = m.writer /\ s.out = Append(m.out, c) /\ s.failed = m.failed
      /\ s.result = m.result /\ s.image = m.image
      /\ s.stream = [m.stream EXCEPT !.buffer = << >>, !.prefix = NoSeq]
  BY <1>1 DEF Flushed, State
<1>3. /\ s.stream \in StreamType /\ s.stream.buffer = << >> /\ s.stream.prefix = NoSeq
      /\ s.stream.emitted = m.stream.emitted
  <2>1. << >> \in Seq(Nat) /\ NoSeq \in Nat \cup {NoSeq}
    OBVIOUS
  <2> QED BY <1>1, <1>2, <2>1 DEF StreamType
<1>4. Append(m.out, c) \in Seq(ChunkType)
  BY <1>1
<1>5. s \in State
  BY <1>1, <1>3, <1>4 DEF Flushed, State
<1>6. Same(m, s)
  BY <1>1, <1>2 DEF Same, StreamType
<1>7. Grown(m, s)
  BY <1>1, <1>2, BufferedSuits, SuitsFollows, GrownOne DEF Live, Sound, State
<1> HIDE DEF s
<1>8. \A i \in DOMAIN s.out : s.out[i].image <= s.image
  <2>1. c.image = m.image /\ m.image \in Nat /\ Append(m.out, c)[Len(m.out) + 1] = c
    BY <1>1, BufferedSuits DEF State
  <2>2. DOMAIN s.out = DOMAIN m.out \cup {Len(m.out) + 1}
        /\ \A i \in DOMAIN m.out : s.out[i] = m.out[i]
    BY <1>1, <1>2, AppendFacts
  <2>3. \A i \in DOMAIN m.out : m.out[i].image <= m.image
    BY DEF Live, Sound
  <2> HIDE DEF c
  <2> QED BY <1>2, <2>1, <2>2, <2>3
<1>9. File!Numbered(s.out) = NextFree(m) /\ NextFree(s) = NextFree(m)
  BY <1>1, <1>2, <1>3, BufferedSuits, NumberedAppend DEF NextFree
<1>10. ~ s.failed => NumbersKept(s) /\ BufferKept(s)
  BY <1>2, <1>3, <1>9 DEF Live, Sound, NumbersKept, BufferKept
<1>11. Sound(s)
  BY <1>2, <1>3, <1>5, <1>8, <1>10 DEF Live, Sound, StreamType
<1>12. Open(s)
  <2>1. s.out # << >>
    BY <1>1, <1>2
  <2>2. File!Types(s.out) = File!Types(m.out) \cup {c.type}
    BY <1>1, <1>2, TypesAppend
  <2>3. c.type # "IEND"
    BY BufferedSuits
  <2> QED BY <1>2, <2>1, <2>2, <2>3 DEF Live, Open
<1>13. ASSUME Tally(m) PROVE Tally(s)
  <2> SUFFICES ASSUME ~ m.failed
               PROVE  s.stream.emitted = File!Reached(s.image, s.out) + Len(s.stream.buffer)
    BY <1>2 DEF Tally
  <2>1. m.image \in Nat /\ File!Reached(m.image, m.out) \in Nat /\ m.stream.buffer \in Seq(Nat)
    BY <1>1, LastIs DEF State, StreamType
  <2>2. File!Reached(m.image, s.out) = File!Reached(m.image, m.out) + Len(m.stream.buffer)
    <3>1. c.image = m.image /\ c.data = m.stream.buffer
      BY BufferedSuits
    <3>2. File!Reached(m.image, s.out) =
            IF m.stream.buffer # << >> THEN m.stream.buffer[Len(m.stream.buffer)]
            ELSE File!Reached(m.image, m.out)
      BY <1>1, <1>2, <2>1, <3>1, ReachedAppend
    <3>3. ASSUME m.stream.buffer # << >>
          PROVE  m.stream.buffer[Len(m.stream.buffer)] =
                   File!Reached(m.image, m.out) + Len(m.stream.buffer)
      BY <2>1, <3>3 DEF Live, Sound, BufferKept
    <3> QED BY <2>1, <3>2, <3>3
  <2> QED BY <1>2, <1>3, <1>13, <2>1, <2>2 DEF Tally
<1> QED BY <1>2, <1>3, <1>6, <1>7, <1>11, <1>12, <1>13 DEF Live, s
Steps(m, s) == Live(s) /\ Grown(m, s) /\ Same(m, s)

LEMMA StepsTransitive ==
  ASSUME NEW m, NEW s, NEW t, Live(m), Steps(m, s), Steps(s, t)
  PROVE  Steps(m, t)
<1>1. m.out \in Seq(ChunkType) /\ s.out \in Seq(ChunkType) /\ t.out \in Seq(ChunkType)
  BY DEF Live, Sound, State, Steps
<1>2. Grown(m, t)
  BY <1>1, GrownTransitive DEF Steps
<1>3. Same(m, t)
  BY DEF Same, Steps
<1> QED BY <1>2, <1>3 DEF Steps

LEMMA TwinSteps ==
  ASSUME NEW m, NEW s, Live(m), Twins(m, s)
  PROVE  Steps(m, s)
BY TwinFacts DEF Steps, Live

LEMMA SelfTwin ==
  ASSUME NEW m, Live(m)
  PROVE  Twins(m, m) /\ Steps(m, m)
<1>1. Twins(m, m)
  BY DEF Twins, Live, Sound
<1> QED BY <1>1, TwinSteps

LEMMA FailSteps ==
  ASSUME NEW m, Live(m)
  PROVE  Steps(m, Fail(m)) /\ Tally(Fail(m)) /\ Rows(Fail(m)) /\ Ends(Fail(m)) /\ Fail(m).failed
         /\ Fail(m).result = "err" /\ Fail(m).stream = m.stream
BY SinkRefuses DEF Steps, Live, Ends

LEMMA UsedIs ==
  ASSUME NEW m, m.stream \in StreamType
  PROVE  /\ used(m) \in Nat
         /\ m.stream.prefix = NoSeq => used(m) = Len(m.stream.buffer)
         /\ m.stream.prefix # NoSeq => used(m) = Len(m.stream.buffer) + 4
         /\ used(m) = 0 <=> m.stream.buffer = << >> /\ m.stream.prefix = NoSeq
<1>1. Len(m.stream.buffer) \in Nat /\ (Len(m.stream.buffer) = 0 <=> m.stream.buffer = << >>)
  BY DEF StreamType
<1>2. CASE m.stream.prefix = NoSeq
  <2>1. used(m) = Len(m.stream.buffer) + 0
    BY <1>2 DEF used
  <2> QED BY <1>1, <1>2, <2>1
<1>3. CASE m.stream.prefix # NoSeq
  <2>1. used(m) = Len(m.stream.buffer) + 4
    BY <1>3 DEF used
  <2> QED BY <1>1, <1>3, <2>1
<1> QED BY <1>2, <1>3

LEMMA FlushInner ==
  ASSUME NEW m, Live(m), m.result = "ok", NEW s \in flush_inner(m)
  PROVE  /\ Steps(m, s) /\ Ends(s) /\ s.stream.emitted = m.stream.emitted
         /\ Tally(m) => Tally(s)
         /\ s.result = "ok" => s.stream.buffer = << >> /\ s.stream.prefix = NoSeq /\ used(s) = 0
<1>1. m.stream \in StreamType
  BY DEF Live, Sound, State
<1>2. \/ used(m) = 0 /\ s = m
      \/ s = Fail(m)
      \/ s = Flushed(m)
  <2>1. CASE used(m) = 0
    BY <2>1 DEF flush_inner
  <2>2. CASE used(m) # 0
    <3>1. PICK x \in WriteChunk(m, BufferedChunk(m)) :
            s \in IF x.result = "ok"
                  THEN {[x EXCEPT !.stream.buffer = << >>, !.stream.prefix = NoSeq]} ELSE {x}
      BY <2>2 DEF flush_inner, Then
    <3>2. x = [m EXCEPT !.out = Append(@, BufferedChunk(m))] \/ x = Fail(m)
      BY DEF WriteChunk
    <3>3. Fail(m).result = "err"
      BY FailSteps
    <3>4. [m EXCEPT !.out = Append(@, BufferedChunk(m))].result = "ok"
      BY DEF Live, Sound, State
    <3> QED BY <3>1, <3>2, <3>3, <3>4 DEF Flushed
  <2> QED BY <2>1, <2>2
<1>3. CASE used(m) = 0 /\ s = m
  <2>1. m.stream.buffer = << >> /\ m.stream.prefix = NoSeq
    BY <1>1, <1>3, UsedIs
  <2> QED BY <1>3, <2>1, SelfTwin DEF Ends
<1>4. CASE s = Fail(m)
  BY <1>4, FailSteps
<1>5. CASE s = Flushed(m)
  <2>1. Steps(m, s) /\ s.result = "ok" /\ s.stream.emitted = m.stream.emitted
        /\ (Tally(m) => Tally(s)) /\ s.stream.buffer = << >> /\ s.stream.prefix = NoSeq
    BY <1>5, FlushedFacts DEF Steps
  <2> QED BY <2>1 DEF Ends, used
<1> QED BY <1>2, <1>3, <1>4, <1>5

\* Drop for ChunkWriter, whatever became of the call before.
LEMMA DropChunkWriter ==
  ASSUME NEW S, \A m \in S : Emitting(m) /\ m.result # "panic", NEW s \in drop_chunk_writer(S)
  PROVE  \E m \in S : /\ Steps(m, s) /\ Emitting(s) /\ s.result = "ok"
                      /\ ~ s.failed => s.stream.prefix = NoSeq
<1>1. PICK i \in Ignore(S) : s \in IF i.result = "ok" THEN Ignore(flush_inner(i)) ELSE {i}
  BY DEF drop_chunk_writer, Then
<1>2. PICK m \in S : i = [m EXCEPT !.result = "ok"]
  BY <1>1 DEF Ignore
<1>a. i.result = "ok"
  BY <1>2 DEF Emitting, Live, Sound, State
<1>3. PICK f \in flush_inner(i) :
        s = IF f.result = "panic" THEN f ELSE [f EXCEPT !.result = "ok"]
  BY <1>1, <1>a DEF Ignore
<1>4. m \in State /\ Live(m) /\ Emitting(m)
  BY <1>2 DEF Emitting, Live, Sound
<1>5. Steps(m, i) /\ Emitting(i) /\ Live(i) /\ i.result = "ok"
  <2>1. Twins(m, i) /\ i.result = "ok"
    BY <1>2, <1>4, ResultTwins
  <2> QED BY <1>4, <2>1, TwinFacts, TwinSteps DEF Steps, Emitting
<1>6. /\ Steps(i, f) /\ Live(f) /\ f \in State /\ Emitting(f) /\ Ends(f)
      /\ ~ f.failed => f.stream.prefix = NoSeq
  <2>1. /\ Steps(i, f) /\ Ends(f) /\ Tally(f)
        /\ f.result = "ok" => f.stream.prefix = NoSeq /\ used(f) = 0
    BY <1>3, <1>5, FlushInner DEF Emitting
  <2>2. f.stream.size > 4 /\ f.stream.size \in Nat
    <3>1. f.stream.size > 4
      BY <1>5, <2>1 DEF Emitting, Room, Steps, Same
    <3>2. f.stream \in StreamType
      BY <2>1 DEF Steps, Live, Sound, State
    <3> QED BY <3>1, <3>2 DEF StreamType
  <2>3. Room(f)
    BY <2>1, <2>2 DEF Room, Ends
  <2> QED BY <2>1, <2>3 DEF Emitting, Steps, Ends, Live, Sound
<1>7. Steps(f, s) /\ Emitting(s) /\ s.result = "ok" /\ s.failed = f.failed /\ s.stream = f.stream
  <2>a. s = [f EXCEPT !.result = "ok"]
    BY <1>3, <1>6 DEF Ends
  <2>1. Twins(f, s) /\ s.result = "ok"
    BY <1>6, <2>a, ResultTwins
  <2> QED BY <1>6, <2>1, TwinFacts, TwinSteps DEF Twins, Emitting, Live
<1>8. Steps(m, s)
  BY <1>4, <1>5, <1>6, <1>7, StepsTransitive
<1> QED BY <1>6, <1>7, <1>8

LEMMA PrefixTaken ==
  ASSUME NEW m, Emitting(m), m.result = "ok"
  PROVE  LET s == TakePrefix(m) IN
         /\ Steps(m, s) /\ Emitting(s) /\ s.result = "ok" /\ s.failed = m.failed
         /\ s.stream.emitted = m.stream.emitted /\ s.stream.buffer = m.stream.buffer
<1>1. CASE ~ (used(m) = 0 /\ TakesFrameControl(m.writer))
  <2>1. TakePrefix(m) = m
    BY <1>1 DEF TakePrefix
  <2> QED BY <2>1, SelfTwin DEF Emitting
<1>2. CASE used(m) = 0 /\ TakesFrameControl(m.writer)
  <2> DEFINE fc == m.writer.frame_control
             s == [m EXCEPT !.stream.prefix = m.writer.frame_control.sequence_number,
                            !.writer.frame_control.sequence_number = @ + 1]
  <2>1. TakePrefix(m) = s
    BY <1>2 DEF TakePrefix
  <2>2. /\ m \in State /\ m.writer \in WriterType /\ m.stream \in StreamType
        /\ fc \in FrameControl /\ m.out \in Seq(ChunkType)
    BY DEF Emitting, Live, Sound, State, WriterType
  <2> DEFINE next == [fc EXCEPT !.sequence_number = @ + 1]
             w == [m.writer EXCEPT !.frame_control = next]
             st == [m.stream EXCEPT !.prefix = fc.sequence_number]
  <2>3. /\ s.out = m.out /\ s.failed = m.failed /\ s.result = m.result /\ s.image = m.image
        /\ s.stream = st /\ s.writer = w
    BY <2>2 DEF State
  <2>a. /\ next \in FrameControl /\ next.sequence_number = fc.sequence_number + 1
        /\ next.width = fc.width /\ next.x_offset = fc.x_offset /\ fc.sequence_number \in Nat
    BY <2>2 DEF FrameControl
  <2>b. /\ w \in WriterType /\ w.frame_control = next
        /\ w.num_frames = m.writer.num_frames /\ w.sep_def_img = m.writer.sep_def_img
        /\ w.validate_sequence = m.writer.validate_sequence
        /\ w.compression = m.writer.compression
        /\ w.images_written = m.writer.images_written
        /\ w.animation_written = m.writer.animation_written
        /\ w.iend_written = m.writer.iend_written
    <3> HIDE DEF next
    <3> QED BY <2>2, <2>a DEF WriterType
  <2>c. /\ st \in StreamType /\ st.prefix = fc.sequence_number
        /\ st.wrapper = m.stream.wrapper /\ st.size = m.stream.size
        /\ st.curr_chunk = m.stream.curr_chunk /\ st.index = m.stream.index
        /\ st.line_len = m.stream.line_len /\ st.to_write = m.stream.to_write
        /\ st.fctl = m.stream.fctl /\ st.buffer = m.stream.buffer
        /\ st.emitted = m.stream.emitted
    <3>1. fc.sequence_number \in Nat \cup {NoSeq}
      BY <2>a
    <3> HIDE DEF fc
    <3> QED BY <2>2, <3>1 DEF StreamType
  <2>4. s \in State
    <3> HIDE DEF w, st
    <3> QED BY <2>2, <2>3, <2>b, <2>c DEF State
  <2> HIDE DEF next, w, st, s
  <2>5. /\ s.stream.prefix = fc.sequence_number /\ s.stream.buffer = m.stream.buffer
        /\ s.stream.emitted = m.stream.emitted /\ s.stream.size = m.stream.size
        /\ s.stream.fctl = m.stream.fctl
        /\ s.writer.frame_control.sequence_number = fc.sequence_number + 1
        /\ s.writer.frame_control.width = fc.width
        /\ s.writer.frame_control.x_offset = fc.x_offset
        /\ s.writer.animation_written = m.writer.animation_written
        /\ s.writer.num_frames = m.writer.num_frames
        /\ s.writer.iend_written = m.writer.iend_written
    BY <2>3, <2>a, <2>b, <2>c
  <2>6. Same(m, s)
    BY <2>3, <2>a, <2>b, <2>c DEF Same
  <2>7. Grown(m, s)
    BY <2>2, <2>3, GrownSelf
  <2>8. m.stream.prefix = NoSeq /\ Len(m.stream.buffer) = 0 /\ fc.sequence_number \in Nat
    BY <1>2, <2>2, <2>a, UsedIs
  <2>9. ~ s.failed => NumbersKept(s) /\ BufferKept(s)
    <3> SUFFICES ASSUME ~ m.failed PROVE NumbersKept(s) /\ BufferKept(s)
      BY <2>3
    <3>1. is_some(fc)
      BY <1>2 DEF TakesFrameControl
    <3>2. NumbersKept(m) /\ BufferKept(m)
      BY DEF Emitting, Live, Sound
    <3>3. fc.sequence_number = File!Numbered(m.out)
          /\ m.writer.animation_written < m.writer.num_frames
      <4>1. File!Numbered(m.out) \in Nat
        BY <2>2, <2>8, BufferedSuits, NumberedAppend DEF Emitting
      <4> QED BY <2>8, <3>1, <3>2, <4>1 DEF NumbersKept, NextFree
    <3>4. NumbersKept(s)
      BY <2>3, <2>5, <2>8, <3>3 DEF NumbersKept, NextFree, NoSeq
    <3>5. BufferKept(s)
      BY <2>3, <2>5, <3>2 DEF BufferKept
    <3> QED BY <3>4, <3>5
  <2>10. Sound(s)
    BY <2>3, <2>4, <2>5, <2>9 DEF Emitting, Live, Sound, Fits, is_some
  <2>11. Open(s)
    BY <2>3, <2>5 DEF Emitting, Live, Open
  <2>12. Tally(s)
    BY <2>3, <2>5 DEF Emitting, Tally
  <2>13. Room(s)
    <3>1. s.stream \in StreamType /\ used(s) <= 4
      BY <2>3, <2>5, <2>8, <2>c, UsedIs
    <3>2. m.stream.size > 4 /\ m.stream.size \in Nat
      BY <2>2 DEF Emitting, Room, StreamType
    <3> QED BY <2>5, <3>1, <3>2, UsedIs DEF Room
  <2> QED BY <2>1, <2>3, <2>5, <2>6, <2>7, <2>10, <2>11, <2>12, <2>13 DEF Steps, Emitting, Live
<1> QED BY <1>1, <1>2
\* The byte goes into the buffer.
Put(m) == [m EXCEPT !.stream.emitted = @ + 1, !.stream.buffer = Append(@, m.stream.emitted + 1)]

LEMMA BytePut ==
  ASSUME NEW m, Emitting(m)
  PROVE  LET s == Put(m) IN
         /\ Steps(m, s) /\ Tally(s) /\ s.result = m.result /\ s.failed = m.failed
         /\ used(s) = used(m) + 1
<1> DEFINE s == Put(m)
           st == [m.stream EXCEPT !.emitted = @ + 1, !.buffer = Append(@, m.stream.emitted + 1)]
<1>1. /\ m \in State /\ m.stream \in StreamType /\ m.out \in Seq(ChunkType)
      /\ m.stream.emitted \in Nat /\ m.stream.buffer \in Seq(Nat) /\ m.image \in Nat
  BY DEF Emitting, Live, Sound, State, StreamType
<1>2. /\ s.out = m.out /\ s.failed = m.failed /\ s.result = m.result /\ s.image = m.image
      /\ s.writer = m.writer /\ s.stream = st
  BY <1>1 DEF Put, State
<1>3. Append(m.stream.buffer, m.stream.emitted + 1) \in Seq(Nat) /\ m.stream.emitted + 1 \in Nat
  BY <1>1
<1>4. /\ st \in StreamType /\ st.prefix = m.stream.prefix
      /\ st.wrapper = m.stream.wrapper /\ st.size = m.stream.size
      /\ st.curr_chunk = m.stream.curr_chunk /\ st.index = m.stream.index
      /\ st.line_len = m.stream.line_len /\ st.to_write = m.stream.to_write
      /\ st.fctl = m.stream.fctl /\ st.emitted = m.stream.emitted + 1
      /\ st.buffer = Append(m.stream.buffer, m.stream.emitted + 1)
  BY <1>1, <1>3 DEF StreamType
<1>5. s \in State
  <2> HIDE DEF st
  <2> QED BY <1>1, <1>2, <1>4 DEF State, Put
<1> HIDE DEF st, s
<1>6. Same(m, s) /\ Grown(m, s)
  BY <1>1, <1>2, <1>4, GrownSelf DEF Same
<1>7. Open(s)
  BY <1>2 DEF Emitting, Live, Open
<1>8. used(s) = used(m) + 1
  <2>1. Len(Append(m.stream.buffer, m.stream.emitted + 1)) = Len(m.stream.buffer) + 1
        /\ Len(m.stream.buffer) \in Nat
    BY <1>1
  <2>2. Len(s.stream.buffer) = Len(m.stream.buffer) + 1 /\ s.stream.prefix = m.stream.prefix
        /\ s.stream \in StreamType
    BY <1>2, <1>4, <2>1
  <2>3. used(m) \in Nat
    BY <1>1, UsedIs
  <2>4. CASE m.stream.prefix = NoSeq
    BY <1>1, <2>1, <2>2, <2>4, UsedIs
  <2>5. CASE m.stream.prefix # NoSeq
    <3>1. used(m) = Len(m.stream.buffer) + 4
      BY <1>1, <2>5, UsedIs
    <3>2. used(s) = Len(s.stream.buffer) + 4
      BY <2>2, <2>5, UsedIs
    <3> QED BY <2>1, <2>2, <3>1, <3>2
  <2> QED BY <2>4, <2>5
<1>9. ASSUME ~ m.failed
      PROVE  /\ BufferKept(s)
             /\ s.stream.emitted = File!Reached(s.image, s.out) + Len(s.stream.buffer)
  <2> DEFINE reached == File!Reached(m.image, m.out)
             b == m.stream.buffer
             e == m.stream.emitted
  <2>1. reached \in Nat
    BY <1>1, LastIs
  <2>2. e = reached + Len(b) /\ \A k \in DOMAIN b : b[k] = reached + k
    BY <1>9 DEF Emitting, Tally, Live, Sound, BufferKept
  <2> HIDE DEF reached, b, e
  <2>3. b \in Seq(Nat) /\ e \in Nat
    BY <1>1 DEF b, e
  <2>4. \A k \in DOMAIN Append(b, e + 1) : Append(b, e + 1)[k] = reached + k
    BY <2>1, <2>2, <2>3
  <2>5. Len(Append(b, e + 1)) = Len(b) + 1 /\ Len(b) \in Nat
    BY <2>3
  <2>6. BufferKept(s)
    BY <1>2, <1>4, <2>4 DEF BufferKept, reached, b, e
  <2>7. s.stream.emitted = reached + Len(s.stream.buffer)
    BY <1>2, <1>4, <2>1, <2>2, <2>5 DEF b, e
  <2> QED BY <1>2, <2>6, <2>7 DEF reached
<1>10. ~ m.failed => NumbersKept(s)
  BY <1>2, <1>4 DEF Emitting, Live, Sound, NumbersKept, NextFree
<1>11. Sound(s)
  BY <1>2, <1>4, <1>5, <1>9, <1>10 DEF Emitting, Live, Sound
<1>12. Tally(s)
  BY <1>2, <1>9 DEF Tally
<1> QED BY <1>2, <1>6, <1>7, <1>8, <1>11, <1>12 DEF Steps, Live, s

LEMMA ErrSteps ==
  ASSUME NEW m, Live(m)
  PROVE  Steps(m, Err(m)) /\ Err(m).result = "err" /\ Twins(m, Err(m))
<1>1. Twins(m, Err(m)) /\ Err(m).result = "err"
  BY ResultTwins DEF Err, Live, Sound
<1> QED BY <1>1, TwinSteps

\* What a step leaves alone of the buffer.
LEMMA RoomStays ==
  ASSUME NEW m, NEW s, Emitting(m), Steps(m, s), s.failed
  PROVE  Emitting(s)
BY DEF Emitting, Steps, Same, Tally, Room

LEMMA WriteByte ==
  ASSUME NEW m, Emitting(m), m.result = "ok", NEW s \in write_byte(m)
  PROVE  Emitting(s) /\ Steps(m, s) /\ Ends(s)
<1> DEFINE begun == TakePrefix(m)
<1>1. /\ Steps(m, begun) /\ Emitting(begun) /\ begun.result = "ok"
      /\ begun.stream.emitted = m.stream.emitted /\ begun.stream.buffer = m.stream.buffer
      /\ begun.stream.size = m.stream.size
  BY PrefixTaken DEF Steps, Same
<1>2. Live(m) /\ Live(begun) /\ begun \in State /\ begun.stream \in StreamType
  BY <1>1 DEF Emitting, Live, Sound, State
<1>a. ~ PrefixTooLong(m)
  <2>1. m.stream.size > 4 /\ m.stream.size \in Nat
    BY <1>2 DEF Emitting, Room, Live, Sound, State, StreamType
  <2> QED BY <2>1 DEF PrefixTooLong
<1>3. CASE used(begun) < m.stream.size
  <2> DEFINE put == Put(begun)
  <2>1. /\ Steps(begun, put) /\ Tally(put) /\ put.result = "ok"
        /\ used(put) = used(begun) + 1 /\ Live(put)
    BY <1>1, BytePut DEF Steps
  <2>2. s \in IF used(put) = m.stream.size THEN flush_inner(put) ELSE {put}
    <3>1. put = [begun EXCEPT !.stream.emitted = @ + 1,
                              !.stream.buffer = Append(@, m.stream.emitted + 1)]
      BY <1>1 DEF Put
    <3> QED BY <1>a, <1>3, <3>1 DEF write_byte
  <2>3. /\ put.stream.size = m.stream.size /\ put.stream.size > 4 /\ put.stream.size \in Nat
        /\ put.stream \in StreamType
    <3>1. put.stream.size = m.stream.size
      BY <1>1, <2>1 DEF Steps, Same
    <3>2. put.stream \in StreamType
      BY <2>1 DEF Live, Sound, State
    <3> QED BY <1>1, <3>1, <3>2 DEF Emitting, Room, StreamType
  <2>4. Steps(m, put)
    BY <1>1, <1>2, <2>1, StepsTransitive
  <2> HIDE DEF put
  <2>5. CASE used(put) = m.stream.size
    <3>1. /\ Steps(put, s) /\ Ends(s) /\ Tally(s)
          /\ s.result = "ok" => used(s) = 0
      BY <2>1, <2>2, <2>5, FlushInner
    <3>2. Steps(m, s)
      BY <1>2, <2>4, <3>1, StepsTransitive
    <3>3. Room(s)
      BY <2>3, <3>1 DEF Room, Steps, Same, Ends
    <3> QED BY <3>1, <3>2, <3>3 DEF Emitting, Steps
  <2>6. CASE used(put) # m.stream.size
    <3>1. s = put
      BY <2>2, <2>6
    <3>2. Room(put)
      <4>1. used(put) < put.stream.size
        BY <1>2, <1>3, <2>1, <2>3, <2>6, UsedIs
      <4> QED BY <2>3, <4>1 DEF Room
    <3> QED BY <2>1, <2>4, <3>1, <3>2 DEF Emitting, Ends
  <2> QED BY <2>5, <2>6
<1>4. CASE ~ (used(begun) < m.stream.size)
  <2>1. begun.failed
    BY <1>1, <1>4 DEF Emitting, Room
  <2>2. PICK x \in IF used(begun) = m.stream.size THEN flush_inner(begun) ELSE {begun} :
          s \in IF x.result = "ok" THEN {Err(x)} ELSE {x}
    BY <1>a, <1>4 DEF write_byte, Then
  <2>3. Steps(begun, x) /\ Ends(x)
    BY <1>1, <1>2, <2>2, FlushInner, SelfTwin DEF Ends
  <2>4. x.failed
    BY <2>1, <2>3 DEF Steps, Grown
  <2>5. Steps(x, s) /\ Ends(s) /\ s.failed
    <3>1. Live(x)
      BY <2>3 DEF Steps
    <3>2. CASE s = x
      BY <2>3, <2>4, <3>1, <3>2, SelfTwin
    <3>3. CASE s = Err(x)
      BY <2>4, <3>1, <3>3, ErrSteps DEF Ends, Twins
    <3> QED BY <2>2, <3>2, <3>3
  <2>6. Steps(m, s)
    BY <1>1, <1>2, <2>3, <2>5, StepsTransitive
  <2> QED BY <2>5, <2>6, RoomStays
<1> QED BY <1>3, <1>4

------------------------------------------------------------------------------
(* The compressors.                                                             *)

HandsOn(m, n, f) ==
  f = [k \in 0 .. n |-> IF k = 0 THEN {m} ELSE Then(f[k - 1], write_byte)]

LEMMA HandsOnExists ==
  ASSUME NEW m, NEW N \in Nat
  PROVE  \E f : HandsOn(m, N, f)
<1> DEFINE K == { n \in 0 .. N : \E f : HandsOn(m, n, f) }
<1>1. 0 \in K
  <2>1. HandsOn(m, 0, [k \in 0 .. 0 |-> {m}])
    BY DEF HandsOn
  <2> QED BY <2>1
<1>2. ASSUME NEW n \in 1 .. N, n - 1 \in K PROVE n \in K
  <2>1. PICK f : HandsOn(m, n - 1, f)
    BY <1>2
  <2> DEFINE g == [k \in 0 .. n |-> IF k = n THEN Then(f[n - 1], write_byte) ELSE f[k]]
  <2>2. ASSUME NEW k \in 0 .. n
        PROVE  g[k] = IF k = 0 THEN {m} ELSE Then(g[k - 1], write_byte)
    <3>1. \A j \in 0 .. n - 1 : g[j] = f[j]
      OBVIOUS
    <3>2. CASE k = n
      BY <3>1, <3>2
    <3>3. CASE k # n
      <4>1. k \in 0 .. n - 1 /\ g[k] = f[k]
        BY <3>3
      <4>2. f[k] = IF k = 0 THEN {m} ELSE Then(f[k - 1], write_byte)
        BY <2>1, <4>1 DEF HandsOn
      <4>3. k # 0 => k - 1 \in 0 .. n - 1
        BY <4>1
      <4> HIDE DEF g
      <4> QED BY <3>1, <4>1, <4>2, <4>3
    <3> QED BY <3>2, <3>3
  <2>3. HandsOn(m, n, g)
    BY <2>2 DEF HandsOn
  <2> HIDE DEF g
  <2> QED BY <2>3
<1> HIDE DEF K
<1>3. 0 .. N \subseteq K
  BY <1>1, <1>2, Induction
<1> QED BY <1>3 DEF K

LEMMA Emitted ==
  ASSUME NEW m, Emitting(m), m.result = "ok", NEW n \in Nat, NEW s \in Emit(m, n)
  PROVE  Emitting(s) /\ Steps(m, s) /\ Ends(s)
<1>1. PICK f : HandsOn(m, n, f) /\ Emit(m, n) = f[n]
  <2>1. PICK g : g = [k \in 0 .. n |-> IF k = 0 THEN {m} ELSE Then(g[k - 1], write_byte)]
    BY HandsOnExists DEF HandsOn
  <2>2. \E f : /\ f = [k \in 0 .. n |-> IF k = 0 THEN {m} ELSE Then(f[k - 1], write_byte)]
               /\ Emit(m, n) = f[n]
    BY <2>1 DEF Emit
  <2> QED BY <2>2 DEF HandsOn
<1> DEFINE Good(S) == \A t \in S : Emitting(t) /\ Steps(m, t) /\ Ends(t)
           K == { k \in 0 .. n : Good(f[k]) }
<1>2. 0 \in K
  <2>1. f[0] = {m}
    BY <1>1 DEF HandsOn
  <2> QED BY <2>1, SelfTwin DEF Emitting, Ends
<1>3. ASSUME NEW k \in 1 .. n, k - 1 \in K PROVE k \in K
  <2>1. f[k] = Then(f[k - 1], write_byte)
    <3>1. k \in 0 .. n /\ k # 0
      BY <1>3
    <3> QED BY <1>1, <3>1 DEF HandsOn
  <2>a. Good(f[k - 1])
    BY <1>3
  <2>2. ASSUME NEW t \in Then(f[k - 1], write_byte)
        PROVE  Emitting(t) /\ Steps(m, t) /\ Ends(t)
    <3>1. PICK x \in f[k - 1] : t \in IF x.result = "ok" THEN write_byte(x) ELSE {x}
      BY DEF Then
    <3>2. Emitting(x) /\ Steps(m, x) /\ Ends(x)
      BY <2>a
    <3>3. CASE x.result = "ok"
      <4>1. Emitting(t) /\ Steps(x, t) /\ Ends(t)
        BY <3>1, <3>2, <3>3, WriteByte
      <4> QED BY <3>2, <4>1, StepsTransitive DEF Emitting
    <3>4. CASE x.result # "ok"
      BY <3>1, <3>2, <3>4
    <3> QED BY <3>3, <3>4
  <2>3. Good(f[k])
    BY <2>1, <2>2
  <2> QED BY <1>3, <2>3
<1> HIDE DEF K
<1>4. n \in K
  BY <1>2, <1>3, Induction
<1> QED BY <1>1, <1>4 DEF K

\* What a call on the stream leaves: as long as nothing failed it did not panic.
Keeps(m, s) == Emitting(s) /\ Grown(m, s) /\ (s.result = "panic" => s.failed)

LEMMA KeepsTransitive ==
  ASSUME NEW m, NEW s, NEW t, Emitting(m), Emitting(s), Grown(m, s), Keeps(s, t)
  PROVE  Keeps(m, t)
<1>1. m.out \in Seq(ChunkType) /\ s.out \in Seq(ChunkType) /\ t.out \in Seq(ChunkType)
  BY DEF Emitting, Live, Sound, State, Keeps
<1> QED BY <1>1, GrownTransitive DEF Keeps

LEMMA KeepsSelf ==
  ASSUME NEW m, Emitting(m)
  PROVE  /\ m.result # "panic" => Keeps(m, m)
         /\ Keeps(m, Err(m)) /\ Err(m).result = "err" /\ Twins(m, Err(m))
         /\ m.failed => Keeps(m, Panic(m)) /\ Rows(Panic(m))
<1>1. Keeps(m, m) \/ m.result = "panic"
  BY GrownSelf DEF Keeps, Emitting, Live, Sound, State
<1>2. Twins(m, Err(m)) /\ Err(m).result = "err" /\ Twins(m, Panic(m))
  BY ResultTwins DEF Err, Panic, Emitting, Live, Sound
<1>3. Keeps(m, Err(m)) /\ Emitting(Panic(m)) /\ Grown(m, Panic(m)) /\ Panic(m).failed = m.failed
  BY <1>2, TwinFacts DEF Keeps, Emitting, Live, Twins
<1> QED BY <1>1, <1>2, <1>3 DEF Keeps, Rows

LEMMA StepKeeps ==
  ASSUME NEW m, NEW s, Emitting(m), Emitting(s), Steps(m, s), Ends(s)
  PROVE  Keeps(m, s) /\ (Rows(m) => Rows(s))
BY DEF Keeps, Steps, Ends, Rows, Same, Grown, Compressing, is_some

LEMMA EmissionsEmitted ==
  ASSUME NEW m, Emitting(m), m.result = "ok", NEW s \in EmitSome(m) \cup EmitRest(m)
  PROVE  Emitting(s) /\ Steps(m, s) /\ Ends(s) /\ Keeps(m, s) /\ (Rows(m) => Rows(s))
<1>1. \E n \in Nat : s \in Emit(m, n)
  <2>1. CASE s \in EmitSome(m)
    BY <2>1, StreamAssumption DEF EmitSome
  <2>2. CASE s \in EmitRest(m)
    <3>1. PICK n \in Emissions : s \in Emit(m, n + 1)
      BY <2>2 DEF EmitRest
    <3>2. n + 1 \in Nat
      BY StreamAssumption
    <3> QED BY <3>1, <3>2
  <2> QED BY <2>1, <2>2
<1> QED BY <1>1, Emitted, StepKeeps

Wrappers == {"None", "Chunk", "Flate2", "FDeflate", "Unrecoverable"}

Wrapped(m, w) == [m EXCEPT !.stream.wrapper = w]

\* The wrapper counts for Rows only.
LEMMA Rewrapped ==
  ASSUME NEW m, Emitting(m), NEW w, w \in Wrappers
  PROVE  LET s == Wrapped(m, w) IN
         /\ Emitting(s) /\ Grown(m, s) /\ s.result = m.result /\ s.failed = m.failed
         /\ s.writer = m.writer /\ s.image = m.image /\ s.out = m.out
         /\ s.stream.wrapper = w /\ s.stream.prefix = m.stream.prefix
         /\ s.stream.index = m.stream.index /\ s.stream.line_len = m.stream.line_len
         /\ s.stream.to_write = m.stream.to_write /\ s.stream.fctl = m.stream.fctl
         /\ s.stream.buffer = m.stream.buffer
<1> DEFINE s == Wrapped(m, w)
           st == [m.stream EXCEPT !.wrapper = w]
<1>1. m \in State /\ m.stream \in StreamType /\ m.out \in Seq(ChunkType)
  BY DEF Emitting, Live, Sound, State
<1>2. /\ s.out = m.out /\ s.failed = m.failed /\ s.result = m.result /\ s.image = m.image
      /\ s.writer = m.writer /\ s.stream = st
  BY <1>1 DEF State, Wrapped
<1>3. /\ st \in StreamType /\ st.wrapper = w /\ st.prefix = m.stream.prefix
      /\ st.size = m.stream.size /\ st.curr_chunk = m.stream.curr_chunk
      /\ st.index = m.stream.index /\ st.line_len = m.stream.line_len
      /\ st.to_write = m.stream.to_write /\ st.fctl = m.stream.fctl
      /\ st.emitted = m.stream.emitted /\ st.buffer = m.stream.buffer
  <2>1. st \in StreamType
    BY <1>1 DEF StreamType, Wrappers
  <2> QED BY <1>1, <2>1 DEF StreamType
<1>4. s \in State
  <2> HIDE DEF st
  <2> QED BY <1>1, <1>2, <1>3 DEF State, Wrapped
<1> HIDE DEF st, s
<1>5. Grown(m, s)
  BY <1>1, <1>2, GrownSelf
<1>6. Sound(s)
  BY <1>2, <1>3, <1>4 DEF Emitting, Live, Sound, NumbersKept, BufferKept, NextFree
<1>7. Open(s) /\ Tally(s) /\ Room(s)
  BY <1>2, <1>3 DEF Emitting, Live, Open, Tally, Room, used
<1> QED BY <1>2, <1>3, <1>5, <1>6, <1>7 DEF Emitting, Live, s

LEMMA Unrecoverable ==
  ASSUME NEW m, Emitting(m), NEW s \in OrUnrecoverable({m})
  PROVE  /\ Emitting(s) /\ Grown(m, s) /\ s.result = m.result /\ s.failed = m.failed
         /\ ~ (m.result = "err" /\ Compressing(m)) => s = m
<1>1. \/ s = m
      \/ s = Wrapped(m, "Unrecoverable") /\ m.result = "err" /\ Compressing(m)
  BY DEF OrUnrecoverable, Wrapped
<1>2. Grown(m, m)
  BY GrownSelf DEF Emitting, Live, Sound, State
<1>3. CASE s = m
  BY <1>2, <1>3
<1>4. CASE s = Wrapped(m, "Unrecoverable") /\ m.result = "err" /\ Compressing(m)
  <2>1. "Unrecoverable" \in Wrappers
    BY DEF Wrappers
  <2>2. LET x == Wrapped(m, "Unrecoverable") IN
        /\ Emitting(x) /\ Grown(m, x) /\ x.result = m.result /\ x.failed = m.failed
    BY <2>1, Rewrapped
  <2> QED BY <1>4, <2>2
<1> QED BY <1>1, <1>3, <1>4

LEMMA CompressorFinished ==
  ASSUME NEW m, Emitting(m), Rows(m), m.result = "ok", m.stream.to_write = 0,
         NEW s \in FinishCompressor(m)
  PROVE  /\ Keeps(m, s) /\ Rows(s) /\ Ends(s)
         /\ s.result = "ok" => s.stream.to_write = 0 /\ s.stream.wrapper = "Chunk"
<1>1. PICK x \in EmitRest(m) :
        s \in IF x.result = "err" THEN { Err(d) : d \in drop_chunk_writer(OrUnrecoverable({x})) }
              ELSE { [x EXCEPT !.stream.wrapper = "Chunk"] }
  BY DEF FinishCompressor
<1>2. Emitting(x) /\ Steps(m, x) /\ Ends(x) /\ Keeps(m, x) /\ Rows(x)
  BY <1>1, EmissionsEmitted
<1>3. CASE x.result = "ok"
  <2>1. s = Wrapped(x, "Chunk")
    BY <1>1, <1>3 DEF Wrapped
  <2> HIDE DEF FinishCompressor
  <2>2. /\ Emitting(s) /\ Grown(x, s) /\ s.result = "ok" /\ s.failed = x.failed
        /\ s.writer = x.writer /\ s.stream.wrapper = "Chunk"
        /\ s.stream.index = x.stream.index /\ s.stream.line_len = x.stream.line_len
        /\ s.stream.to_write = x.stream.to_write /\ s.stream.fctl = x.stream.fctl
    <3>1. "Chunk" \in Wrappers
      BY DEF Wrappers
    <3> QED BY <1>2, <1>3, <2>1, <3>1, Rewrapped
  <2>3. x.stream.to_write = 0
    BY <1>2 DEF Steps, Same
  <2>4. Keeps(x, s)
    BY <2>2 DEF Keeps
  <2>5. Rows(s)
    BY <1>2, <2>2, <2>3 DEF Rows
  <2> QED BY <1>2, <2>2, <2>3, <2>4, <2>5, KeepsTransitive DEF Ends, Keeps
<1>4. CASE x.result # "ok"
  <2>1. PICK d \in drop_chunk_writer(OrUnrecoverable({x})) : s = Err(d)
    BY <1>1, <1>2, <1>4 DEF Ends
  <2>2. x.failed /\ x.result = "err"
    BY <1>2, <1>4 DEF Ends
  <2>3. \A u \in OrUnrecoverable({x}) :
          Emitting(u) /\ Grown(x, u) /\ u.failed /\ u.result # "panic"
    BY <1>2, <2>2, Unrecoverable
  <2>4. PICK u \in OrUnrecoverable({x}) : Steps(u, d) /\ Emitting(d) /\ d.result = "ok"
    BY <2>1, <2>3, DropChunkWriter
  <2>5. Keeps(u, d) /\ d.failed
    BY <2>3, <2>4 DEF Keeps, Steps, Grown
  <2>6. Keeps(x, d)
    BY <1>2, <2>3, <2>5, KeepsTransitive
  <2>7. Keeps(d, s) /\ s.result = "err" /\ s.failed
    BY <2>1, <2>4, <2>5, KeepsSelf DEF Twins
  <2>8. Keeps(m, s)
    BY <1>2, <2>4, <2>6, <2>7, KeepsTransitive DEF Keeps
  <2> QED BY <2>7, <2>8 DEF Ends, Rows
<1> QED BY <1>3, <1>4

------------------------------------------------------------------------------
(* The next image of a stream.                                                  *)

\* Rows, but that there need not be a compressor yet.
Lined(m) ==
  ~ m.failed =>
    /\ m.stream.line_len > 0 /\ m.stream.index < m.stream.line_len
    /\ \E rows \in 0 .. Height : m.stream.to_write + m.stream.index = rows * m.stream.line_len
    /\ is_some(m.stream.fctl) => is_some(m.writer.frame_control)

\* As Same, but for the image and the type of its chunks.
SameRows(m, s) ==
  /\ s.stream.wrapper = m.stream.wrapper /\ s.stream.size = m.stream.size
  /\ s.stream.index = m.stream.index /\ s.stream.line_len = m.stream.line_len
  /\ s.stream.to_write = m.stream.to_write /\ s.stream.fctl = m.stream.fctl
  /\ s.writer.frame_control.width = m.writer.frame_control.width
  /\ s.writer.compression = m.writer.compression

\* No byte of an image is in the file before it has begun.
LEMMA FreshImage ==
  ASSUME NEW m, m \in State, \A i \in DOMAIN m.out : m.out[i].image <= m.image
  PROVE  File!Reached(m.image + 1, m.out) = 0
<1>1. m.image \in Nat /\ m.image + 1 \in Nat /\ m.out \in Seq(ChunkType)
  BY DEF State
<1>2. File!DataChunks(m.image + 1, m.out) = {}
  <2>1. \A i \in DOMAIN m.out : m.out[i].image # m.image + 1
    <3>1. \A i \in DOMAIN m.out : m.out[i].image \in Nat
      BY <1>1, ChunkFields
    <3> QED BY <1>1, <3>1
  <2> QED BY <2>1 DEF File!DataChunks
<1>3. LastOf(m.image + 1, m.out) = 0
  BY <1>1, <1>2, LastIs
<1> QED BY <1>1, <1>3, LastIs

\* Behind the first lines of write_header.
Begun(m) ==
  [m EXCEPT !.image = @ + 1, !.stream.emitted = 0,
            !.stream.curr_chunk = IF m.writer.images_written = 0 THEN "IDAT" ELSE "fdAT"]

LEMMA HeaderBegun ==
  ASSUME NEW m, Live(m), m.stream.size > 4, used(m) = 0
  PROVE  LET s == Begun(m) IN
         /\ Emitting(s) /\ Grown(m, s) /\ s.result = m.result /\ s.failed = m.failed
         /\ SameRows(m, s) /\ s.writer = m.writer /\ s.out = m.out /\ used(s) = 0
         /\ s.image # 0
<1> DEFINE s == Begun(m)
           type == IF m.writer.images_written = 0 THEN "IDAT" ELSE "fdAT"
           st == [m.stream EXCEPT !.emitted = 0, !.curr_chunk = type]
<1>1. m \in State /\ m.stream \in StreamType /\ m.out \in Seq(ChunkType) /\ m.image \in Nat
  BY DEF Live, Sound, State
<1>2. /\ s.out = m.out /\ s.failed = m.failed /\ s.result = m.result
      /\ s.image = m.image + 1 /\ s.writer = m.writer /\ s.stream = st
  BY <1>1 DEF State, Begun
<1>3. /\ st \in StreamType /\ st.wrapper = m.stream.wrapper /\ st.prefix = m.stream.prefix
      /\ st.size = m.stream.size /\ st.emitted = 0
      /\ st.index = m.stream.index /\ st.line_len = m.stream.line_len
      /\ st.to_write = m.stream.to_write /\ st.fctl = m.stream.fctl
      /\ st.buffer = m.stream.buffer
  <2>1. type \in {"IDAT", "fdAT"} /\ 0 \in Nat
    OBVIOUS
  <2> HIDE DEF type
  <2> QED BY <1>1, <2>1 DEF StreamType
<1>4. s \in State
  <2>1. s = [[m EXCEPT !.image = @ + 1] EXCEPT !.stream = st]
    BY <1>1 DEF State, Begun
  <2>2. m.image + 1 \in Nat
    BY <1>1
  <2> HIDE DEF st, s
  <2> QED BY <1>1, <2>1, <2>2, <1>3 DEF State
<1> HIDE DEF st, s
<1>5. Grown(m, s) /\ SameRows(m, s)
  BY <1>1, <1>2, <1>3, GrownSelf DEF SameRows
<1>6. m.stream.buffer = << >> /\ m.stream.prefix = NoSeq /\ used(s) = 0
  BY <1>1, <1>2, <1>3, UsedIs
<1>7. \A i \in DOMAIN s.out : s.out[i].image <= s.image
  <2>1. \A i \in DOMAIN m.out : m.out[i].image <= m.image /\ m.out[i].image \in Nat
    BY <1>1, ChunkFields DEF Live, Sound
  <2> QED BY <1>1, <1>2, <2>1
<1>8. Sound(s) /\ Open(s)
  BY <1>2, <1>3, <1>4, <1>6, <1>7 DEF Live, Sound, Open, NumbersKept, BufferKept, NextFree
<1>9. Tally(s)
  <2>1. File!Reached(s.image, s.out) = 0
    BY <1>1, <1>2, FreshImage DEF Live, Sound
  <2>2. Len(s.stream.buffer) = 0 /\ s.stream.emitted = 0
    BY <1>2, <1>3, <1>6
  <2> QED BY <2>1, <2>2 DEF Tally
<1>10. Room(s)
  <2>1. s.stream.size \in Nat /\ s.stream.size > 4
    BY <1>1, <1>2, <1>3 DEF StreamType
  <2> QED BY <1>6, <2>1 DEF Room
<1>11. s.image # 0
  BY <1>1, <1>2
<1> QED BY <1>2, <1>5, <1>6, <1>8, <1>9, <1>10, <1>11 DEF Emitting, Live, s

\* The frame control is written and takes a sequence number.
Headed(m) ==
  [[m EXCEPT !.out = Append(@, FrameChunk(m.image, m.writer.frame_control))]
     EXCEPT !.writer.frame_control.sequence_number = @ + 1]

LEMMA FrameChunkSuits ==
  ASSUME NEW m, Live(m), m.stream.prefix = NoSeq, is_some(m.writer.frame_control)
  PROVE  LET c == FrameChunk(m.image, m.writer.frame_control) IN
         /\ c \in ChunkType /\ (~ m.failed => Suits(m, c))
         /\ c.type = "fcTL" /\ c.image = m.image /\ c.data = << >>
         /\ c.seq = m.writer.frame_control.sequence_number /\ c.seq # NoSeq
<1> DEFINE fc == m.writer.frame_control
           c == FrameChunk(m.image, fc)
<1>1. m \in State /\ fc \in FrameControl /\ m.image \in Nat /\ m.out \in Seq(ChunkType)
  BY DEF Live, Sound, State, WriterType
<1>2. fc.sequence_number \in Nat /\ fc.sequence_number # NoSeq
  BY <1>1 DEF FrameControl, NoSeq
<1>3. /\ c.type = "fcTL" /\ c.image = m.image /\ c.seq = fc.sequence_number
      /\ c.frame = fc /\ c.data = << >>
  BY DEF FrameChunk, Chunk
<1>4. c \in ChunkType
  <2>1. << >> \in Seq(Nat) /\ "fcTL" \in ChunkTypes
    BY DEF ChunkTypes
  <2> HIDE DEF fc
  <2> QED BY <1>1, <1>2, <2>1 DEF FrameChunk, Chunk, ChunkType
<1> HIDE DEF c
<1>5. ASSUME ~ m.failed PROVE Suits(m, c)
  <2>1. fc.sequence_number = File!Numbered(m.out)
    <3>1. fc.sequence_number = NextFree(m)
      BY <1>5 DEF Live, Sound, NumbersKept
    <3>2. File!Numbered(m.out) \in Nat
      BY <1>1, <1>4, NumberedAppend
    <3> QED BY <3>1, <3>2 DEF NextFree
  <2>2. Fits(fc) /\ is_some(fc)
    BY DEF Live, Sound
  <2> QED BY <1>1, <1>3, <2>1, <2>2 DEF Suits
<1> QED BY <1>2, <1>3, <1>4, <1>5 DEF c

LEMMA HeadedFacts ==
  ASSUME NEW m, Emitting(m), used(m) = 0, is_some(m.writer.frame_control)
  PROVE  LET s == Headed(m) IN
         /\ Emitting(s) /\ Grown(m, s) /\ s.result = m.result /\ SameRows(m, s) /\ used(s) = 0
<1> DEFINE s == Headed(m)
           fc == m.writer.frame_control
           c == FrameChunk(m.image, fc)
           next == [fc EXCEPT !.sequence_number = @ + 1]
           w == [m.writer EXCEPT !.frame_control = next]
<1>1. /\ m \in State /\ m.writer \in WriterType /\ m.stream \in StreamType
      /\ fc \in FrameControl /\ m.out \in Seq(ChunkType) /\ m.image \in Nat
  BY DEF Emitting, Live, Sound, State, WriterType
<1>2. m.stream.prefix = NoSeq /\ m.stream.buffer = << >>
  BY <1>1, UsedIs
<1>3. /\ c \in ChunkType /\ (~ m.failed => Suits(m, c)) /\ c.type = "fcTL" /\ c.image = m.image
      /\ c.data = << >> /\ c.seq = fc.sequence_number /\ c.seq # NoSeq
  BY <1>2, FrameChunkSuits DEF Emitting
<1> HIDE DEF c
<1>4. /\ s.out = Append(m.out, c) /\ s.failed = m.failed /\ s.result = m.result
      /\ s.image = m.image /\ s.stream = m.stream /\ s.writer = w
  BY <1>1 DEF State, Headed, c
<1>5. /\ next \in FrameControl /\ next.sequence_number = fc.sequence_number + 1
      /\ next.width = fc.width /\ next.x_offset = fc.x_offset /\ fc.sequence_number \in Nat
  BY <1>1 DEF FrameControl
<1>6. /\ w \in WriterType /\ w.frame_control = next /\ w.num_frames = m.writer.num_frames
      /\ w.animation_written = m.writer.animation_written
      /\ w.iend_written = m.writer.iend_written /\ w.compression = m.writer.compression
  <2> HIDE DEF next
  <2> QED BY <1>1, <1>5 DEF WriterType
<1>7. Append(m.out, c) \in Seq(ChunkType)
  BY <1>1, <1>3
<1>8. s \in State
  <2>1. s = [[m EXCEPT !.out = Append(@, c)] EXCEPT !.writer = w]
    BY <1>1 DEF State, Headed, c
  <2> HIDE DEF w, s, next
  <2> QED BY <1>1, <1>6, <1>7, <2>1 DEF State
<1> HIDE DEF w, s, next
<1>9. Grown(m, s)
  BY <1>1, <1>3, <1>4, SuitsFollows, GrownOne DEF Emitting, Live, Sound, State
<1>10. \A i \in DOMAIN s.out : s.out[i].image <= s.image
  <2>1. Append(m.out, c)[Len(m.out) + 1] = c
    BY <1>1
  <2>2. DOMAIN s.out = DOMAIN m.out \cup {Len(m.out) + 1}
        /\ \A i \in DOMAIN m.out : s.out[i] = m.out[i]
    BY <1>1, <1>3, <1>4, AppendFacts
  <2>3. \A i \in DOMAIN m.out : m.out[i].image <= m.image
    BY DEF Emitting, Live, Sound
  <2> QED BY <1>1, <1>3, <1>4, <2>1, <2>2, <2>3
<1>11. File!Reached(s.image, s.out) = File!Reached(m.image, m.out)
  BY <1>1, <1>3, <1>4, ReachedAppend
<1>12. File!Numbered(s.out) = File!Numbered(m.out) + 1 /\ File!Numbered(m.out) \in Nat
  BY <1>1, <1>3, <1>4, NumberedAppend
<1>13. ~ s.failed => NumbersKept(s) /\ BufferKept(s)
  <2> SUFFICES ASSUME ~ m.failed PROVE NumbersKept(s) /\ BufferKept(s)
    BY <1>4
  <2>1. fc.sequence_number = File!Numbered(m.out)
        /\ m.writer.animation_written < m.writer.num_frames
    BY <1>2, <1>12 DEF Emitting, Live, Sound, NumbersKept, NextFree
  <2>2. NumbersKept(s)
    BY <1>2, <1>4, <1>5, <1>6, <1>12, <2>1 DEF NumbersKept, NextFree
  <2>3. BufferKept(s)
    BY <1>2, <1>4 DEF BufferKept
  <2> QED BY <2>2, <2>3
<1>14. Sound(s)
  BY <1>4, <1>5, <1>6, <1>8, <1>10, <1>13 DEF Emitting, Live, Sound, Fits, is_some
<1>15. Open(s)
  <2>1. s.out # << >>
    BY <1>1, <1>3, <1>4
  <2>2. File!Types(s.out) = File!Types(m.out) \cup {c.type}
    BY <1>1, <1>3, <1>4, TypesAppend
  <2> QED BY <1>3, <1>4, <1>6, <2>1, <2>2 DEF Emitting, Live, Open
<1>16. Tally(s) /\ Room(s) /\ used(s) = 0
  BY <1>4, <1>11 DEF Emitting, Tally, Room, used
<1>17. SameRows(m, s)
  BY <1>4, <1>5, <1>6 DEF SameRows
<1> QED BY <1>4, <1>9, <1>14, <1>15, <1>16, <1>17 DEF Emitting, Live, s

LEMMA HeaderWritten ==
  ASSUME NEW m, Live(m), m.stream.size > 4, m.result = "ok", used(m) = 0,
         NEW s \in write_header(m)
  PROVE  /\ Emitting(s) /\ Grown(m, s) /\ Ends(s) /\ SameRows(m, s)
         /\ s.result = "ok" => used(s) = 0
         /\ s.image # 0
<1> DEFINE begun == Begun(m)
           fc == m.writer.frame_control
<1>1. /\ Emitting(begun) /\ Grown(m, begun) /\ begun.result = "ok" /\ SameRows(m, begun)
      /\ begun.writer = m.writer /\ used(begun) = 0 /\ begun.image # 0
  BY HeaderBegun
<1>2. s \in IF ~ TakesFrameControl(m.writer) THEN {begun}
            ELSE Then(WriteChunk(begun, FrameChunk(begun.image, fc)),
                      LAMBDA x : { [x EXCEPT !.writer.frame_control.sequence_number = @ + 1] })
  BY DEF write_header, Begun
<1> HIDE DEF begun
<1>3. \/ s = begun
      \/ s = Fail(begun)
      \/ s = Headed(begun) /\ is_some(fc)
  <2>1. CASE ~ TakesFrameControl(m.writer)
    BY <1>2, <2>1
  <2>2. CASE TakesFrameControl(m.writer)
    <3>1. PICK x \in WriteChunk(begun, FrameChunk(begun.image, fc)) :
            s \in IF x.result = "ok"
                  THEN {[x EXCEPT !.writer.frame_control.sequence_number = @ + 1]} ELSE {x}
      BY <1>2, <2>2 DEF Then
    <3>2. x = [begun EXCEPT !.out = Append(@, FrameChunk(begun.image, fc))] \/ x = Fail(begun)
      BY DEF WriteChunk
    <3>3. Fail(begun).result = "err"
      BY <1>1, FailSteps DEF Emitting
    <3>4. [begun EXCEPT !.out = Append(@, FrameChunk(begun.image, fc))].result = "ok"
      BY <1>1 DEF Emitting, Live, Sound, State
    <3>5. is_some(fc)
      BY <2>2 DEF TakesFrameControl
    <3> QED BY <1>1, <3>1, <3>2, <3>3, <3>4, <3>5 DEF Headed
  <2> QED BY <2>1, <2>2
<1>4. CASE s = begun
  BY <1>1, <1>4 DEF Ends
<1>5. CASE s = Fail(begun)
  <2>1. Steps(begun, s) /\ s.failed /\ s.result = "err"
    BY <1>1, <1>5, FailSteps DEF Emitting
  <2>2. Emitting(s) /\ Ends(s)
    BY <1>1, <2>1, RoomStays DEF Ends
  <2>3. SameRows(m, s)
    BY <1>1, <2>1 DEF SameRows, Steps, Same
  <2>4. Grown(m, s)
    BY <1>1, <2>1, GrownTransitive DEF Steps, Emitting, Live, Sound, State
  <2>5. s.image # 0
    BY <1>1, <2>1 DEF Steps, Grown
  <2> QED BY <2>1, <2>2, <2>3, <2>4, <2>5
<1>6. CASE s = Headed(begun) /\ is_some(fc)
  <2>1. /\ Emitting(s) /\ Grown(begun, s) /\ s.result = "ok" /\ SameRows(begun, s)
        /\ used(s) = 0
    BY <1>1, <1>6, HeadedFacts
  <2>2. Grown(m, s)
    BY <1>1, <2>1, GrownTransitive DEF Emitting, Live, Sound, State
  <2>3. s.image # 0
    BY <1>1, <2>1 DEF Grown
  <2> QED BY <1>1, <2>1, <2>2, <2>3 DEF Ends, SameRows
<1> QED BY <1>3, <1>4, <1>5, <1>6

\* The frame control of the last frame is not needed any more.  While nothing has failed a
\* stream does not get that far.
LEMMA ImagesIncremented ==
  ASSUME NEW m, Emitting(m)
  PROVE  LET s == [m EXCEPT !.writer = increment_images_written(@)] IN
         /\ Emitting(s) /\ Grown(m, s) /\ s.result = m.result /\ s.failed = m.failed
         /\ s.stream = m.stream
         /\ s.writer.compression = m.writer.compression
         /\ ~ m.failed => (is_some(s.writer.frame_control) <=> is_some(m.writer.frame_control))
<1> DEFINE w == increment_images_written(m.writer)
           s == [m EXCEPT !.writer = increment_images_written(@)]
           fc == IF animated(m.writer) /\ m.writer.num_frames <= m.writer.animation_written
                 THEN NoFrameControl ELSE m.writer.frame_control
<1>1. /\ m \in State /\ m.writer \in WriterType /\ m.writer.frame_control \in FrameControl
      /\ m.out \in Seq(ChunkType)
  BY DEF Emitting, Live, Sound, State, WriterType
<1>2. /\ s.out = m.out /\ s.failed = m.failed /\ s.result = m.result
      /\ s.image = m.image /\ s.stream = m.stream /\ s.writer = w
  BY <1>1 DEF State
<1>3. fc \in FrameControl /\ NoFrameControl \in FrameControl
  BY <1>1 DEF FrameControl, NoFrameControl
<1>4. /\ w \in WriterType /\ w.frame_control = fc /\ w.num_frames = m.writer.num_frames
      /\ w.animation_written = m.writer.animation_written
      /\ w.iend_written = m.writer.iend_written /\ w.compression = m.writer.compression
  <2>1. w = [m.writer EXCEPT !.images_written = @ + 1, !.frame_control = fc]
    BY <1>1 DEF increment_images_written
  <2> HIDE DEF w, fc
  <2>2. m.writer.images_written + 1 \in Nat
    BY <1>1 DEF WriterType
  <2>3. w \in WriterType
    BY <1>1, <1>3, <2>1, <2>2 DEF WriterType
  <2> QED BY <1>1, <2>1, <2>3 DEF WriterType
<1>5. s \in State
  <2> HIDE DEF w
  <2> QED BY <1>1, <1>2, <1>4 DEF State
<1>6. fc = m.writer.frame_control \/ fc = NoFrameControl
  OBVIOUS
<1>7. ~ is_some(NoFrameControl) /\ Fits(NoFrameControl)
  BY DEF is_some, NoFrameControl, Fits
<1>8. ASSUME ~ m.failed PROVE fc = m.writer.frame_control \/ ~ is_some(m.writer.frame_control)
  <2>1. CASE is_some(m.writer.frame_control)
    <3>1. m.writer.animation_written < m.writer.num_frames
      BY <1>8, <2>1 DEF Emitting, Live, Sound, NumbersKept
    <3>2. m.writer.animation_written \in Nat /\ m.writer.num_frames \in Nat
      BY <1>1 DEF WriterType
    <3> QED BY <3>1, <3>2
  <2> QED BY <2>1
<1>9. ~ m.failed => (is_some(fc) <=> is_some(m.writer.frame_control))
  BY <1>6, <1>7, <1>8
<1> HIDE DEF w, s, fc
<1>10. Grown(m, s)
  BY <1>1, <1>2, GrownSelf
<1>11. ~ m.failed => NumbersKept(s) /\ BufferKept(s)
  <2>1. NextFree(s) = NextFree(m)
    BY <1>2 DEF NextFree
  <2> QED BY <1>2, <1>4, <1>6, <1>7, <2>1 DEF Emitting, Live, Sound, NumbersKept, BufferKept
<1>12. Sound(s)
  BY <1>2, <1>4, <1>5, <1>6, <1>7, <1>11 DEF Emitting, Live, Sound
<1>13. Open(s) /\ Tally(s) /\ Room(s)
  BY <1>2, <1>4 DEF Emitting, Live, Open, Tally, Room, used
<1> QED BY <1>2, <1>4, <1>9, <1>10, <1>12, <1>13 DEF Emitting, Live, s

LEMMA LevelTaken ==
  ASSUME NEW m, Emitting(m), Lined(m), m.result = "ok", NEW s \in from_level(m)
  PROVE  Keeps(m, s) /\ Ends(s) /\ Rows(s) /\ s.stream.to_write = m.stream.to_write
         /\ Compressing(s)
<1> DEFINE x == Wrapped(m, m.writer.compression)
<1>1. m.writer.compression \in {"Flate2", "FDeflate"}
  BY DEF Emitting, Live, Sound, State, WriterType
<1>2. /\ Emitting(x) /\ Grown(m, x) /\ x.result = "ok" /\ x.failed = m.failed
      /\ x.writer = m.writer /\ x.stream.wrapper = m.writer.compression
      /\ x.stream.index = m.stream.index /\ x.stream.line_len = m.stream.line_len
      /\ x.stream.to_write = m.stream.to_write /\ x.stream.fctl = m.stream.fctl
  <2>1. m.writer.compression \in Wrappers
    BY <1>1 DEF Wrappers
  <2> QED BY <2>1, Rewrapped
<1>3. s \in IF m.writer.compression = "FDeflate" THEN Emit(x, 1) ELSE {x}
  BY DEF from_level, Wrapped
<1> HIDE DEF x
<1>4. Rows(x) /\ Compressing(x)
  BY <1>1, <1>2 DEF Lined, Rows, Compressing
<1>5. Emitting(s) /\ Steps(x, s) /\ Ends(s)
  <2>1. CASE m.writer.compression = "FDeflate"
    BY <1>2, <1>3, <2>1, Emitted
  <2>2. CASE m.writer.compression # "FDeflate"
    BY <1>2, <1>3, <2>2, SelfTwin DEF Ends, Emitting
  <2> QED BY <2>1, <2>2
<1>6. Keeps(x, s) /\ Rows(s)
  BY <1>2, <1>4, <1>5, StepKeeps
<1>7. Compressing(s) /\ s.stream.to_write = x.stream.to_write
  BY <1>4, <1>5 DEF Compressing, Steps, Same
<1>8. Keeps(m, s)
  BY <1>2, <1>6, KeepsTransitive
<1> QED BY <1>2, <1>5, <1>6, <1>7, <1>8

LEMMA LineLength ==
  ASSUME NEW m, m \in State
  PROVE  line_len(m.writer) \in Nat \ {0}
BY WriterAssumption DEF line_len, is_some, State, WriterType, FrameControl

\* The first bytes of a frame: where it has a line, it has Height of them.
LEMMA FrameSet ==
  ASSUME NEW m, Live(m), is_some(m.stream.fctl) => is_some(m.writer.frame_control),
         m.stream.index = 0 \/ m.failed
  PROVE  LET s == WithFrameInfo(m) IN
         /\ Live(s) /\ Grown(m, s) /\ s.result = m.result /\ s.failed = m.failed
         /\ s.writer = m.writer /\ s.out = m.out /\ s.image = m.image
         /\ s.stream.size = m.stream.size /\ used(s) = used(m)
         /\ s.stream.emitted = m.stream.emitted /\ s.stream.buffer = m.stream.buffer
         /\ s.stream.to_write > 0 /\ Lined(s)
<1> DEFINE s == WithFrameInfo(m)
           len == line_len(m.writer)
           all == len * Height
           st == [m.stream EXCEPT !.line_len = len, !.to_write = all]
<1>1. m \in State /\ m.stream \in StreamType /\ m.out \in Seq(ChunkType)
  BY DEF Live, Sound, State
<1>2. /\ s.out = m.out /\ s.failed = m.failed /\ s.result = m.result
      /\ s.image = m.image /\ s.writer = m.writer /\ s.stream = st
  BY <1>1 DEF State, WithFrameInfo
<1>3. len \in Nat /\ len > 0 /\ Height \in Nat /\ Height > 0
  BY <1>1, LineLength, StreamAssumption
<1>4. all \in Nat /\ all > 0 /\ all = Height * len
  BY <1>3
<1> HIDE DEF len, all
<1>5. /\ st \in StreamType /\ st.wrapper = m.stream.wrapper /\ st.prefix = m.stream.prefix
      /\ st.size = m.stream.size /\ st.emitted = m.stream.emitted
      /\ st.index = m.stream.index /\ st.line_len = len
      /\ st.to_write = all /\ st.fctl = m.stream.fctl
      /\ st.buffer = m.stream.buffer
  BY <1>1, <1>3, <1>4 DEF StreamType
<1>6. s \in State
  <2> HIDE DEF st
  <2>1. s = [m EXCEPT !.stream = st]
    BY <1>1 DEF State, WithFrameInfo, st, all, len
  <2> HIDE DEF s
  <2> QED BY <1>1, <1>5, <2>1 DEF State
<1> HIDE DEF st, s
<1>7. Grown(m, s)
  BY <1>1, <1>2, GrownSelf
<1>8. Sound(s) /\ Open(s)
  BY <1>2, <1>5, <1>6 DEF Live, Sound, Open, NumbersKept, BufferKept, NextFree
<1>9. Lined(s)
  <2>1. Height \in 0 .. Height
    BY <1>3
  <2>2. m.stream.index = 0 => st.to_write + st.index = Height * st.line_len
    BY <1>4, <1>5
  <2>3. m.stream.index = 0 => st.index < st.line_len /\ st.line_len > 0
    BY <1>3, <1>5
  <2> QED BY <1>2, <1>5, <2>1, <2>2, <2>3 DEF Lined
<1>10. used(s) = used(m)
  BY <1>2, <1>5 DEF used
<1> QED BY <1>2, <1>4, <1>5, <1>7, <1>8, <1>9, <1>10 DEF Live, s

LEMMA LinedStays ==
  ASSUME NEW m, NEW s, Lined(m), SameRows(m, s), Grown(m, s)
  PROVE  Lined(s)
BY DEF Lined, SameRows, Grown, is_some

\* The stream as StreamWriter::new fills it in.
Fresh(m, size) ==
  [m EXCEPT !.stream = [NoStream EXCEPT !.size = size, !.fctl = m.writer.frame_control]]

LEMMA FreshFacts ==
  ASSUME BuffersHoldData, NEW m, Live(m), m.stream = NoStream, NEW size \in BufLens
  PROVE  LET s == Fresh(m, size) IN
         /\ Live(s) /\ Grown(m, s) /\ s.result = m.result /\ s.stream.size > 4
         /\ used(s) = 0 /\ s.stream.index = 0
         /\ is_some(s.stream.fctl) => is_some(s.writer.frame_control)
<1> DEFINE s == Fresh(m, size)
           st == [NoStream EXCEPT !.size = size, !.fctl = m.writer.frame_control]
<1>1. /\ m \in State /\ m.writer.frame_control \in FrameControl /\ m.out \in Seq(ChunkType)
      /\ size \in Nat /\ size > 4
  BY StreamAssumption DEF Live, Sound, State, WriterType, BuffersHoldData
<1>2. /\ s.out = m.out /\ s.failed = m.failed /\ s.result = m.result
      /\ s.image = m.image /\ s.writer = m.writer /\ s.stream = st
  BY <1>1 DEF State, Fresh
<1>3. /\ st.wrapper = "None" /\ st.prefix = NoSeq /\ st.size = size /\ st.emitted = 0
      /\ st.index = 0 /\ st.line_len = 0 /\ st.to_write = 0 /\ st.curr_chunk = "IDAT"
      /\ st.fctl = m.writer.frame_control /\ st.buffer = << >>
  BY DEF NoStream
<1>4. st \in StreamType
  <2>1. << >> \in Seq(Nat)
    OBVIOUS
  <2> QED BY <1>1, <2>1 DEF StreamType, NoStream
<1>5. s \in State
  <2> HIDE DEF st
  <2> QED BY <1>1, <1>4, <1>2 DEF State, Fresh, st
<1> HIDE DEF st, s
<1>6. Grown(m, s)
  BY <1>1, <1>2, GrownSelf
<1>7. used(s) = 0
  BY <1>2, <1>3, <1>4, UsedIs
<1>8. m.stream.prefix = NoSeq
  BY DEF NoStream
<1>9. Sound(s) /\ Open(s)
  BY <1>2, <1>3, <1>5, <1>8 DEF Live, Sound, Open, NumbersKept, BufferKept, NextFree
<1> QED BY <1>1, <1>2, <1>3, <1>6, <1>7, <1>9 DEF Live, s

LEMMA StreamBegun ==
  ASSUME BuffersHoldData, NEW m, Live(m), m.stream = NoStream, m.result = "ok",
         NEW size \in BufLens, NEW s \in new(m, size)
  PROVE  Emitting(s) /\ Grown(m, s) /\ Ends(s) /\ (s.result = "ok" => Rows(s)) /\ s.image # 0
<1> DEFINE fresh == Fresh(m, size)
           x == WithFrameInfo(fresh)
<1>1. /\ Live(fresh) /\ Grown(m, fresh) /\ fresh.result = "ok" /\ fresh.stream.size > 4
      /\ used(fresh) = 0 /\ fresh.stream.index = 0
      /\ is_some(fresh.stream.fctl) => is_some(fresh.writer.frame_control)
  BY FreshFacts
<1>2. s \in Then(write_header(x), from_level)
  BY DEF new, Fresh
<1> HIDE DEF fresh
<1>3. /\ Live(x) /\ Grown(fresh, x) /\ x.result = "ok" /\ x.stream.size > 4 /\ used(x) = 0
      /\ Lined(x)
  BY <1>1, FrameSet
<1> HIDE DEF x
<1>4. PICK h \in write_header(x) : s \in IF h.result = "ok" THEN from_level(h) ELSE {h}
  BY <1>2 DEF Then
<1>5. Emitting(h) /\ Grown(x, h) /\ Ends(h) /\ Lined(h) /\ h.image # 0
  BY <1>3, <1>4, HeaderWritten, LinedStays
<1>6. Grown(m, h)
  <2>1. /\ m.out \in Seq(ChunkType) /\ fresh.out \in Seq(ChunkType)
        /\ x.out \in Seq(ChunkType) /\ h.out \in Seq(ChunkType)
    BY <1>1, <1>3, <1>5 DEF Emitting, Live, Sound, State
  <2>2. Grown(m, x)
    BY <1>1, <1>3, <2>1, GrownTransitive
  <2> QED BY <1>5, <2>1, <2>2, GrownTransitive
<1>7. CASE h.result = "ok"
  <2>1. Keeps(h, s) /\ Ends(s) /\ Rows(s)
    BY <1>4, <1>5, <1>7, LevelTaken
  <2>2. Grown(m, s)
    BY <1>5, <1>6, <2>1, GrownTransitive DEF Keeps, Emitting, Live, Sound, State
  <2>3. s.image # 0
    BY <1>5, <2>1 DEF Keeps, Grown
  <2> QED BY <2>1, <2>2, <2>3 DEF Keeps
<1>8. CASE h.result # "ok"
  BY <1>4, <1>5, <1>6, <1>8
<1> QED BY <1>7, <1>8

LEMMA FctlSet ==
  ASSUME NEW m, Emitting(m), is_some(m.stream.fctl), is_some(m.writer.frame_control)
  PROVE  LET s == set_fctl(m) IN
         /\ Emitting(s) /\ Grown(m, s) /\ s.result = m.result /\ s.stream = m.stream
         /\ is_some(s.writer.frame_control) /\ s.failed = m.failed
<1> DEFINE s == set_fctl(m)
           fc == m.writer.frame_control
           next == [fc EXCEPT !.width = m.stream.fctl.width, !.x_offset = m.stream.fctl.x_offset]
           w == [m.writer EXCEPT !.frame_control = next]
<1>1. /\ m \in State /\ m.writer \in WriterType /\ fc \in FrameControl
      /\ m.stream.fctl \in FrameControl /\ m.out \in Seq(ChunkType)
  BY DEF Emitting, Live, Sound, State, WriterType, StreamType
<1>2. /\ s.out = m.out /\ s.failed = m.failed /\ s.result = m.result
      /\ s.image = m.image /\ s.stream = m.stream /\ s.writer = w
  <2>1. s = [m EXCEPT !.writer = w]
    BY <1>1 DEF State, set_fctl, WriterType
  <2> HIDE DEF s, w
  <2> QED BY <1>1, <2>1 DEF State
<1>3. /\ next \in FrameControl /\ next.sequence_number = fc.sequence_number
      /\ next.width = m.stream.fctl.width /\ next.x_offset = m.stream.fctl.x_offset
  BY <1>1 DEF FrameControl
<1>4. /\ w \in WriterType /\ w.frame_control = next
      /\ w.num_frames = m.writer.num_frames /\ w.iend_written = m.writer.iend_written
      /\ w.animation_written = m.writer.animation_written
  <2> HIDE DEF next
  <2> QED BY <1>1, <1>3 DEF WriterType
<1>5. s \in State
  <2>1. s = [m EXCEPT !.writer = w]
    BY <1>1 DEF State, set_fctl, WriterType
  <2> HIDE DEF s, w
  <2> QED BY <1>1, <1>4, <2>1 DEF State
<1> HIDE DEF w, s, next
<1>6. Grown(m, s)
  BY <1>1, <1>2, GrownSelf
<1>7. ~ m.failed => NumbersKept(s) /\ BufferKept(s)
  BY <1>2, <1>3, <1>4 DEF Emitting, Live, Sound, NumbersKept, BufferKept, NextFree
<1>8. Fits(s.writer.frame_control) /\ is_some(s.writer.frame_control)
  BY <1>2, <1>3, <1>4 DEF Emitting, Live, Sound, Fits, is_some
<1>9. Sound(s)
  BY <1>2, <1>5, <1>7, <1>8 DEF Emitting, Live, Sound
<1>10. Open(s) /\ Tally(s) /\ Room(s)
  BY <1>2, <1>4 DEF Emitting, Live, Open, Tally, Room, used
<1> QED BY <1>2, <1>6, <1>8, <1>9, <1>10 DEF Emitting, Live, s

\* A frame ends with a row.
LEMMA FrameEnds ==
  ASSUME NEW m, m \in State, Rows(m), m.stream.to_write = 0, ~ m.failed
  PROVE  m.stream.index = 0
<1> DEFINE len == m.stream.line_len
           i == m.stream.index
<1>1. len \in Nat /\ len > 0 /\ i \in Nat /\ i < len /\ Height \in Nat
  BY StreamAssumption DEF Rows, State, StreamType
<1>2. PICK rows \in 0 .. Height : 0 + i = rows * len
  BY DEF Rows
<1> HIDE DEF len, i
<1>3. CASE rows = 0
  BY <1>1, <1>2, <1>3 DEF i
<1>4. CASE rows >= 1
  <2>1. rows * len >= len
    BY <1>1, <1>4
  <2> DEFINE product == rows * len
  <2>2. product \in Nat /\ i = product /\ product >= len
    BY <1>1, <1>2, <2>1
  <2> HIDE DEF product
  <2> QED BY <1>1, <2>2
<1> QED BY <1>1, <1>3, <1>4

LEMMA FlushKeeps ==
  ASSUME NEW m, Emitting(m), m.result = "ok", NEW s \in flush_inner(m)
  PROVE  /\ Emitting(s) /\ Steps(m, s) /\ Ends(s) /\ Keeps(m, s) /\ (Rows(m) => Rows(s))
         /\ s.result = "ok" => used(s) = 0
<1>1. /\ Steps(m, s) /\ Ends(s) /\ Tally(s)
      /\ s.result = "ok" => used(s) = 0
  BY FlushInner DEF Emitting
<1>2. s.stream.size > 4 /\ s.stream.size \in Nat
  <2>1. s.stream.size > 4
    BY <1>1 DEF Emitting, Room, Steps, Same
  <2>2. s.stream \in StreamType
    BY <1>1 DEF Steps, Live, Sound, State
  <2> QED BY <2>1, <2>2 DEF StreamType
<1>3. Room(s)
  BY <1>1, <1>2 DEF Room, Ends
<1>4. Emitting(s)
  BY <1>1, <1>3 DEF Emitting, Steps
<1> QED BY <1>1, <1>4, StepKeeps

\* new_frame behind its checks, for f with its buffer flushed.
Framed(f) == WithFrameInfo(IF is_some(f.stream.fctl) THEN set_fctl(f) ELSE f)

LEMMA FrameStarted ==
  ASSUME NEW f, Emitting(f), Rows(f), f.result = "ok", used(f) = 0, f.stream.to_write = 0,
         is_some(f.stream.fctl) => is_some(f.writer.frame_control),
         NEW s \in Then(write_header(Framed(f)),
                        LAMBDA h : from_level([h EXCEPT !.writer = increment_images_written(@)]))
  PROVE  Keeps(f, s) /\ Ends(s) /\ Rows(s) /\ s.stream.to_write > 0
<1> DEFINE g == IF is_some(f.stream.fctl) THEN set_fctl(f) ELSE f
           x == Framed(f)
<1>1. /\ Emitting(g) /\ Grown(f, g) /\ g.result = "ok" /\ g.stream = f.stream
      /\ is_some(g.stream.fctl) => is_some(g.writer.frame_control)
      /\ g.failed = f.failed
  <2>1. CASE is_some(f.stream.fctl)
    BY <2>1, FctlSet
  <2>2. CASE ~ is_some(f.stream.fctl)
    BY <2>2, GrownSelf DEF Emitting, Live, Sound, State
  <2> QED BY <2>1, <2>2
<1>2. x = WithFrameInfo(g)
  BY DEF Framed
<1> HIDE DEF g, x
<1>3. g.stream.index = 0 \/ g.failed
  BY <1>1, FrameEnds DEF Emitting, Live, Sound
<1>4. used(g) = 0 /\ g.stream.size > 4
  BY <1>1 DEF used, Emitting, Room
<1>5. /\ Live(x) /\ Grown(g, x) /\ x.result = "ok" /\ x.stream.size > 4 /\ used(x) = 0
      /\ Lined(x) /\ x.stream.to_write > 0
  BY <1>1, <1>2, <1>3, <1>4, FrameSet DEF Emitting
<1>6. PICK h \in write_header(x) :
        s \in IF h.result = "ok"
              THEN from_level([h EXCEPT !.writer = increment_images_written(@)]) ELSE {h}
  BY DEF Then, x
<1>7. /\ Emitting(h) /\ Grown(x, h) /\ Ends(h) /\ Lined(h)
      /\ h.stream.to_write > 0
  <2>1. Emitting(h) /\ Grown(x, h) /\ Ends(h) /\ SameRows(x, h)
    BY <1>5, <1>6, HeaderWritten
  <2> QED BY <1>5, <2>1, LinedStays DEF SameRows
<1>8. Grown(f, h)
  <2>1. /\ f.out \in Seq(ChunkType) /\ g.out \in Seq(ChunkType)
        /\ x.out \in Seq(ChunkType) /\ h.out \in Seq(ChunkType)
    BY <1>1, <1>5, <1>7 DEF Emitting, Live, Sound, State
  <2>2. Grown(f, x)
    BY <1>1, <1>5, <2>1, GrownTransitive
  <2> QED BY <1>7, <2>1, <2>2, GrownTransitive
<1>9. CASE h.result = "ok"
  <2> DEFINE y == [h EXCEPT !.writer = increment_images_written(@)]
  <2>1. /\ Emitting(y) /\ Grown(h, y) /\ y.result = "ok" /\ y.failed = h.failed
        /\ y.stream = h.stream
        /\ ~ h.failed => (is_some(y.writer.frame_control) <=> is_some(h.writer.frame_control))
    BY <1>7, <1>9, ImagesIncremented
  <2>2. s \in from_level(y)
    BY <1>6, <1>9
  <2> HIDE DEF y
  <2>3. Lined(y)
    BY <1>7, <2>1 DEF Lined
  <2>4. Keeps(y, s) /\ Ends(s) /\ Rows(s) /\ s.stream.to_write > 0
    BY <1>7, <2>1, <2>2, <2>3, LevelTaken
  <2>5. Keeps(h, s)
    BY <1>7, <2>1, <2>4, KeepsTransitive
  <2>6. Keeps(f, s)
    BY <1>7, <1>8, <2>5, KeepsTransitive
  <2> QED BY <2>4, <2>6
<1>10. CASE h.result # "ok"
  <2>1. s = h /\ h.failed
    BY <1>6, <1>7, <1>10 DEF Ends
  <2> QED BY <1>7, <1>8, <2>1 DEF Keeps, Rows
<1> QED BY <1>9, <1>10

LEMMA NewFrame ==
  ASSUME NEW m, Emitting(m), Rows(m), m.result = "ok", m.stream.to_write = 0,
         NEW s \in new_frame(m)
  PROVE  /\ Keeps(m, s) /\ Rows(s) /\ (s.result = "ok" => s.stream.to_write > 0)
         /\ s.result = "err" /\ ~ s.failed => s.stream.wrapper = m.stream.wrapper
<1>1. PICK f \in flush_inner(m) :
        s \in IF f.result = "ok"
              THEN IF ~ validate_new_image(f.writer) THEN {Err(f)}
                   ELSE IF is_some(f.stream.fctl) /\ ~ is_some(f.writer.frame_control)
                   THEN {Panic(f)}
                   ELSE Then(write_header(Framed(f)),
                             LAMBDA h :
                               from_level([h EXCEPT !.writer = increment_images_written(@)]))
              ELSE {f}
  BY DEF new_frame, Then, Framed
<1>2. /\ Emitting(f) /\ Steps(m, f) /\ Ends(f) /\ Keeps(m, f) /\ Rows(f)
      /\ f.result = "ok" => used(f) = 0
  BY <1>1, FlushKeeps
<1>3. f.stream.to_write = 0
  BY <1>2 DEF Steps, Same
<1>4. CASE f.result # "ok"
  BY <1>1, <1>2, <1>4 DEF Ends
<1>5. CASE f.result = "ok" /\ s = Err(f)
  <2>1. Keeps(f, s) /\ s.result = "err" /\ Rows(s) /\ s.stream = f.stream
    BY <1>2, <1>5, KeepsSelf, TwinFacts DEF Twins
  <2>2. s.stream.wrapper = m.stream.wrapper
    BY <1>2, <2>1 DEF Steps, Same
  <2> QED BY <1>2, <2>1, <2>2, KeepsTransitive DEF Keeps
<1>6. CASE f.result = "ok" /\ s = Panic(f) /\ is_some(f.stream.fctl)
           /\ ~ is_some(f.writer.frame_control)
  <2>1. f.failed
    BY <1>2, <1>6 DEF Rows
  <2>2. Keeps(f, s) /\ Rows(s)
    BY <1>2, <1>6, <2>1, KeepsSelf
  <2>3. s.result = "panic"
    BY <1>2, <1>6 DEF Panic, Emitting, Live, Sound, State
  <2> QED BY <1>2, <2>2, <2>3, KeepsTransitive DEF Keeps
<1>7. CASE /\ f.result = "ok"
           /\ is_some(f.stream.fctl) => is_some(f.writer.frame_control)
           /\ s \in Then(write_header(Framed(f)),
                         LAMBDA h : from_level([h EXCEPT !.writer = increment_images_written(@)]))
  <2>1. Keeps(f, s) /\ Rows(s) /\ s.stream.to_write > 0 /\ Ends(s)
    BY <1>2, <1>3, <1>7, FrameStarted
  <2> QED BY <1>2, <2>1, KeepsTransitive DEF Keeps, Ends
<1> QED BY <1>1, <1>4, <1>5, <1>6, <1>7

LEMMA FrameFollows ==
  ASSUME NEW m, Emitting(m), Rows(m), m.result = "ok", m.stream.to_write = 0,
         NEW s \in NextFrame(m)
  PROVE  Keeps(m, s) /\ Rows(s) /\ (s.result = "ok" => s.stream.to_write > 0)
<1>1. PICK x \in Then(IF Compressing(m) THEN FinishCompressor(m) ELSE {m}, new_frame) :
        s \in OrUnrecoverable({x})
  BY DEF NextFrame, OrUnrecoverable
<1>2. PICK c \in IF Compressing(m) THEN FinishCompressor(m) ELSE {m} :
        x \in IF c.result = "ok" THEN new_frame(c) ELSE {c}
  BY <1>1 DEF Then
<1>3. /\ Keeps(m, c) /\ Rows(c) /\ Ends(c) /\ Emitting(c)
      /\ c.result = "ok" => c.stream.to_write = 0
      /\ c.result = "ok" => ~ Compressing(c)
  <2>1. CASE Compressing(m)
    BY <1>2, <2>1, CompressorFinished DEF Compressing, Keeps
  <2>2. CASE ~ Compressing(m)
    BY <1>2, <2>2, KeepsSelf DEF Ends
  <2> QED BY <2>1, <2>2
<1>4. /\ Keeps(m, x) /\ Rows(x) /\ Emitting(x)
      /\ x.result = "ok" => x.stream.to_write > 0
      /\ x.result = "err" /\ ~ x.failed => ~ Compressing(x)
  <2>1. CASE c.result = "ok"
    <3>1. /\ Keeps(c, x) /\ Rows(x) /\ (x.result = "ok" => x.stream.to_write > 0)
          /\ x.result = "err" /\ ~ x.failed => x.stream.wrapper = c.stream.wrapper
      BY <1>2, <1>3, <2>1, NewFrame
    <3>2. x.result = "err" /\ ~ x.failed => ~ Compressing(x)
      BY <1>3, <2>1, <3>1 DEF Compressing
    <3> QED BY <1>3, <3>1, <3>2, KeepsTransitive DEF Keeps
  <2>2. CASE c.result # "ok"
    BY <1>2, <1>3, <2>2 DEF Ends
  <2> QED BY <2>1, <2>2
<1>5. /\ Emitting(s) /\ Grown(x, s) /\ s.result = x.result /\ s.failed = x.failed
      /\ ~ (x.result = "err" /\ Compressing(x)) => s = x
  BY <1>1, <1>4, Unrecoverable
<1>6. Keeps(m, s)
  <2>1. Keeps(x, s)
    BY <1>4, <1>5 DEF Keeps
  <2> QED BY <1>4, <2>1, KeepsTransitive DEF Keeps
<1>7. Rows(s)
  <2>1. CASE s = x
    BY <1>4, <2>1
  <2>2. CASE s.failed
    BY <2>2 DEF Rows
  <2> QED BY <1>4, <1>5, <2>1, <2>2
<1>8. s.result = "ok" => s.stream.to_write > 0
  BY <1>4, <1>5
<1> QED BY <1>6, <1>7, <1>8

------------------------------------------------------------------------------
(* The calls on a stream.                                                       *)

Placed(m, index, to_write) ==
  [m EXCEPT !.stream.index = index, !.stream.to_write = to_write]

LEMMA PlacedFacts ==
  ASSUME NEW m, Emitting(m), NEW i, NEW t, i \in Nat, t \in Nat
  PROVE  LET s == Placed(m, i, t) IN
         /\ Emitting(s) /\ Grown(m, s) /\ s.result = m.result /\ s.failed = m.failed
         /\ s.writer = m.writer /\ s.stream.wrapper = m.stream.wrapper
         /\ s.stream.index = i /\ s.stream.to_write = t
         /\ s.stream.line_len = m.stream.line_len /\ s.stream.fctl = m.stream.fctl
<1> DEFINE s == Placed(m, i, t)
           st == [m.stream EXCEPT !.index = i, !.to_write = t]
<1>1. m \in State /\ m.stream \in StreamType /\ m.out \in Seq(ChunkType)
  BY DEF Emitting, Live, Sound, State
<1>2. /\ s.out = m.out /\ s.failed = m.failed /\ s.result = m.result /\ s.image = m.image
      /\ s.writer = m.writer /\ s.stream = st
  BY <1>1 DEF State, Placed
<1>3. /\ st \in StreamType /\ st.wrapper = m.stream.wrapper /\ st.prefix = m.stream.prefix
      /\ st.size = m.stream.size /\ st.curr_chunk = m.stream.curr_chunk
      /\ st.index = i /\ st.line_len = m.stream.line_len
      /\ st.to_write = t /\ st.fctl = m.stream.fctl
      /\ st.emitted = m.stream.emitted /\ st.buffer = m.stream.buffer
  <2>1. st \in StreamType
    BY <1>1 DEF StreamType
  <2> QED BY <1>1, <2>1 DEF StreamType
<1>4. s \in State
  <2>1. s = [m EXCEPT !.stream = st]
    BY <1>1 DEF State, Placed
  <2> HIDE DEF st, s
  <2> QED BY <1>1, <1>3, <2>1 DEF State
<1> HIDE DEF st, s
<1>5. Grown(m, s)
  BY <1>1, <1>2, GrownSelf
<1>6. Sound(s)
  BY <1>2, <1>3, <1>4 DEF Emitting, Live, Sound, NumbersKept, BufferKept, NextFree
<1>7. Open(s) /\ Tally(s) /\ Room(s)
  BY <1>2, <1>3 DEF Emitting, Live, Open, Tally, Room, used
<1> QED BY <1>2, <1>3, <1>5, <1>6, <1>7 DEF Emitting, Live, s

\* How much of len bytes the row takes.
Taken(m, len) ==
  IF len <= m.stream.line_len - m.stream.index THEN len ELSE m.stream.line_len - m.stream.index

\* A row does not go beyond what the frame still needs.
LEMMA RowWithinFrame ==
  ASSUME NEW m, m \in State, Rows(m), ~ m.failed, m.stream.to_write > 0,
         NEW len \in Nat \ {0}
  PROVE  /\ Taken(m, len) \in Nat /\ Taken(m, len) <= m.stream.to_write
         /\ m.stream.index + Taken(m, len) <= m.stream.line_len
         /\ \E rows \in 0 .. Height :
              (m.stream.to_write - Taken(m, len)) + (m.stream.index + Taken(m, len)) =
                rows * m.stream.line_len
         /\ m.stream.index + Taken(m, len) = m.stream.line_len =>
              \E rows \in 0 .. Height :
                m.stream.to_write - Taken(m, len) = rows * m.stream.line_len
<1> DEFINE line == m.stream.line_len
           i == m.stream.index
           t == m.stream.to_write
           n == Taken(m, len)
<1>1. line \in Nat /\ line > 0 /\ i \in Nat /\ i < line /\ t \in Nat /\ t > 0 /\ Height \in Nat
  BY StreamAssumption DEF Rows, State, StreamType
<1>2. PICK rows \in 0 .. Height : t + i = rows * line
  BY DEF Rows
<1>3. n \in Nat /\ i + n <= line
  BY <1>1 DEF Taken
<1> HIDE DEF line, i, t, n
<1> DEFINE product == rows * line
           before == (rows - 1) * line
<1>4. rows \in Nat /\ rows >= 1 /\ rows <= Height
  <2>1. rows # 0
    <3> SUFFICES ASSUME rows = 0 PROVE FALSE
      OBVIOUS
    <3> QED BY <1>1, <1>2
  <2> QED BY <2>1, <1>1
<1>5. product \in Nat /\ before \in Nat /\ product = before + line
  BY <1>1, <1>4
<1>6. t + i = product
  BY <1>2
<1> HIDE DEF product, before
<1>7. n <= t
  BY <1>1, <1>3, <1>5, <1>6
<1>8. (t - n) + (i + n) = product
  BY <1>1, <1>3, <1>6
<1>9. i + n = line => t - n = before
  BY <1>1, <1>3, <1>5, <1>6
<1>10. rows - 1 \in 0 .. Height
  BY <1>1, <1>4
<1> QED BY <1>3, <1>7, <1>8, <1>9, <1>10 DEF line, i, t, n, product, before

LEMMA RowFilled ==
  ASSUME NEW m, Emitting(m), Rows(m), m.result = "ok", m.stream.to_write > 0,
         NEW len \in DataLens, NEW s \in FillRow(m, len)
  PROVE  Keeps(m, s) /\ (s.result # "panic" => Rows(s))
<1> DEFINE n == Taken(m, len)
           f == Placed(m, m.stream.index + n, m.stream.to_write - n)
<1>1. m \in State /\ m.stream \in StreamType /\ len \in Nat \ {0}
  BY StreamAssumption DEF Emitting, Live, Sound, State
<1>2. s \in IF m.stream.index > m.stream.line_len \/ n > m.stream.to_write THEN {Panic(m)}
            ELSE IF f.stream.index < m.stream.line_len THEN {f}
            ELSE IF ~ Compressing(m) THEN {Panic(f)}
            ELSE Then(EmitSome(f), LAMBDA x : { [x EXCEPT !.stream.index = 0] })
  BY DEF FillRow, Placed, Taken
<1>3. m.stream.index \in Nat /\ m.stream.line_len \in Nat /\ m.stream.to_write \in Nat
  BY <1>1 DEF StreamType
<1>4. ~ m.failed => /\ n \in Nat /\ n <= m.stream.to_write
                    /\ m.stream.index + n <= m.stream.line_len
                    /\ m.stream.index < m.stream.line_len
  BY <1>1, RowWithinFrame DEF Rows
<1>5. CASE m.stream.index > m.stream.line_len \/ n > m.stream.to_write
  <2>1. m.failed
    <3> HIDE DEF n
    <3> QED BY <1>3, <1>4, <1>5
  <2>2. s = Panic(m)
    BY <1>2, <1>5
  <2> QED BY <2>1, <2>2, KeepsSelf
<1>6. CASE ~ (m.stream.index > m.stream.line_len \/ n > m.stream.to_write)
  <2>1. /\ n \in Nat /\ m.stream.index + n \in Nat /\ m.stream.to_write - n \in Nat
        /\ m.stream.index + n <= m.stream.line_len
    <3>1. n \in Nat /\ m.stream.index + n <= m.stream.line_len
      BY <1>1, <1>3, <1>6 DEF Taken
    <3> HIDE DEF n
    <3> QED BY <1>3, <1>6, <3>1
  <2>2. /\ Emitting(f) /\ Grown(m, f) /\ f.result = "ok" /\ f.failed = m.failed
        /\ f.writer = m.writer /\ f.stream.wrapper = m.stream.wrapper
        /\ f.stream.index = m.stream.index + n /\ f.stream.to_write = m.stream.to_write - n
        /\ f.stream.line_len = m.stream.line_len /\ f.stream.fctl = m.stream.fctl
    <3> DEFINE i == m.stream.index + n
               t == m.stream.to_write - n
    <3>1. i \in Nat /\ t \in Nat
      BY <2>1
    <3>2. f = Placed(m, i, t)
      OBVIOUS
    <3> HIDE DEF i, t, f
    <3>3. /\ Emitting(f) /\ Grown(m, f) /\ f.result = m.result /\ f.failed = m.failed
          /\ f.writer = m.writer /\ f.stream.wrapper = m.stream.wrapper
          /\ f.stream.index = i /\ f.stream.to_write = t
          /\ f.stream.line_len = m.stream.line_len /\ f.stream.fctl = m.stream.fctl
      BY <3>1, <3>2, PlacedFacts
    <3> QED BY <3>3 DEF i, t
  <2>3. Keeps(m, f)
    BY <2>2 DEF Keeps
  <2>4. \/ s = f /\ f.stream.index < f.stream.line_len
        \/ s = Panic(f) /\ ~ Compressing(f)
        \/ /\ s \in Then(EmitSome(f), LAMBDA x : { [x EXCEPT !.stream.index = 0] })
           /\ f.stream.index = f.stream.line_len
    <3> DEFINE S == Then(EmitSome(f), LAMBDA x : { [x EXCEPT !.stream.index = 0] })
    <3>1. s \in IF f.stream.index < m.stream.line_len THEN {f}
               ELSE IF ~ Compressing(m) THEN {Panic(f)} ELSE S
      BY <1>2, <1>6
    <3>2. /\ f.stream.index \in Nat /\ m.stream.line_len \in Nat
          /\ f.stream.index <= m.stream.line_len /\ f.stream.line_len = m.stream.line_len
      <4> HIDE DEF n, f
      <4> QED BY <1>3, <2>1, <2>2
    <3>3. Compressing(f) <=> Compressing(m)
      <4> HIDE DEF n, f
      <4> QED BY <2>2 DEF Compressing
    <3>4. \/ s = f /\ f.stream.index < f.stream.line_len
          \/ s = Panic(f) /\ ~ Compressing(f)
          \/ s \in S /\ f.stream.index = f.stream.line_len
      <4> HIDE DEF S, f
      <4> QED BY <3>1, <3>2, <3>3
    <3> QED BY <3>4
  <2>5. ~ m.failed =>
          /\ \E rows \in 0 .. Height :
               f.stream.to_write + f.stream.index = rows * f.stream.line_len
          /\ f.stream.index = f.stream.line_len =>
               \E rows \in 0 .. Height : f.stream.to_write = rows * f.stream.line_len
          /\ f.stream.line_len > 0 /\ Compressing(f)
          /\ is_some(f.stream.fctl) => is_some(f.writer.frame_control)
    <3>1. ~ m.failed => Compressing(f) /\ f.stream.line_len > 0
          /\ (is_some(f.stream.fctl) => is_some(f.writer.frame_control))
      <4> HIDE DEF f
      <4> QED BY <2>2 DEF Rows, Compressing
    <3> HIDE DEF f
    <3> QED BY <1>1, <2>2, <3>1, RowWithinFrame
  <2> HIDE DEF f
  <2>6. CASE s = f /\ f.stream.index < f.stream.line_len
    <3>1. Rows(s)
      BY <2>2, <2>5, <2>6 DEF Rows
    <3> QED BY <2>3, <2>6, <3>1
  <2>7. CASE s = Panic(f) /\ ~ Compressing(f)
    <3>1. f.failed /\ Keeps(f, s) /\ Rows(s)
      BY <2>2, <2>5, <2>7, KeepsSelf
    <3> QED BY <2>2, <3>1, KeepsTransitive
  <2>8. CASE /\ s \in Then(EmitSome(f), LAMBDA x : { [x EXCEPT !.stream.index = 0] })
             /\ f.stream.index = f.stream.line_len
    <3>1. PICK x \in EmitSome(f) :
            s \in IF x.result = "ok" THEN { [x EXCEPT !.stream.index = 0] } ELSE {x}
      BY <2>8 DEF Then
    <3>2. Emitting(x) /\ Steps(f, x) /\ Ends(x) /\ Keeps(f, x)
      BY <2>2, <3>1, EmissionsEmitted
    <3>3. Keeps(m, x)
      BY <2>2, <3>2, KeepsTransitive
    <3>4. CASE x.result # "ok"
      BY <3>1, <3>2, <3>3, <3>4 DEF Ends, Rows
    <3>5. CASE x.result = "ok"
      <4>1. x.stream \in StreamType /\ x.stream.to_write \in Nat /\ x \in State
        BY <3>2 DEF Emitting, Live, Sound, State, StreamType
      <4>2. s = Placed(x, 0, x.stream.to_write)
        <5>1. [x EXCEPT !.stream.index = 0] = Placed(x, 0, x.stream.to_write)
          BY <4>1 DEF Placed, State, StreamType
        <5> QED BY <3>1, <3>5, <5>1
      <4>3. /\ Emitting(s) /\ Grown(x, s) /\ s.result = "ok" /\ s.failed = x.failed
            /\ s.writer = x.writer /\ s.stream.wrapper = x.stream.wrapper
            /\ s.stream.index = 0 /\ s.stream.to_write = x.stream.to_write
            /\ s.stream.line_len = x.stream.line_len /\ s.stream.fctl = x.stream.fctl
        BY <3>2, <3>5, <4>1, <4>2, PlacedFacts
      <4>4. Keeps(m, s)
        <5>1. Keeps(x, s)
          BY <4>3 DEF Keeps
        <5> QED BY <3>2, <3>3, <5>1, KeepsTransitive DEF Keeps
      <4>5. Rows(s)
        <5> SUFFICES ASSUME ~ s.failed PROVE Rows(s)
          BY DEF Rows
        <5>1. ~ m.failed
          BY <3>3, <4>3 DEF Keeps, Grown
        <5>2. /\ x.stream.to_write = f.stream.to_write
              /\ x.stream.line_len = f.stream.line_len
              /\ x.stream.wrapper = f.stream.wrapper /\ x.stream.fctl = f.stream.fctl
              /\ x.writer.frame_control.width = f.writer.frame_control.width
          BY <3>2 DEF Steps, Same
        <5>3. s.stream.to_write + s.stream.index = s.stream.to_write
          BY <4>1, <4>3
        <5> QED BY <2>5, <2>8, <4>3, <5>1, <5>2, <5>3 DEF Rows, is_some, Compressing
      <4> QED BY <4>4, <4>5
    <3> QED BY <3>4, <3>5
  <2> QED BY <2>4, <2>6, <2>7, <2>8
<1> QED BY <1>5, <1>6

LEMMA RowWritten ==
  ASSUME NEW m, Emitting(m), Rows(m), m.result = "ok", NEW len \in DataLens,
         NEW s \in write(m, len)
  PROVE  Keeps(m, s) /\ (s.result # "panic" => Rows(s))
<1>1. m.stream.to_write \in Nat
  BY DEF Emitting, Live, Sound, State, StreamType
<1>2. CASE m.stream.wrapper = "Unrecoverable"
  <2>1. s = Err(m)
    BY <1>2 DEF write
  <2> QED BY <2>1, KeepsSelf, TwinFacts
<1>3. CASE m.stream.wrapper # "Unrecoverable"
  <2>1. PICK x \in IF m.stream.to_write = 0 THEN NextFrame(m) ELSE {m} :
          s \in IF x.result = "ok" THEN FillRow(x, len) ELSE {x}
    BY <1>3 DEF write, Then
  <2>2. Keeps(m, x) /\ Rows(x) /\ (x.result = "ok" => x.stream.to_write > 0)
    <3>1. CASE m.stream.to_write = 0
      BY <2>1, <3>1, FrameFollows
    <3>2. CASE m.stream.to_write # 0
      BY <1>1, <2>1, <3>2, KeepsSelf
    <3> QED BY <3>1, <3>2
  <2>3. CASE x.result = "ok"
    <3>1. Keeps(x, s) /\ (s.result # "panic" => Rows(s))
      BY <2>1, <2>2, <2>3, RowFilled DEF Keeps
    <3> QED BY <2>2, <3>1, KeepsTransitive DEF Keeps
  <2>4. CASE x.result # "ok"
    BY <2>1, <2>2, <2>4
  <2> QED BY <2>3, <2>4
<1> QED BY <1>2, <1>3

LEMMA RowsFlushed ==
  ASSUME NEW m, Emitting(m), m.result = "ok", NEW s \in flush(m)
  PROVE  Keeps(m, s) /\ (Rows(m) => Rows(s)) /\ s.result \in {"ok", "err"}
<1> DEFINE S == IF m.stream.wrapper = "Flate2" THEN Then(EmitSome(m), flush_inner)
                ELSE IF m.stream.wrapper = "Chunk" THEN flush_inner(m)
                ELSE IF m.stream.wrapper = "FDeflate" THEN {m}
                ELSE {Err(m)}
<1>1. PICK x \in S : s \in IF x.result = "ok"
                           THEN IF x.stream.index > 0 THEN {Err(x)} ELSE {x} ELSE {x}
  BY DEF flush, Then
<1>2. Keeps(m, x) /\ (Rows(m) => Rows(x)) /\ x.result \in {"ok", "err"}
  <2>1. CASE x \in Then(EmitSome(m), flush_inner)
    <3>1. PICK e \in EmitSome(m) : x \in IF e.result = "ok" THEN flush_inner(e) ELSE {e}
      BY <2>1 DEF Then
    <3>2. Emitting(e) /\ Keeps(m, e) /\ (Rows(m) => Rows(e)) /\ Ends(e)
      BY <3>1, EmissionsEmitted
    <3>3. CASE e.result = "ok"
      <4>1. Keeps(e, x) /\ (Rows(e) => Rows(x)) /\ Ends(x)
        BY <3>1, <3>2, <3>3, FlushKeeps
      <4> QED BY <3>2, <4>1, KeepsTransitive DEF Keeps, Ends
    <3>4. CASE e.result # "ok"
      BY <3>1, <3>2, <3>4 DEF Ends
    <3> QED BY <3>3, <3>4
  <2>2. CASE x \in flush_inner(m)
    BY <2>2, FlushKeeps DEF Ends
  <2>3. CASE x = m
    BY <2>3, KeepsSelf
  <2>4. CASE x = Err(m)
    BY <2>4, KeepsSelf, TwinFacts
  <2> QED BY <1>1, <2>1, <2>2, <2>3, <2>4
<1>3. CASE s = x
  BY <1>2, <1>3
<1>4. CASE s = Err(x)
  <2>1. Keeps(x, s) /\ s.result = "err" /\ (Rows(x) => Rows(s))
    BY <1>2, <1>4, KeepsSelf, TwinFacts DEF Keeps
  <2> QED BY <1>2, <2>1, KeepsTransitive DEF Keeps
<1> QED BY <1>1, <1>3, <1>4

LEMMA WrapperTaken ==
  ASSUME NEW m, Emitting(m), m.result = "ok", NEW s \in TakeWrapper(m)
  PROVE  Keeps(m, s) /\ s.result \in {"ok", "err"}
<1> DEFINE outcome == IF Compressing(m) THEN EmitRest(m)
                      ELSE IF validate_sequence_done(m.writer) THEN {m} ELSE {Err(m)}
<1>0. PICK u \in Unwrapped(outcome) :
        s \in { [d EXCEPT !.result = u.result] : d \in drop_chunk_writer({u}) }
  BY DEF TakeWrapper
<1>1. PICK d \in drop_chunk_writer({u}) : s = [d EXCEPT !.result = u.result]
  BY <1>0
<1>2. PICK x \in outcome : u = Wrapped(x, "None")
  BY <1>0 DEF Unwrapped, Wrapped
<1>3. Emitting(x) /\ Keeps(m, x) /\ x.result \in {"ok", "err"}
  <2>1. CASE x \in EmitRest(m)
    BY <2>1, EmissionsEmitted DEF Ends
  <2>2. CASE x = m \/ x = Err(m)
    BY <2>2, KeepsSelf DEF Keeps
  <2> QED BY <1>2, <2>1, <2>2
<1> HIDE DEF outcome
<1>4. "None" \in Wrappers
  BY DEF Wrappers
<1>5. Emitting(u) /\ Grown(x, u) /\ u.result = x.result
  BY <1>2, <1>3, <1>4, Rewrapped
<1>6. Steps(u, d) /\ Emitting(d) /\ d.result = "ok"
  BY <1>1, <1>3, <1>5, DropChunkWriter
<1>7. Twins(d, s) /\ s.result = u.result
  BY <1>1, <1>3, <1>5, <1>6, ResultTwins DEF Emitting, Live, Sound
<1>8. Emitting(s) /\ Grown(d, s)
  BY <1>6, <1>7, TwinFacts DEF Emitting, Live
<1>9. Keeps(d, s)
  BY <1>3, <1>5, <1>7, <1>8 DEF Keeps
<1>10. Keeps(u, s)
  BY <1>5, <1>6, <1>9, KeepsTransitive DEF Steps
<1>11. Keeps(x, s)
  BY <1>3, <1>5, <1>10, KeepsTransitive
<1>12. Keeps(m, s)
  BY <1>3, <1>11, KeepsTransitive DEF Keeps
<1> QED BY <1>3, <1>5, <1>7, <1>12

LEMMA StreamFinished ==
  ASSUME NEW m, Emitting(m), m.result = "ok", NEW s \in finish_mut(m)
  PROVE  Keeps(m, s) /\ s.result \in {"ok", "err"}
<1>1. CASE s = Err(m)
  BY <1>1, KeepsSelf
<1>2. CASE s \in Then(flush(m), TakeWrapper)
  <2>1. PICK x \in flush(m) : s \in IF x.result = "ok" THEN TakeWrapper(x) ELSE {x}
    BY <1>2 DEF Then
  <2>2. Keeps(m, x) /\ x.result \in {"ok", "err"}
    BY <2>1, RowsFlushed
  <2>3. CASE x.result = "ok"
    <3>1. Keeps(x, s) /\ s.result \in {"ok", "err"}
      BY <2>1, <2>2, <2>3, WrapperTaken DEF Keeps
    <3> QED BY <2>2, <3>1, KeepsTransitive DEF Keeps
  <2>4. CASE x.result # "ok"
    BY <2>1, <2>2, <2>4
  <2> QED BY <2>3, <2>4
<1> QED BY <1>1, <1>2 DEF finish_mut

------------------------------------------------------------------------------
(* The end of the file.                                                         *)

Appended(m, c) == [m EXCEPT !.out = Append(@, c)]

\* A chunk that belongs to no image, has no number and brings no data.
LEMMA AppendedFacts ==
  ASSUME NEW m, Sound(m), NEW c \in ChunkType, c.seq = NoSeq, c.data = << >>,
         c.image <= m.image, File!MayFollow(m.out, c, m.failed)
  PROVE  LET s == Appended(m, c) IN
         /\ Sound(s) /\ Grown(m, s) /\ s.result = m.result /\ s.failed = m.failed
         /\ s.writer = m.writer /\ s.stream = m.stream /\ s.image = m.image
         /\ File!Types(s.out) = File!Types(m.out) \cup {c.type} /\ s.out # << >>
<1> DEFINE s == Appended(m, c)
<1>1. m \in State /\ m.out \in Seq(ChunkType) /\ m.image \in Nat
  BY DEF Sound, State
<1>2. /\ s.out = Append(m.out, c) /\ s.failed = m.failed /\ s.result = m.result
      /\ s.image = m.image /\ s.stream = m.stream /\ s.writer = m.writer
  BY <1>1 DEF State, Appended
<1>3. s \in State
  BY <1>1 DEF State, Appended
<1> HIDE DEF s
<1>4. Grown(m, s)
  BY <1>1, <1>2, GrownOne
<1>5. \A i \in DOMAIN s.out : s.out[i].image <= s.image
  <2>1. Append(m.out, c)[Len(m.out) + 1] = c
    BY <1>1
  <2>2. DOMAIN s.out = DOMAIN m.out \cup {Len(m.out) + 1}
        /\ \A i \in DOMAIN m.out : s.out[i] = m.out[i]
    BY <1>1, <1>2, AppendFacts
  <2>3. \A i \in DOMAIN m.out : m.out[i].image <= m.image
    BY DEF Sound
  <2> QED BY <1>2, <2>1, <2>2, <2>3
<1>6. File!Reached(s.image, s.out) = File!Reached(m.image, m.out)
  BY <1>1, <1>2, ReachedAppend
<1>7. NextFree(s) = NextFree(m) /\ File!Numbered(s.out) = File!Numbered(m.out)
  <2>1. File!Numbered(s.out) = File!Numbered(m.out) + 0 /\ File!Numbered(m.out) \in Nat
    BY <1>1, <1>2, NumberedAppend
  <2> QED BY <1>2, <2>1 DEF NextFree
<1>8. ~ s.failed => NumbersKept(s) /\ BufferKept(s)
  BY <1>2, <1>6, <1>7 DEF Sound, NumbersKept, BufferKept
<1>9. Sound(s)
  BY <1>2, <1>3, <1>5, <1>8 DEF Sound
<1>10. File!Types(s.out) = File!Types(m.out) \cup {c.type} /\ s.out # << >>
  <2>1. s.out # << >>
    BY <1>1, <1>2
  <2> QED BY <1>1, <1>2, <2>1, TypesAppend
<1> QED BY <1>2, <1>4, <1>9, <1>10 DEF s

PlainTypes == ChunkTypes \ {"fcTL", "IDAT", "fdAT"}

LEMMA PlainFacts ==
  ASSUME NEW type \in PlainTypes
  PROVE  LET c == Plain(type) IN
         /\ c \in ChunkType /\ c.seq = NoSeq /\ c.data = << >> /\ c.image = 0 /\ c.type = type
<1>1. << >> \in Seq(Nat) /\ NoFrameControl \in FrameControl /\ type \in ChunkTypes
  BY DEF NoFrameControl, FrameControl, PlainTypes
<1> QED BY <1>1 DEF Plain, Chunk, ChunkType

\* As Open, but perhaps without a header.
Unclosed(m) == ~ m.writer.iend_written /\ "IEND" \notin File!Types(m.out)

LEMMA LiveUnclosed == \A m : Live(m) => Sound(m) /\ Unclosed(m)
BY DEF Live, Open, Unclosed

\* What writes nothing after it.
Closes(m, s) ==
  /\ Sound(s) /\ Grown(m, s) /\ s.result # "panic"
  /\ s.failed \/ "IEND" \in File!Types(s.out)

Ending(m) == [m EXCEPT !.writer.iend_written = TRUE]

LEMMA IendWritten ==
  ASSUME NEW m, Sound(m), Unclosed(m), m.result = "ok", NEW s \in write_iend(m)
  PROVE  Closes(m, s) /\ s.writer.iend_written /\ s.result \in {"ok", "err"}
<1> DEFINE e == Ending(m)
           c == Plain("IEND")
<1>1. m \in State /\ m.writer \in WriterType /\ m.out \in Seq(ChunkType) /\ m.image \in Nat
  BY DEF Live, Sound, State
<1>2. /\ e.out = m.out /\ e.failed = m.failed /\ e.result = "ok"
      /\ e.image = m.image /\ e.stream = m.stream
      /\ e.writer = [m.writer EXCEPT !.iend_written = TRUE]
  BY <1>1 DEF State, Ending
<1>3. /\ e.writer \in WriterType /\ e.writer.iend_written
      /\ e.writer.frame_control = m.writer.frame_control
      /\ e.writer.num_frames = m.writer.num_frames
      /\ e.writer.animation_written = m.writer.animation_written
  BY <1>1, <1>2 DEF WriterType
<1>4. e \in State
  BY <1>1, <1>2, <1>3 DEF State, Ending
<1>5. s = Appended(e, c) \/ s = Fail(e)
  BY DEF write_iend, WriteChunk, Ending, Appended
<1> HIDE DEF e
<1>6. Grown(m, e)
  BY <1>1, <1>2, GrownSelf
<1>7. Sound(e)
  BY <1>2, <1>3, <1>4 DEF Live, Sound, NumbersKept, BufferKept, NextFree
<1>8. c \in ChunkType /\ c.seq = NoSeq /\ c.data = << >> /\ c.image = 0 /\ c.type = "IEND"
  BY PlainFacts DEF PlainTypes, ChunkTypes
<1> HIDE DEF c
<1>9. File!MayFollow(e.out, c, e.failed)
  <2>1. "IEND" \notin File!Types(e.out)
    BY <1>2 DEF Unclosed
  <2>2. File!HeaderFirst(e.out, c)
    BY <1>8 DEF File!HeaderFirst
  <2>3. File!TakesNextNumber(e.out, c) /\ File!FrameInImage(c) /\ File!ContinuesImage(e.out, c)
    BY <1>8 DEF File!TakesNextNumber, File!FrameInImage, File!ContinuesImage, NoSeq
  <2> QED BY <2>1, <2>2, <2>3 DEF File!MayFollow
<1>10. CASE s = Appended(e, c)
  <2>1. c.image <= e.image
    BY <1>1, <1>2, <1>8
  <2>2. /\ Sound(s) /\ Grown(e, s) /\ s.result = e.result /\ s.writer = e.writer
        /\ File!Types(s.out) = File!Types(e.out) \cup {c.type}
    BY <1>7, <1>8, <1>9, <1>10, <2>1, AppendedFacts
  <2>3. Grown(m, s)
    BY <1>1, <1>6, <1>7, <2>2, GrownTransitive DEF Sound, State
  <2> QED BY <1>2, <1>3, <1>8, <2>2, <2>3 DEF Closes
<1>11. CASE s = Fail(e)
  <2>1. /\ Sound(s) /\ Grown(e, s) /\ s.failed /\ s.result = "err" /\ s.writer = e.writer
    BY <1>7, <1>11, SinkRefuses
  <2>2. Grown(m, s)
    BY <1>1, <1>6, <1>7, <2>1, GrownTransitive DEF Sound, State
  <2> QED BY <1>3, <2>1, <2>2 DEF Closes
<1> QED BY <1>5, <1>10, <1>11

LEMMA ClosesTwin ==
  ASSUME NEW m, NEW s, NEW t, Closes(m, s), Twins(s, t), t.result # "panic"
  PROVE  Closes(m, t)
<1>1. Sound(t) /\ t.out = s.out /\ t.failed = s.failed /\ t.image = s.image
  BY TwinFacts DEF Closes, Twins
<1>2. Grown(m, t)
  BY <1>1 DEF Closes, Grown
<1> QED BY <1>1, <1>2 DEF Closes

LEMMA ClosesTransitive ==
  ASSUME NEW m, NEW s, NEW t, Sound(m), Sound(s), Grown(m, s), Closes(s, t)
  PROVE  Closes(m, t)
<1>1. Grown(m, t)
  BY GrownTransitive DEF Closes, Sound, State
<1> QED BY <1>1 DEF Closes

LEMMA WriterDropped ==
  ASSUME NEW m, Sound(m), Unclosed(m), m.result = "ok", NEW s \in drop_writer(m)
  PROVE  Closes(m, s) /\ s.result = "ok"
<1>1. PICK x \in write_iend(m) : s = IF x.result = "panic" THEN x ELSE [x EXCEPT !.result = "ok"]
  BY DEF drop_writer, Ignore, Unclosed
<1>2. Closes(m, x)
  BY <1>1, IendWritten
<1>3. Twins(x, s) /\ s.result = "ok"
  BY <1>1, <1>2, ResultTwins DEF Closes, Sound
<1> QED BY <1>2, <1>3, ClosesTwin

\* finish, and the Writer that is dropped behind it.
LEMMA WriterFinished ==
  ASSUME NEW m, Live(m), m.result = "ok", NEW x \in finish_writer(m),
         NEW d \in drop_writer([x EXCEPT !.result = "ok"])
  PROVE  Closes(m, [d EXCEPT !.result = x.result]) /\ x.result \in {"ok", "err"}
<1> DEFINE o == [x EXCEPT !.result = "ok"]
<1>1. CASE x = Err(m)
  <2>1. Twins(m, x) /\ x.result = "err"
    BY <1>1, ErrSteps
  <2>2. Twins(x, o) /\ o.result = "ok"
    BY <2>1, ResultTwins DEF Twins
  <2>3. Live(o) /\ Grown(m, o)
    <3>1. Twins(m, o)
      BY <2>1, <2>2 DEF Twins
    <3> QED BY <3>1, TwinFacts DEF Live
  <2> HIDE DEF o
  <2>4. Closes(o, d) /\ d.result = "ok"
    BY <2>2, <2>3, LiveUnclosed, WriterDropped DEF o
  <2>5. Closes(m, d)
    BY <2>3, <2>4, ClosesTransitive DEF Live
  <2>6. Twins(d, [d EXCEPT !.result = x.result]) /\ [d EXCEPT !.result = x.result].result = "err"
    BY <2>1, <2>5, ResultTwins DEF Closes, Sound
  <2> QED BY <2>1, <2>5, <2>6, ClosesTwin
<1>2. CASE x # Err(m)
  <2>1. PICK i \in write_iend(m) : x \in IF i.result = "ok" THEN {i, Fail(i)} ELSE {i}
    BY <1>2 DEF finish_writer, Then
  <2>2. Closes(m, i) /\ i.writer.iend_written /\ i.result \in {"ok", "err"}
    BY <2>1, LiveUnclosed, IendWritten
  <2>3. Closes(m, x) /\ x.writer.iend_written /\ x.result \in {"ok", "err"}
    <3>1. CASE x = i
      BY <2>2, <3>1
    <3>2. CASE x = Fail(i)
      <4>1. /\ Sound(x) /\ Grown(i, x) /\ x.failed /\ x.result = "err" /\ x.writer = i.writer
        BY <2>2, <3>2, SinkRefuses DEF Closes
      <4>2. Grown(m, x)
        BY <2>2, <4>1, GrownTransitive DEF Closes, Live, Sound, State
      <4> QED BY <2>2, <4>1, <4>2 DEF Closes
    <3> QED BY <2>1, <3>1, <3>2
  <2>4. x \in State /\ x.result # "panic"
    BY <2>3 DEF Closes, Sound
  <2>5. Twins(x, o) /\ o.result = "ok"
    BY <2>4, ResultTwins
  <2>6. d = o
    BY <2>3, <2>5 DEF drop_writer, Twins
  <2>7. [d EXCEPT !.result = x.result] = x
    BY <2>4, <2>6 DEF State
  <2> QED BY <2>3, <2>7
<1> QED BY <1>1, <1>2

------------------------------------------------------------------------------
(* The end of a stream.                                                         *)

LEMMA WrapperDropped ==
  ASSUME NEW m, Emitting(m), m.result = "ok", NEW s \in drop_wrapper(m)
  PROVE  /\ Emitting(s) /\ Grown(m, s) /\ s.result = "ok"
         /\ ~ s.failed => s.stream.prefix = NoSeq
<1> DEFINE S == IF m.stream.wrapper = "Flate2" THEN EmitRest(m) ELSE {m}
<1>1. \A x \in S : Emitting(x) /\ Grown(m, x) /\ x.result # "panic"
  BY EmissionsEmitted, KeepsSelf DEF Keeps, Ends
<1>2. s \in drop_chunk_writer(S)
  BY DEF drop_wrapper
<1> HIDE DEF S
<1>3. PICK x \in S : /\ Steps(x, s) /\ Emitting(s) /\ s.result = "ok"
                     /\ ~ s.failed => s.stream.prefix = NoSeq
  BY <1>1, <1>2, DropChunkWriter
<1>4. Grown(m, s)
  <2>1. Keeps(x, s)
    BY <1>3 DEF Keeps, Steps
  <2> QED BY <1>1, <2>1, KeepsTransitive DEF Keeps
<1> QED BY <1>3, <1>4

Released(m) == [m EXCEPT !.stream = NoStream]

LEMMA StreamReleased ==
  ASSUME NEW m, Live(m), ~ m.failed => m.stream.prefix = NoSeq
  PROVE  LET s == Released(m) IN
         /\ Live(s) /\ Grown(m, s) /\ s.result = m.result /\ s.stream = NoStream
         /\ s.failed = m.failed
<1> DEFINE s == Released(m)
<1>1. m \in State /\ m.out \in Seq(ChunkType)
  BY DEF Live, Sound, State
<1>2. /\ s.out = m.out /\ s.failed = m.failed /\ s.result = m.result
      /\ s.image = m.image /\ s.writer = m.writer /\ s.stream = NoStream
  BY <1>1 DEF State, Released
<1>3. NoStream \in StreamType
  <2>1. << >> \in Seq(Nat) /\ NoFrameControl \in FrameControl
    BY DEF NoFrameControl, FrameControl
  <2> QED BY <2>1 DEF StreamType, NoStream
<1>4. NoStream.prefix = NoSeq /\ NoStream.buffer = << >> /\ NoStream.fctl = NoFrameControl
  BY DEF NoStream
<1>5. s \in State
  BY <1>1, <1>3 DEF State, Released
<1> HIDE DEF s
<1>6. Grown(m, s)
  BY <1>1, <1>2, GrownSelf
<1>7. Sound(s) /\ Open(s)
  BY <1>2, <1>4, <1>5 DEF Live, Sound, Open, NumbersKept, BufferKept, NextFree, Fits, is_some,
                          NoFrameControl
<1> QED BY <1>2, <1>6, <1>7 DEF Live, s

\* What the caller has when the stream is gone: a Writer, or nothing.
Leaves(m, s, owned) ==
  IF owned THEN Closes(m, s) ELSE Live(s) /\ Grown(m, s) /\ s.stream = NoStream

LEMMA StreamDropped ==
  ASSUME NEW m, Emitting(m), m.result = "ok", NEW owned \in BOOLEAN,
         NEW s \in drop_stream(m, owned)
  PROVE  Leaves(m, s, owned) /\ s.result = "ok"
<1> DEFINE unwound == Then(Ignore(finish_mut(m)), drop_wrapper)
           released == Then(unwound, LAMBDA x : { [x EXCEPT !.stream = NoStream] })
<1>1. PICK v \in released :
        s \in IF owned /\ v.result = "ok" THEN drop_writer(v) ELSE {v}
  BY DEF drop_stream, Then
<1>a. PICK u \in unwound : v = IF u.result = "ok" THEN Released(u) ELSE u
  BY DEF Then, Released
<1>b. PICK i \in Ignore(finish_mut(m)) : u \in IF i.result = "ok" THEN drop_wrapper(i) ELSE {i}
  BY DEF Then
<1>2. PICK x \in finish_mut(m) :
        i = IF x.result = "panic" THEN x ELSE [x EXCEPT !.result = "ok"]
  BY <1>b DEF Ignore
<1> HIDE DEF unwound, released
<1>3. Keeps(m, x) /\ x.result # "panic"
  BY <1>2, StreamFinished
<1>4. Twins(x, i) /\ i.result = "ok"
  BY <1>2, <1>3, ResultTwins DEF Keeps, Emitting, Live, Sound
<1>5. Emitting(i) /\ Grown(x, i)
  BY <1>3, <1>4, TwinFacts DEF Keeps, Emitting, Live
<1>6. /\ Emitting(u) /\ Grown(i, u) /\ u.result = "ok"
      /\ ~ u.failed => u.stream.prefix = NoSeq
  BY <1>b, <1>4, <1>5, WrapperDropped
<1> DEFINE r == Released(u)
<1>c. v = r
  BY <1>a, <1>6
<1>7. Live(r) /\ Grown(u, r) /\ r.result = "ok" /\ r.stream = NoStream
  BY <1>6, StreamReleased DEF Emitting
<1> HIDE DEF r
<1>8. Grown(m, r)
  <2>1. /\ m.out \in Seq(ChunkType) /\ x.out \in Seq(ChunkType) /\ i.out \in Seq(ChunkType)
        /\ u.out \in Seq(ChunkType) /\ r.out \in Seq(ChunkType)
    BY <1>3, <1>5, <1>6, <1>7 DEF Keeps, Emitting, Live, Sound, State
  <2>2. Grown(m, i)
    BY <1>3, <1>5, <2>1, GrownTransitive DEF Keeps
  <2>3. Grown(m, u)
    BY <1>6, <2>1, <2>2, GrownTransitive
  <2> QED BY <1>7, <2>1, <2>3, GrownTransitive
<1>9. CASE owned
  <2>1. Closes(r, s) /\ s.result = "ok"
    BY <1>1, <1>c, <1>7, <1>9, LiveUnclosed, WriterDropped
  <2> QED BY <1>7, <1>8, <1>9, <2>1, ClosesTransitive DEF Leaves, Emitting, Live
<1>10. CASE ~ owned
  <2>1. s = r
    BY <1>1, <1>c, <1>10
  <2> QED BY <1>7, <1>8, <1>10, <2>1 DEF Leaves
<1> QED BY <1>9, <1>10

LEMMA LeavesTwin ==
  ASSUME NEW m, NEW s, NEW t, NEW owned \in BOOLEAN, Leaves(m, s, owned), Twins(s, t),
         t.result # "panic"
  PROVE  Leaves(m, t, owned)
<1>1. CASE owned
  BY <1>1, ClosesTwin DEF Leaves
<1>2. CASE ~ owned
  <2>1. /\ Live(t) /\ t.out = s.out /\ t.failed = s.failed /\ t.stream = s.stream
        /\ t.image = s.image
    BY <1>2, TwinFacts DEF Leaves, Live, Twins
  <2> QED BY <1>2, <2>1 DEF Leaves, Grown
<1> QED BY <1>1, <1>2

LEMMA LeavesTransitive ==
  ASSUME NEW m, NEW s, NEW t, NEW owned \in BOOLEAN, Sound(m), Sound(s), Grown(m, s),
         Leaves(s, t, owned)
  PROVE  Leaves(m, t, owned)
<1>1. CASE owned
  BY <1>1, ClosesTransitive DEF Leaves
<1>2. CASE ~ owned
  BY <1>2, GrownTransitive DEF Leaves, Live, Sound, State
<1> QED BY <1>1, <1>2

\* The stream is dropped behind a call that consumed it, and the caller hears of the call.
LEMMA Unwound ==
  ASSUME NEW m, Emitting(m), m.result = "ok", NEW x, Emitting(x), Grown(m, x),
         x.result # "panic", NEW owned \in BOOLEAN,
         NEW d \in drop_stream([x EXCEPT !.result = "ok"], owned)
  PROVE  LET s == [d EXCEPT !.result = IF @ = "panic" THEN @ ELSE x.result] IN
         Leaves(m, s, owned) /\ s.result = x.result
<1> DEFINE i == [x EXCEPT !.result = "ok"]
           s == [d EXCEPT !.result = IF @ = "panic" THEN @ ELSE x.result]
<1>1. Twins(x, i) /\ i.result = "ok"
  BY ResultTwins DEF Emitting, Live, Sound
<1>2. d \in drop_stream(i, owned)
  OBVIOUS
<1> HIDE DEF i
<1>3. Emitting(i) /\ Grown(x, i)
  BY <1>1, TwinFacts DEF Emitting, Live
<1>4. Leaves(i, d, owned) /\ d.result = "ok"
  BY <1>1, <1>2, <1>3, StreamDropped
<1>5. Grown(m, i)
  BY <1>3, GrownTransitive DEF Emitting, Live, Sound, State
<1>6. Leaves(m, d, owned)
  BY <1>3, <1>4, <1>5, LeavesTransitive DEF Emitting, Live
<1>7. d \in State /\ x.result \in {"ok", "err", "panic", "none"}
  BY <1>6 DEF Leaves, Closes, Live, Sound, Emitting, State
<1>8. Twins(d, s) /\ s.result = x.result
  BY <1>4, <1>7, ResultTwins
<1> HIDE DEF s
<1>9. Leaves(m, s, owned)
  BY <1>6, <1>8, LeavesTwin
<1> QED BY <1>8, <1>9 DEF s

------------------------------------------------------------------------------
(* Several chunks in a row.                                                     *)

\* The first n of the chunks.
First(chunks, n) == SubSeq(chunks, 1, n)

LEMMA FirstFacts ==
  ASSUME NEW file \in Seq(ChunkType), NEW chunks \in Seq(ChunkType)
  PROVE  /\ First(chunks, 0) = << >> /\ file \o << >> = file
         /\ First(chunks, Len(chunks)) = chunks
         /\ \A n \in 0 .. Len(chunks) :
              /\ First(chunks, n) \in Seq(ChunkType) /\ Len(First(chunks, n)) = n
              /\ file \o First(chunks, n) \in Seq(ChunkType)
              /\ SubSeq(file \o First(chunks, n), Len(file) + 1,
                        Len(file \o First(chunks, n))) = First(chunks, n)
<1>1. First(chunks, 0) = << >> /\ file \o << >> = file
  BY DEF First
<1>2. First(chunks, Len(chunks)) = chunks
  BY DEF First
<1>3. ASSUME NEW n \in 0 .. Len(chunks)
      PROVE  /\ First(chunks, n) \in Seq(ChunkType) /\ Len(First(chunks, n)) = n
             /\ file \o First(chunks, n) \in Seq(ChunkType)
             /\ SubSeq(file \o First(chunks, n), Len(file) + 1,
                       Len(file \o First(chunks, n))) = First(chunks, n)
  <2> DEFINE first == First(chunks, n)
  <2>1. first \in Seq(ChunkType) /\ Len(first) = n
    BY DEF First
  <2> HIDE DEF first
  <2>2. file \o first \in Seq(ChunkType)
    BY <2>1
  <2>3. SubSeq(file \o first, Len(file) + 1, Len(file \o first)) = first
    BY <2>1
  <2> QED BY <2>1, <2>2, <2>3 DEF first
<1> QED BY <1>1, <1>2, <1>3

LEMMA FirstNext ==
  ASSUME NEW file \in Seq(ChunkType), NEW chunks \in Seq(ChunkType),
         NEW n \in 1 .. Len(chunks)
  PROVE  /\ First(chunks, n) = Append(First(chunks, n - 1), chunks[n])
         /\ file \o First(chunks, n) = Append(file \o First(chunks, n - 1), chunks[n])
<1>1. First(chunks, n) = Append(First(chunks, n - 1), chunks[n])
  BY DEF First
<1>2. First(chunks, n - 1) \in Seq(ChunkType) /\ chunks[n] \in ChunkType
  BY DEF First
<1>3. \A g \in Seq(ChunkType), c \in ChunkType : file \o Append(g, c) = Append(file \o g, c)
  OBVIOUS
<1> QED BY <1>1, <1>2, <1>3

LEMMA SequencedIs ==
  ASSUME NEW chunks \in Seq(ChunkType)
  PROVE  Sequenced(chunks) = File!Numbered(chunks)
<1>1. \A i \in DOMAIN chunks : chunks[i].seq # NoSeq <=> chunks[i].seq >= 0
  BY ChunkFields DEF NoSeq
<1>2. { i \in DOMAIN chunks : chunks[i].seq # NoSeq } = Marked(chunks)
  BY <1>1 DEF Marked
<1> QED BY <1>2, NumberedIs DEF Sequenced

\* Consecutive bytes, from the first of an image on.
InOrder(data) ==
  \E at \in [1 .. Len(data) + 1 -> Nat] :
    /\ at[1] = 0
    /\ \A i \in 1 .. Len(data) : /\ \A k \in DOMAIN data[i] : data[i][k] = at[i] + k
                                 /\ at[i + 1] = at[i] + Len(data[i])

LEMMA PiecesInOrder ==
  ASSUME NEW size \in Nat \ {0}, NEW max \in Nat \ {0}
  PROVE  /\ Pieces(size, max) \in Seq(Seq(Nat))
         /\ InOrder(Pieces(size, max))
<1> DEFINE count == (size + max - 1) \div max
           whole == count * max
           p == Pieces(size, max)
           len(i) == IF i * max <= size THEN max ELSE size - (i - 1) * max
           at == [i \in 1 .. count + 1 |-> IF i <= count THEN (i - 1) * max ELSE size]
<1>1. /\ count \in Nat /\ whole \in Nat /\ whole <= size + max - 1
      /\ whole >= size /\ count >= 1
  <2>1. count \in Nat /\ count * max <= size + max - 1 /\ size + max - 1 < (count + 1) * max
    OBVIOUS
  <2>2. (count + 1) * max = whole + max /\ whole \in Nat
    BY <2>1
  <2>3. count # 0
    <3> SUFFICES ASSUME count = 0 PROVE FALSE
      OBVIOUS
    <3>1. (count + 1) * max = max
      OBVIOUS
    <3> HIDE DEF count
    <3> QED BY <2>1, <3>1
  <2> HIDE DEF count, whole
  <2> QED BY <2>1, <2>2, <2>3 DEF whole
<1> HIDE DEF count
<1>2. ASSUME NEW i \in 1 .. count
      PROVE  /\ len(i) \in Nat /\ i * max = (i - 1) * max + max /\ (i - 1) * max \in Nat
             /\ i < count => len(i) = max
             /\ i = count => (i - 1) * max + len(i) = size
  <2> DEFINE a == (i - 1) * max
             b == i * max
             rest == (count - i) * max
  <2>1. b = a + max /\ a \in Nat /\ b \in Nat
    OBVIOUS
  <2>2. rest \in Nat /\ whole = b + rest /\ (i < count => rest >= max) /\ (i = count => rest = 0)
    <3>1. rest \in Nat /\ whole = b + rest
      BY <1>1
    <3>2. i < count => rest >= max
      BY <1>1
    <3>3. i = count => rest = 0
      BY <1>1
    <3> QED BY <3>1, <3>2, <3>3
  <2>3. len(i) = IF b <= size THEN max ELSE size - a
    OBVIOUS
  <2> HIDE DEF a, b, rest, whole, len
  <2>4. len(i) \in Nat /\ (i < count => len(i) = max) /\ (i = count => a + len(i) = size)
    <3>1. b <= size + max - 1
      BY <1>1, <2>1, <2>2
    <3>2. i < count => b <= size
      BY <1>1, <2>1, <2>2
    <3>3. i = count => b >= size
      BY <1>1, <2>1, <2>2
    <3> QED BY <2>1, <2>3, <3>1, <3>2, <3>3
  <2> QED BY <2>1, <2>4 DEF a, b
<1>3. p = [i \in 1 .. count |-> [k \in 1 .. len(i) |-> (i - 1) * max + k]]
  BY DEF Pieces, count
<1>4. ASSUME NEW i \in 1 .. count
      PROVE  p[i] \in Seq(Nat) /\ Len(p[i]) = len(i)
             /\ \A k \in DOMAIN p[i] : p[i][k] = (i - 1) * max + k
  <2> DEFINE a == (i - 1) * max
             l == len(i)
  <2>1. a \in Nat /\ l \in Nat
    BY <1>2
  <2>2. p[i] = [k \in 1 .. l |-> a + k]
    BY <1>3
  <2> HIDE DEF a, l, p, len
  <2>3. p[i] \in Seq(Nat) /\ Len(p[i]) = l /\ \A k \in DOMAIN p[i] : p[i][k] = a + k
    BY <2>1, <2>2
  <2> QED BY <2>3 DEF a, l
<1> HIDE DEF p, len, whole
<1>5. p \in Seq(Seq(Nat)) /\ Len(p) = count
  BY <1>1, <1>3, <1>4
<1>6. at \in [1 .. Len(p) + 1 -> Nat] /\ at[1] = 0
  <2>1. \A i \in 1 .. count : (i - 1) * max \in Nat
    BY <1>2
  <2>2. (1 - 1) * max = 0 /\ 1 \in 1 .. count + 1 /\ 1 <= count
    BY <1>1
  <2> QED BY <1>1, <1>5, <2>1, <2>2
<1>7. ASSUME NEW i \in 1 .. Len(p)
      PROVE  /\ \A k \in DOMAIN p[i] : p[i][k] = at[i] + k
             /\ at[i + 1] = at[i] + Len(p[i])
  <2> DEFINE a == (i - 1) * max
             b == i * max
  <2>1. i \in 1 .. count /\ i \in 1 .. count + 1 /\ i + 1 \in 1 .. count + 1
    BY <1>1, <1>5
  <2>2. at[i] = a
    BY <1>1, <2>1
  <2>3. at[i + 1] = IF i < count THEN b ELSE size
    <3>1. (i + 1) - 1 = i /\ (i + 1 <= count <=> i < count)
      BY <1>1, <2>1
    <3> QED BY <2>1, <3>1
  <2>4. b = a + max /\ a \in Nat /\ (i < count => len(i) = max) /\ (i = count => a + len(i) = size)
    BY <1>2, <2>1
  <2>5. Len(p[i]) = len(i) /\ \A k \in DOMAIN p[i] : p[i][k] = a + k
    BY <1>4, <2>1
  <2> HIDE DEF a, b, at
  <2> QED BY <1>1, <2>1, <2>2, <2>3, <2>4, <2>5
<1> HIDE DEF at
<1>8. InOrder(p)
  BY <1>6, <1>7 DEF InOrder
<1> QED BY <1>5, <1>8 DEF p

------------------------------------------------------------------------------
(* Whole images.                                                                *)

Datas(chunks) == [i \in 1 .. Len(chunks) |-> chunks[i].data]

\* The chunks of the image after those of m.
Orderly(m, chunks) ==
  /\ chunks \in Seq(ChunkType)
  /\ \A i \in 1 .. Len(chunks) :
       /\ chunks[i].type \in {"fcTL", "IDAT", "fdAT"} /\ chunks[i].image = m.image + 1
       /\ chunks[i].type = "fcTL" => Fits(chunks[i].frame) /\ is_some(chunks[i].frame)
       /\ ~ m.failed /\ chunks[i].seq # NoSeq =>
            /\ chunks[i].seq = File!Numbered(m.out) + i - 1
            /\ \A j \in 1 .. i : chunks[j].seq # NoSeq
  /\ InOrder(Datas(chunks))

\* The state behind n of them, but for what is counted.
At(m, chunks, n) == [m EXCEPT !.image = @ + 1, !.out = @ \o First(chunks, n)]

Underway(m, chunks, n) ==
  LET s == At(m, chunks, n) IN
  /\ s \in State /\ Grown(m, s) /\ Open(s)
  /\ \A i \in DOMAIN s.out : s.out[i].image <= s.image
  /\ ~ m.failed => /\ File!Numbered(s.out) = File!Numbered(m.out) + Sequenced(First(chunks, n))
                   /\ (\A j \in 1 .. n : chunks[j].seq # NoSeq) => Sequenced(First(chunks, n)) = n

LEMMA AtFields ==
  ASSUME NEW m, m \in State, NEW chunks \in Seq(ChunkType), NEW n \in 0 .. Len(chunks)
  PROVE  LET s == At(m, chunks, n) IN
         /\ s \in State /\ s.out = m.out \o First(chunks, n) /\ s.image = m.image + 1
         /\ s.failed = m.failed /\ s.result = m.result /\ s.writer = m.writer
         /\ s.stream = m.stream
<1>1. m.out \o First(chunks, n) \in Seq(ChunkType) /\ m.out \in Seq(ChunkType)
  BY FirstFacts DEF State
<1>2. m.image + 1 \in Nat
  BY DEF State
<1> QED BY <1>1, <1>2 DEF At, State

LEMMA ImageUnderway ==
  ASSUME NEW m, Live(m), NEW chunks, Orderly(m, chunks), NEW n \in 0 .. Len(chunks)
  PROVE  Underway(m, chunks, n)
<1>1. /\ m \in State /\ m.out \in Seq(ChunkType) /\ chunks \in Seq(ChunkType)
      /\ m.image \in Nat /\ m.image + 1 \in Nat /\ Len(chunks) \in Nat
  BY DEF Live, Sound, State, Orderly
<1>2. PICK at \in [1 .. Len(chunks) + 1 -> Nat] :
        /\ at[1] = 0
        /\ \A i \in 1 .. Len(chunks) :
             /\ \A k \in DOMAIN chunks[i].data : chunks[i].data[k] = at[i] + k
             /\ at[i + 1] = at[i] + Len(chunks[i].data)
  <2> DEFINE D == Datas(chunks)
  <2>1. Len(D) = Len(chunks) /\ \A i \in 1 .. Len(chunks) : D[i] = chunks[i].data
    BY <1>1 DEF Datas
  <2>2. InOrder(D)
    BY DEF Orderly
  <2> HIDE DEF D
  <2>3. PICK at \in [1 .. Len(D) + 1 -> Nat] :
          /\ at[1] = 0
          /\ \A i \in 1 .. Len(D) : /\ \A k \in DOMAIN D[i] : D[i][k] = at[i] + k
                                   /\ at[i + 1] = at[i] + Len(D[i])
    BY <2>2 DEF InOrder
  <2>4. at \in [1 .. Len(chunks) + 1 -> Nat]
    BY <2>1
  <2>5. ASSUME NEW i \in 1 .. Len(chunks)
        PROVE  /\ \A k \in DOMAIN chunks[i].data : chunks[i].data[k] = at[i] + k
               /\ at[i + 1] = at[i] + Len(chunks[i].data)
    <3>1. D[i] = chunks[i].data /\ i \in 1 .. Len(D)
      BY <2>1
    <3> QED BY <2>3, <3>1
  <2> QED BY <2>3, <2>4, <2>5
<1> DEFINE Reaches(k) == File!Reached(m.image + 1, At(m, chunks, k).out) = at[k + 1]
           K == { k \in 0 .. Len(chunks) : Underway(m, chunks, k) /\ (~ m.failed => Reaches(k)) }
<1>3. 0 \in K
  <2> DEFINE s == At(m, chunks, 0)
  <2>1. /\ s \in State /\ s.out = m.out /\ s.image = m.image + 1 /\ s.failed = m.failed
        /\ s.writer = m.writer
    <3>1. 0 \in 0 .. Len(chunks)
      BY <1>1
    <3>2. m.out \o First(chunks, 0) = m.out
      BY <1>1, FirstFacts
    <3> QED BY <1>1, <3>1, <3>2, AtFields
  <2> HIDE DEF s
  <2>2. Grown(m, s)
    BY <1>1, <2>1, GrownSelf
  <2>3. Open(s)
    BY <2>1 DEF Live, Open
  <2>4. \A i \in DOMAIN s.out : s.out[i].image <= s.image
    <3>1. \A i \in DOMAIN m.out : m.out[i].image <= m.image /\ m.out[i].image \in Nat
      BY <1>1, ChunkFields DEF Live, Sound
    <3> QED BY <1>1, <2>1, <3>1
  <2>5. Sequenced(First(chunks, 0)) = 0 /\ File!Numbered(m.out) \in Nat
    <3>1. First(chunks, 0) = << >>
      BY <1>1, FirstFacts
    <3>2. Sequenced(<< >>) = 0
      <4>1. { i \in DOMAIN << >> : << >>[i].seq # NoSeq } = {}
        OBVIOUS
      <4> QED BY <4>1, FS_EmptySet DEF Sequenced
    <3>3. File!Numbered(m.out) \in Nat
      <4>1. Plain("IEND") \in ChunkType
        BY PlainFacts DEF PlainTypes, ChunkTypes
      <4> QED BY <1>1, <4>1, NumberedAppend
    <3> QED BY <3>1, <3>2, <3>3
  <2>6. Reaches(0)
    <3>1. File!Reached(m.image + 1, m.out) = 0
      BY <1>1, FreshImage DEF Live, Sound
    <3> QED BY <1>2, <2>1, <3>1 DEF s
  <2>7. Underway(m, chunks, 0)
    BY <2>1, <2>2, <2>3, <2>4, <2>5 DEF Underway, s
  <2> QED BY <1>1, <2>6, <2>7
<1>4. ASSUME NEW k \in 1 .. Len(chunks), k - 1 \in K PROVE k \in K
  <2> DEFINE s == At(m, chunks, k - 1)
             t == At(m, chunks, k)
             c == chunks[k]
             pre == First(chunks, k - 1)
  <2>1. /\ k - 1 \in 0 .. Len(chunks) /\ k \in 0 .. Len(chunks) /\ k \in 1 .. Len(chunks) + 1
        /\ (k - 1) + 1 = k /\ c \in ChunkType
    BY <1>1, <1>4
  <2>2. Underway(m, chunks, k - 1) /\ (~ m.failed => Reaches(k - 1))
    BY <1>4
  <2>3. /\ s \in State /\ Grown(m, s) /\ Open(s) /\ s.out \in Seq(ChunkType)
        /\ \A i \in DOMAIN s.out : s.out[i].image <= s.image
        /\ ~ m.failed => /\ File!Numbered(s.out) = File!Numbered(m.out) + Sequenced(pre)
                         /\ (\A j \in 1 .. k - 1 : chunks[j].seq # NoSeq) =>
                              Sequenced(pre) = k - 1
    BY <2>2 DEF Underway, State
  <2>4. /\ t \in State /\ t.failed = m.failed /\ t.writer = m.writer /\ t.image = m.image + 1
        /\ s.failed = m.failed /\ s.writer = m.writer /\ s.image = m.image + 1
        /\ t.out = Append(s.out, c)
    <3>1. m.out \o First(chunks, k) = Append(m.out \o pre, c)
      BY <1>1, FirstNext
    <3>2. s.out = m.out \o pre /\ s.failed = m.failed /\ s.writer = m.writer
          /\ s.image = m.image + 1
      BY <1>1, <2>1, AtFields
    <3>3. /\ t \in State /\ t.failed = m.failed /\ t.writer = m.writer
          /\ t.image = m.image + 1 /\ t.out = m.out \o First(chunks, k)
      BY <1>1, <2>1, AtFields
    <3> HIDE DEF s, t, c, pre
    <3> QED BY <3>1, <3>2, <3>3
  <2>5. /\ c.type \in {"fcTL", "IDAT", "fdAT"} /\ c.image = m.image + 1
        /\ c.type = "fcTL" => Fits(c.frame) /\ is_some(c.frame)
        /\ ~ m.failed /\ c.seq # NoSeq => /\ c.seq = File!Numbered(m.out) + k - 1
                                          /\ \A j \in 1 .. k : chunks[j].seq # NoSeq
    BY DEF Orderly
  <2>6. ~ m.failed => File!Reached(m.image + 1, s.out) = at[k]
    BY <2>1, <2>2
  <2>7. pre \in Seq(ChunkType) /\ First(chunks, k) = Append(pre, c)
    <3>1. pre \in Seq(ChunkType)
      BY <1>1, <2>1, FirstFacts
    <3> QED BY <1>1, <3>1, FirstNext
  <2>8. /\ \A j \in DOMAIN c.data : c.data[j] = at[k] + j
        /\ at[k + 1] = at[k] + Len(c.data) /\ at[k] \in Nat /\ c.data \in Seq(Nat)
    BY <1>2, <2>1, ChunkFields
  <2> HIDE DEF s, t, c, pre
  <2>9. Sequenced(pre) \in Nat
        /\ Sequenced(First(chunks, k)) = Sequenced(pre) + (IF c.seq = NoSeq THEN 0 ELSE 1)
    <3>1. First(chunks, k) \in Seq(ChunkType)
      BY <2>1, <2>7
    <3>2. Sequenced(pre) = File!Numbered(pre)
          /\ Sequenced(First(chunks, k)) = File!Numbered(First(chunks, k))
      BY <2>7, <3>1, SequencedIs
    <3> QED BY <2>1, <2>7, <3>2, NumberedAppend
  <2>10. /\ File!Numbered(m.out) \in Nat
         /\ File!Numbered(t.out) = File!Numbered(s.out) + (IF c.seq = NoSeq THEN 0 ELSE 1)
    BY <1>1, <2>1, <2>3, <2>4, NumberedAppend
  <2>11. ~ s.failed => Suits(s, c)
    <3> SUFFICES ASSUME ~ m.failed PROVE Suits(s, c)
      BY <2>4
    <3>1. ASSUME c.seq # NoSeq PROVE c.seq = File!Numbered(s.out)
      <4>1. \A j \in 1 .. k - 1 : chunks[j].seq # NoSeq
        BY <2>1, <2>5, <3>1
      <4>2. Sequenced(pre) = k - 1 /\ k - 1 \in Nat
        BY <2>1, <2>3, <4>1
      <4> QED BY <2>1, <2>3, <2>5, <2>10, <3>1, <4>2
    <3>2. \A j \in DOMAIN c.data : c.data[j] = File!Reached(c.image, s.out) + j
      BY <2>5, <2>6, <2>8
    <3>3. c.image >= s.image
      BY <1>1, <2>4, <2>5
    <3> QED BY <2>5, <3>1, <3>2, <3>3 DEF Suits
  <2>12. Grown(m, t)
    <3>1. File!MayFollow(s.out, c, t.failed)
      BY <2>1, <2>3, <2>4, <2>11, SuitsFollows DEF State
    <3>2. Grown(s, t)
      BY <2>1, <2>3, <2>4, <3>1, GrownOne
    <3>3. t.out \in Seq(ChunkType)
      BY <2>4 DEF State
    <3> QED BY <1>1, <2>3, <3>2, <3>3, GrownTransitive
  <2>13. Open(t)
    <3>1. t.out # << >>
      BY <2>1, <2>3, <2>4
    <3>2. File!Types(t.out) = File!Types(s.out) \cup {c.type}
      BY <2>1, <2>3, <2>4, TypesAppend
    <3> QED BY <2>3, <2>4, <2>5, <3>1, <3>2 DEF Open
  <2>14. \A i \in DOMAIN t.out : t.out[i].image <= t.image
    <3>1. Append(s.out, c)[Len(s.out) + 1] = c
      BY <2>3
    <3>2. DOMAIN t.out = DOMAIN s.out \cup {Len(s.out) + 1}
          /\ \A i \in DOMAIN s.out : t.out[i] = s.out[i]
      BY <2>1, <2>3, <2>4, AppendFacts
    <3> QED BY <1>1, <2>3, <2>4, <2>5, <3>1, <3>2
  <2>15. ~ m.failed => File!Reached(m.image + 1, t.out) = at[k + 1]
    <3> SUFFICES ASSUME ~ m.failed PROVE File!Reached(m.image + 1, t.out) = at[k + 1]
      OBVIOUS
    <3>1. File!Reached(m.image + 1, t.out) =
            IF c.data # << >> THEN c.data[Len(c.data)] ELSE File!Reached(m.image + 1, s.out)
      BY <1>1, <2>1, <2>3, <2>4, <2>5, ReachedAppend
    <3>2. CASE c.data = << >>
      BY <2>6, <2>8, <3>1, <3>2
    <3>3. CASE c.data # << >>
      <4>1. Len(c.data) \in DOMAIN c.data
        BY <2>8, <3>3
      <4> QED BY <2>8, <3>1, <3>3, <4>1
    <3> QED BY <3>2, <3>3
  <2>16. ~ m.failed =>
           /\ File!Numbered(t.out) = File!Numbered(m.out) + Sequenced(First(chunks, k))
           /\ (\A j \in 1 .. k : chunks[j].seq # NoSeq) => Sequenced(First(chunks, k)) = k
    <3> SUFFICES ASSUME ~ m.failed
                 PROVE  /\ File!Numbered(t.out) =
                             File!Numbered(m.out) + Sequenced(First(chunks, k))
                        /\ (\A j \in 1 .. k : chunks[j].seq # NoSeq) =>
                             Sequenced(First(chunks, k)) = k
      OBVIOUS
    <3>1. File!Numbered(t.out) = File!Numbered(m.out) + Sequenced(First(chunks, k))
      <4>1. CASE c.seq = NoSeq
        BY <2>3, <2>9, <2>10, <4>1
      <4>2. CASE c.seq # NoSeq
        BY <2>3, <2>9, <2>10, <4>2
      <4> QED BY <4>1, <4>2
    <3>2. ASSUME \A j \in 1 .. k : chunks[j].seq # NoSeq
          PROVE  Sequenced(First(chunks, k)) = k
      <4>1. c.seq # NoSeq /\ \A j \in 1 .. k - 1 : chunks[j].seq # NoSeq
        BY <2>1, <3>2 DEF c
      <4>2. Sequenced(First(chunks, k)) = Sequenced(pre) + 1 /\ Sequenced(pre) = k - 1
        BY <2>3, <2>9, <4>1
      <4> QED BY <2>1, <4>2
    <3> QED BY <3>1, <3>2
  <2>17. Underway(m, chunks, k)
    BY <2>4, <2>12, <2>13, <2>14, <2>16 DEF Underway, t
  <2>18. ~ m.failed => Reaches(k)
    BY <2>15 DEF t
  <2> QED BY <2>1, <2>17, <2>18
<1> HIDE DEF K
<1>5. n \in K
  BY <1>1, <1>3, <1>4, Induction
<1> QED BY <1>5 DEF K

\* The chunks of one image's data, numbered from one on or not at all.
Body(m, body) ==
  /\ body \in Seq(ChunkType) /\ InOrder(Datas(body))
  /\ \A i \in 1 .. Len(body) :
       body[i].type \in {"IDAT", "fdAT"} /\ body[i].image = m.image + 1

LEMMA IdatBody ==
  ASSUME NEW m, m \in State, NEW size \in CompressedSizes
  PROVE  LET body == write_zlib_encoded_idat(m.image + 1, size) IN
         Body(m, body) /\ \A i \in 1 .. Len(body) : body[i].seq = NoSeq
<1> DEFINE p == Pieces(size, MAX_IDAT_CHUNK_LEN)
           img == m.image + 1
           body == write_zlib_encoded_idat(img, size)
<1>1. p \in Seq(Seq(Nat)) /\ InOrder(p) /\ img \in Nat
  <2>1. size \in Nat \ {0} /\ MAX_IDAT_CHUNK_LEN \in Nat \ {0}
    BY WriterAssumption
  <2> QED BY <2>1, PiecesInOrder DEF State
<1>2. body = [i \in DOMAIN p |-> Chunk("IDAT", img, NoSeq, NoFrameControl, p[i])]
  BY DEF write_zlib_encoded_idat
<1>3. NoFrameControl \in FrameControl /\ "IDAT" \in ChunkTypes /\ NoSeq \in Nat \cup {NoSeq}
  BY DEF NoFrameControl, FrameControl, ChunkTypes
<1> HIDE DEF p, img, body
<1>4. ASSUME NEW i \in 1 .. Len(p)
      PROVE  /\ body[i] \in ChunkType /\ body[i].type = "IDAT" /\ body[i].image = img
             /\ body[i].seq = NoSeq /\ body[i].data = p[i]
  <2>1. body[i] = Chunk("IDAT", img, NoSeq, NoFrameControl, p[i]) /\ p[i] \in Seq(Nat)
    BY <1>1, <1>2
  <2> QED BY <1>1, <1>3, <2>1 DEF Chunk, ChunkType
<1>5. body \in Seq(ChunkType) /\ Len(body) = Len(p)
  <2>1. Len(p) \in Nat /\ body \in [1 .. Len(p) -> ChunkType]
    <3>1. Len(p) \in Nat /\ DOMAIN p = 1 .. Len(p)
      BY <1>1
    <3>2. DOMAIN body = DOMAIN p /\ body = [i \in DOMAIN body |-> body[i]]
      BY <1>2
    <3> QED BY <1>4, <3>1, <3>2
  <2>2. \A l \in Nat : \A f \in [1 .. l -> ChunkType] : f \in Seq(ChunkType) /\ Len(f) = l
    OBVIOUS
  <2> QED BY <2>1, <2>2
<1>6. Datas(body) = p
  <2>1. Datas(body) = [i \in 1 .. Len(p) |-> p[i]]
    BY <1>4, <1>5 DEF Datas
  <2> QED BY <1>1, <2>1
<1>7. Body(m, body)
  BY <1>1, <1>4, <1>5, <1>6 DEF Body, img
<1> QED BY <1>4, <1>5, <1>7 DEF body, img

LEMMA FdatBody ==
  ASSUME NEW m, m \in State, NEW size \in CompressedSizes, NEW seq \in Nat
  PROVE  LET body == fdAT_chunks(m.image + 1, size, seq) IN
         Body(m, body) /\ \A i \in 1 .. Len(body) : body[i].seq = seq + i - 1
<1> DEFINE p == Pieces(size, MAX_fdAT_CHUNK_LEN)
           img == m.image + 1
           body == fdAT_chunks(img, size, seq)
<1>1. p \in Seq(Seq(Nat)) /\ InOrder(p) /\ img \in Nat
  <2>1. size \in Nat \ {0} /\ MAX_fdAT_CHUNK_LEN \in Nat \ {0}
    BY WriterAssumption DEF MAX_fdAT_CHUNK_LEN
  <2> QED BY <2>1, PiecesInOrder DEF State
<1>2. body = [i \in DOMAIN p |-> Chunk("fdAT", img, seq + i - 1, NoFrameControl, p[i])]
  BY DEF fdAT_chunks
<1>3. NoFrameControl \in FrameControl /\ "fdAT" \in ChunkTypes
  BY DEF NoFrameControl, FrameControl, ChunkTypes
<1> HIDE DEF p, img, body
<1>4. ASSUME NEW i \in 1 .. Len(p)
      PROVE  /\ body[i] \in ChunkType /\ body[i].type = "fdAT" /\ body[i].image = img
             /\ body[i].seq = seq + i - 1 /\ body[i].data = p[i]
  <2>1. body[i] = Chunk("fdAT", img, seq + i - 1, NoFrameControl, p[i]) /\ p[i] \in Seq(Nat)
    BY <1>1, <1>2
  <2>2. seq + i - 1 \in Nat \cup {NoSeq}
    OBVIOUS
  <2> QED BY <1>1, <1>3, <2>1, <2>2 DEF Chunk, ChunkType
<1>5. body \in Seq(ChunkType) /\ Len(body) = Len(p)
  <2>1. Len(p) \in Nat /\ body \in [1 .. Len(p) -> ChunkType]
    <3>1. Len(p) \in Nat /\ DOMAIN p = 1 .. Len(p)
      BY <1>1
    <3>2. DOMAIN body = DOMAIN p /\ body = [i \in DOMAIN body |-> body[i]]
      BY <1>2
    <3> QED BY <1>4, <3>1, <3>2
  <2>2. \A l \in Nat : \A f \in [1 .. l -> ChunkType] : f \in Seq(ChunkType) /\ Len(f) = l
    OBVIOUS
  <2> QED BY <2>1, <2>2
<1>6. Datas(body) = p
  <2>1. Datas(body) = [i \in 1 .. Len(p) |-> p[i]]
    BY <1>4, <1>5 DEF Datas
  <2> QED BY <1>1, <2>1
<1>7. Body(m, body)
  BY <1>1, <1>4, <1>5, <1>6 DEF Body, img
<1> QED BY <1>4, <1>5, <1>7 DEF body, img

\* The data of an image behind its frame control.
LEMMA BehindFrameControl ==
  ASSUME NEW m, Live(m), m.stream.prefix = NoSeq, is_some(m.writer.frame_control),
         NEW body, Body(m, body),
         \/ \A i \in 1 .. Len(body) : body[i].seq = NoSeq
         \/ \A i \in 1 .. Len(body) :
              body[i].seq = (m.writer.frame_control.sequence_number + 1) + i - 1
  PROVE  Orderly(m, << FrameChunk(m.image + 1, m.writer.frame_control) >> \o body)
<1> DEFINE fc == m.writer.frame_control
           c == FrameChunk(m.image + 1, fc)
           all == << c >> \o body
           n == Len(body)
<1>1. /\ m \in State /\ fc \in FrameControl /\ m.image + 1 \in Nat /\ m.out \in Seq(ChunkType)
      /\ body \in Seq(ChunkType) /\ n \in Nat /\ fc.sequence_number \in Nat
  BY DEF Live, Sound, State, WriterType, FrameControl, Body
<1>2. /\ c.type = "fcTL" /\ c.image = m.image + 1 /\ c.seq = fc.sequence_number
      /\ c.frame = fc /\ c.data = << >> /\ c.seq # NoSeq
  BY <1>1 DEF FrameChunk, Chunk, NoSeq
<1>3. c \in ChunkType
  <2>1. << >> \in Seq(Nat) /\ "fcTL" \in ChunkTypes
    BY DEF ChunkTypes
  <2> HIDE DEF fc
  <2> QED BY <1>1, <2>1 DEF FrameChunk, Chunk, ChunkType
<1> HIDE DEF c
<1>4. /\ all \in Seq(ChunkType) /\ Len(all) = n + 1 /\ all[1] = c
      /\ \A i \in 2 .. n + 1 : all[i] = body[i - 1]
  BY <1>1, <1>3
<1> HIDE DEF all
<1>5. ~ m.failed => c.seq = File!Numbered(m.out)
  <2> SUFFICES ASSUME ~ m.failed PROVE c.seq = File!Numbered(m.out)
    OBVIOUS
  <2>1. fc.sequence_number = NextFree(m)
    BY DEF Live, Sound, NumbersKept
  <2>2. File!Numbered(m.out) \in Nat
    BY <1>1, <1>3, NumberedAppend
  <2> QED BY <1>2, <2>1, <2>2 DEF NextFree
<1>6. ASSUME NEW i \in 1 .. Len(all)
      PROVE  /\ all[i].type \in {"fcTL", "IDAT", "fdAT"} /\ all[i].image = m.image + 1
             /\ all[i].type = "fcTL" => Fits(all[i].frame) /\ is_some(all[i].frame)
             /\ ~ m.failed /\ all[i].seq # NoSeq =>
                  /\ all[i].seq = File!Numbered(m.out) + i - 1
                  /\ \A j \in 1 .. i : all[j].seq # NoSeq
  <2>1. CASE i = 1
    <3>1. Fits(fc) /\ is_some(fc)
      BY DEF Live, Sound
    <3>2. ~ m.failed => all[i].seq = File!Numbered(m.out) + i - 1
      <4>1. c.seq \in Nat
        BY <1>1, <1>2
      <4> QED BY <1>4, <1>5, <2>1, <4>1
    <3>3. \A j \in 1 .. i : all[j].seq # NoSeq
      BY <1>2, <1>4, <2>1
    <3> QED BY <1>2, <1>4, <2>1, <3>1, <3>2, <3>3
  <2>2. CASE i # 1
    <3>1. i \in 2 .. n + 1 /\ i - 1 \in 1 .. n /\ all[i] = body[i - 1]
      BY <1>1, <1>4, <2>2, SMTT(30)
    <3>2. all[i].type \in {"IDAT", "fdAT"} /\ all[i].image = m.image + 1
      BY <3>1 DEF Body
    <3>3. ASSUME ~ m.failed, all[i].seq # NoSeq
          PROVE  /\ all[i].seq = File!Numbered(m.out) + i - 1
                 /\ \A j \in 1 .. i : all[j].seq # NoSeq
      <4>1. \A j \in 1 .. n : body[j].seq = (fc.sequence_number + 1) + j - 1
        BY <3>1, <3>3
      <4>2. all[i].seq = File!Numbered(m.out) + i - 1
        <5>1. body[i - 1].seq = (fc.sequence_number + 1) + (i - 1) - 1
          BY <3>1, <4>1
        <5>2. fc.sequence_number = File!Numbered(m.out)
          BY <1>2, <1>5, <3>3
        <5> QED BY <1>1, <3>1, <5>1, <5>2
      <4>3. ASSUME NEW j \in 1 .. i PROVE all[j].seq # NoSeq
        <5>1. CASE j = 1
          BY <1>2, <1>4, <5>1
        <5>2. CASE j # 1
          <6>1. j - 1 \in 1 .. n /\ j \in 2 .. n + 1
            BY <1>1, <3>1, <5>2
          <6>2. body[j - 1].seq = (fc.sequence_number + 1) + (j - 1) - 1
            BY <4>1, <6>1
          <6>3. all[j] = body[j - 1]
            BY <1>4, <6>1
          <6> HIDE DEF fc
          <6>4. body[j - 1].seq \in Nat
            BY <1>1, <6>1, <6>2
          <6> QED BY <6>3, <6>4 DEF NoSeq
        <5> QED BY <5>1, <5>2
      <4> QED BY <4>2, <4>3
    <3> QED BY <3>2, <3>3
  <2> QED BY <2>1, <2>2
<1>7. InOrder(Datas(all))
  <2> DEFINE D == Datas(body)
             E == Datas(all)
  <2>1. Len(D) = n /\ \A i \in 1 .. n : D[i] = body[i].data
    BY <1>1 DEF Datas
  <2>2. Len(E) = n + 1 /\ \A i \in 1 .. n + 1 : E[i] = all[i].data
    BY <1>1, <1>4 DEF Datas
  <2>3. InOrder(D)
    BY DEF Body
  <2> HIDE DEF D, E
  <2>4. PICK at \in [1 .. Len(D) + 1 -> Nat] :
          /\ at[1] = 0
          /\ \A i \in 1 .. Len(D) : /\ \A k \in DOMAIN D[i] : D[i][k] = at[i] + k
                                   /\ at[i + 1] = at[i] + Len(D[i])
    BY <2>3 DEF InOrder
  <2> DEFINE to == [i \in 1 .. Len(E) + 1 |-> IF i = 1 THEN 0 ELSE at[i - 1]]
  <2>5. to \in [1 .. Len(E) + 1 -> Nat] /\ to[1] = 0
    BY <1>1, <2>1, <2>2, <2>4
  <2>6. ASSUME NEW i \in 1 .. Len(E)
        PROVE  /\ \A k \in DOMAIN E[i] : E[i][k] = to[i] + k
               /\ to[i + 1] = to[i] + Len(E[i])
    <3>1. i \in 1 .. n + 1 /\ i \in 1 .. Len(E) + 1 /\ i + 1 \in 1 .. Len(E) + 1
          /\ (i + 1) - 1 = i /\ i + 1 # 1
      BY <1>1, <2>2
    <3>2. to[i + 1] = at[i] /\ to[i] = IF i = 1 THEN 0 ELSE at[i - 1]
      BY <3>1
    <3> HIDE DEF to
    <3>3. CASE i = 1
      <4>1. E[i] = << >>
        BY <1>2, <1>4, <2>2, <3>1, <3>3
      <4> QED BY <2>4, <3>2, <3>3, <4>1
    <3>4. CASE i # 1
      <4>1. i - 1 \in 1 .. n /\ E[i] = D[i - 1] /\ (i - 1) + 1 = i
        <5>1. i - 1 \in 1 .. n /\ i \in 2 .. n + 1 /\ (i - 1) + 1 = i
          BY <1>1, <3>1, <3>4
        <5>2. D[i - 1] = body[i - 1].data
          BY <2>1, <5>1
        <5>3. all[i] = body[i - 1]
          BY <1>4, <5>1
        <5> QED BY <2>2, <3>1, <5>1, <5>2, <5>3
      <4> QED BY <2>1, <2>4, <3>2, <3>4, <4>1
    <3> QED BY <3>3, <3>4
  <2> HIDE DEF to
  <2>7. InOrder(E)
    BY <2>5, <2>6 DEF InOrder
  <2> QED BY <2>7 DEF E
<1> QED BY <1>4, <1>6, <1>7 DEF Orderly, all, c

LEMMA ImageChunksOrderly ==
  ASSUME NEW m, Live(m), m.stream.prefix = NoSeq, NEW size \in CompressedSizes
  PROVE  /\ Orderly(m, image_chunks(m.writer, m.image + 1, size))
         /\ TakesFrameControl(m.writer) => image_chunks(m.writer, m.image + 1, size) # << >>
<1> DEFINE fc == m.writer.frame_control
           img == m.image + 1
           idat == write_zlib_encoded_idat(img, size)
           fdat == fdAT_chunks(img, size, fc.sequence_number + 1)
           chunks == image_chunks(m.writer, img, size)
<1>1. m \in State /\ fc.sequence_number + 1 \in Nat
  BY DEF Live, Sound, State, WriterType, FrameControl
<1>2. Body(m, idat) /\ \A i \in 1 .. Len(idat) : idat[i].seq = NoSeq
  BY <1>1, IdatBody
<1>3. /\ Body(m, fdat)
      /\ \A i \in 1 .. Len(fdat) : fdat[i].seq = (fc.sequence_number + 1) + i - 1
  BY <1>1, FdatBody
<1>4. CASE ~ TakesFrameControl(m.writer)
  <2>1. chunks = idat
    BY <1>4 DEF image_chunks
  <2> HIDE DEF idat, chunks
  <2>2. Orderly(m, idat)
    BY <1>2 DEF Orderly, Body
  <2> QED BY <1>4, <2>1, <2>2 DEF chunks
<1>5. CASE TakesFrameControl(m.writer)
  <2>1. is_some(fc)
    BY <1>5 DEF TakesFrameControl
  <2>2. chunks = << FrameChunk(img, fc) >> \o
                   IF m.writer.images_written = 0 THEN idat ELSE fdat
    BY <1>5 DEF image_chunks
  <2> DEFINE body == IF m.writer.images_written = 0 THEN idat ELSE fdat
  <2>3. /\ Body(m, body)
        /\ \/ \A i \in 1 .. Len(body) : body[i].seq = NoSeq
           \/ \A i \in 1 .. Len(body) : body[i].seq = (fc.sequence_number + 1) + i - 1
    <3> HIDE DEF idat, fdat
    <3> QED BY <1>2, <1>3
  <2>4. chunks = << FrameChunk(img, fc) >> \o body
    BY <2>2
  <2> HIDE DEF body, chunks
  <2>5. Orderly(m, chunks)
    BY <2>1, <2>3, <2>4, BehindFrameControl
  <2>6. chunks # << >>
    <3>1. body \in Seq(ChunkType)
      BY <2>3 DEF Body
    <3>2. Len(chunks) = 1 + Len(body) /\ Len(body) \in Nat
      BY <2>4, <3>1
    <3> QED BY <3>2
  <2> QED BY <2>5, <2>6 DEF chunks
<1> QED BY <1>4, <1>5

\* What write_image_data counts.
Counted(s, number, frames) ==
  [s EXCEPT !.writer.frame_control.sequence_number = number,
            !.writer.animation_written = frames]

Countable(s, number, frames) == s \in State /\ number \in Nat /\ frames \in Nat

LEMMA CountedFields ==
  ASSUME NEW s, NEW number, NEW frames, Countable(s, number, frames)
  PROVE  LET t == Counted(s, number, frames) IN
         /\ t \in State /\ t.out = s.out /\ t.failed = s.failed /\ t.result = s.result
         /\ t.image = s.image /\ t.stream = s.stream
         /\ t.writer.num_frames = s.writer.num_frames
         /\ t.writer.iend_written = s.writer.iend_written
         /\ t.writer.animation_written = frames
         /\ t.writer.frame_control.sequence_number = number
         /\ t.writer.frame_control.width = s.writer.frame_control.width
         /\ t.writer.frame_control.x_offset = s.writer.frame_control.x_offset
<1> DEFINE t == Counted(s, number, frames)
           fc == s.writer.frame_control
           next == [fc EXCEPT !.sequence_number = number]
           w == [s.writer EXCEPT !.frame_control = next, !.animation_written = frames]
<1>1. /\ s \in State /\ s.writer \in WriterType /\ fc \in FrameControl
      /\ number \in Nat /\ frames \in Nat
  BY DEF Countable, State, WriterType
<1>2. t = [s EXCEPT !.writer = w]
  BY <1>1 DEF Counted, State, WriterType
<1>3. /\ next \in FrameControl /\ next.sequence_number = number
      /\ next.width = fc.width /\ next.x_offset = fc.x_offset
  BY <1>1 DEF FrameControl
<1>4. /\ w \in WriterType /\ w.frame_control = next
      /\ w.num_frames = s.writer.num_frames /\ w.iend_written = s.writer.iend_written
      /\ w.animation_written = frames
  <2> HIDE DEF next
  <2> QED BY <1>1, <1>3 DEF WriterType
<1> HIDE DEF t, w, next
<1>5. t \in State /\ t.out = s.out /\ t.failed = s.failed /\ t.result = s.result
      /\ t.image = s.image /\ t.stream = s.stream /\ t.writer = w
  BY <1>1, <1>2, <1>4 DEF State
<1> QED BY <1>3, <1>4, <1>5 DEF t

\* An image that went wrong on the way.
LEMMA ImageCutOff ==
  ASSUME NEW m, Live(m), m.stream = NoStream, NEW chunks, Orderly(m, chunks),
         NEW n, n \in 0 .. Len(chunks), NEW number, number \in Nat, NEW frames, frames \in Nat
  PROVE  LET s == Counted(Fail(At(m, chunks, n)), number, frames) IN
         /\ Live(s) /\ Grown(m, s) /\ s.failed /\ s.result = "err" /\ s.stream = NoStream
<1> DEFINE a == At(m, chunks, n)
           f == Fail(a)
           s == Counted(f, number, frames)
<1>1. Underway(m, chunks, n)
  BY ImageUnderway
<1>2. a \in State /\ Grown(m, a) /\ Open(a) /\ \A i \in DOMAIN a.out : a.out[i].image <= a.image
  BY <1>1 DEF Underway
<1>3. a.writer = m.writer /\ a.stream = NoStream /\ a.failed = m.failed
  BY AtFields DEF Orderly, Live, Sound
<1> HIDE DEF a
<1>4. /\ f \in State /\ f.failed /\ f.result = "err" /\ f.out = a.out /\ f.image = a.image
      /\ f.writer = m.writer /\ f.stream = NoStream
  BY <1>2, <1>3 DEF Fail, State
<1> HIDE DEF f
<1>5. /\ s \in State /\ s.out = f.out /\ s.failed = f.failed /\ s.result = f.result
      /\ s.image = f.image /\ s.stream = f.stream
      /\ s.writer.iend_written = f.writer.iend_written
      /\ s.writer.frame_control.width = f.writer.frame_control.width
      /\ s.writer.frame_control.x_offset = f.writer.frame_control.x_offset
  <2>1. Countable(f, number, frames)
    BY <1>4 DEF Countable
  <2> QED BY <2>1, CountedFields
<1> HIDE DEF s
<1>6. Grown(m, s)
  <2>1. a.out \in Seq(ChunkType) /\ m.out \in Seq(ChunkType) /\ s.out \in Seq(ChunkType)
    BY <1>2, <1>5 DEF State, Live, Sound
  <2>2. Grown(a, s)
    BY <1>4, <1>5, <2>1, GrownSelf
  <2> QED BY <1>2, <2>1, <2>2, GrownTransitive
<1>7. Live(s)
  <2>1. Fits(s.writer.frame_control) /\ Fits(s.stream.fctl)
    BY <1>4, <1>5 DEF Live, Sound, Fits, is_some, NoStream, NoFrameControl
  <2> QED BY <1>2, <1>4, <1>5, <2>1 DEF Live, Sound, Open
<1> QED BY <1>4, <1>5, <1>6, <1>7 DEF s, f, a

LEMMA ImageCompleted ==
  ASSUME NEW m, Live(m), m.stream = NoStream, m.result = "ok", NEW chunks, Orderly(m, chunks),
         NEW number, number = m.writer.frame_control.sequence_number + Sequenced(chunks),
         NEW frames, frames \in Nat,
         animated(m.writer) => m.writer.animation_written <= frames
  PROVE  LET c == Counted(At(m, chunks, Len(chunks)), number, frames)
             s == [c EXCEPT !.writer = increment_images_written(@)]
         IN Live(s) /\ Grown(m, s) /\ s.result = "ok" /\ s.stream = NoStream
<1> DEFINE a == At(m, chunks, Len(chunks))
           c == Counted(a, number, frames)
           w == increment_images_written(c.writer)
           s == [c EXCEPT !.writer = increment_images_written(@)]
           fc == IF animated(c.writer) /\ c.writer.num_frames <= c.writer.animation_written
                 THEN NoFrameControl ELSE c.writer.frame_control
<1>1. /\ m \in State /\ m.out \in Seq(ChunkType) /\ chunks \in Seq(ChunkType)
      /\ Len(chunks) \in 0 .. Len(chunks)
      /\ m.writer.frame_control.sequence_number \in Nat
  BY DEF Live, Sound, State, Orderly, WriterType, FrameControl
<1>2. /\ Sequenced(chunks) \in Nat /\ First(chunks, Len(chunks)) = chunks
      /\ File!Numbered(m.out) \in Nat
  <2>1. Plain("IEND") \in ChunkType
    BY PlainFacts DEF PlainTypes, ChunkTypes
  <2> QED BY <1>1, <2>1, SequencedIs, NumberedAppend, FirstFacts
<1>3. /\ a \in State /\ Grown(m, a) /\ Open(a)
      /\ \A i \in DOMAIN a.out : a.out[i].image <= a.image
      /\ ~ m.failed => File!Numbered(a.out) = File!Numbered(m.out) + Sequenced(chunks)
  BY <1>1, <1>2, ImageUnderway DEF Underway
<1>4. a.writer = m.writer /\ a.stream = NoStream /\ a.failed = m.failed /\ a.result = "ok"
  BY <1>1, AtFields
<1>5. number \in Nat
  BY <1>1, <1>2
<1> HIDE DEF a
<1>6. /\ c \in State /\ c.out = a.out /\ c.failed = a.failed /\ c.result = a.result
      /\ c.image = a.image /\ c.stream = a.stream
      /\ c.writer.num_frames = a.writer.num_frames
      /\ c.writer.iend_written = a.writer.iend_written
      /\ c.writer.animation_written = frames
      /\ c.writer.frame_control.sequence_number = number
      /\ c.writer.frame_control.width = a.writer.frame_control.width
      /\ c.writer.frame_control.x_offset = a.writer.frame_control.x_offset
  <2>1. Countable(a, number, frames)
    BY <1>3, <1>5 DEF Countable
  <2> QED BY <2>1, CountedFields
<1> HIDE DEF c
<1>7. c.writer \in WriterType /\ c.writer.frame_control \in FrameControl
  BY <1>6 DEF State, WriterType
<1>8. /\ s.out = a.out /\ s.failed = m.failed /\ s.result = "ok" /\ s.image = a.image
      /\ s.stream = NoStream /\ s.writer = w
  BY <1>4, <1>6 DEF State
<1>9. fc \in FrameControl /\ (fc = c.writer.frame_control \/ fc = NoFrameControl)
  BY <1>7 DEF FrameControl, NoFrameControl
<1>10. /\ w \in WriterType /\ w.frame_control = fc /\ w.num_frames = c.writer.num_frames
       /\ w.animation_written = c.writer.animation_written
       /\ w.iend_written = c.writer.iend_written
  <2>1. w = [c.writer EXCEPT !.images_written = @ + 1, !.frame_control = fc]
    BY <1>7 DEF increment_images_written
  <2> HIDE DEF w, fc
  <2>2. c.writer.images_written + 1 \in Nat
    BY <1>7 DEF WriterType
  <2>3. w \in WriterType
    BY <1>7, <1>9, <2>1, <2>2 DEF WriterType
  <2> QED BY <1>7, <2>1, <2>3 DEF WriterType
<1>11. s \in State
  <2> HIDE DEF w
  <2> QED BY <1>6, <1>8, <1>10 DEF State
<1>12. ~ is_some(NoFrameControl) /\ Fits(NoFrameControl)
  BY DEF is_some, NoFrameControl, Fits
<1>13. ASSUME ~ m.failed, is_some(fc)
       PROVE  /\ fc.sequence_number = File!Numbered(a.out)
              /\ w.animation_written < w.num_frames
  <2>1. is_some(m.writer.frame_control) /\ fc = c.writer.frame_control
        /\ ~ (animated(c.writer) /\ c.writer.num_frames <= c.writer.animation_written)
    BY <1>4, <1>6, <1>12, <1>13 DEF is_some
  <2>2. m.writer.frame_control.sequence_number = File!Numbered(m.out) + 0
        /\ m.writer.animation_written < m.writer.num_frames
    BY <1>13, <2>1 DEF Live, Sound, NumbersKept, NextFree, NoStream
  <2>3. fc.sequence_number = File!Numbered(a.out)
    BY <1>2, <1>3, <1>6, <1>13, <2>1, <2>2
  <2>4. m.writer.animation_written \in Nat /\ m.writer.num_frames \in Nat
    BY <1>1 DEF State, WriterType
  <2>5. c.writer.animation_written < c.writer.num_frames
    BY <1>4, <1>6, <2>1, <2>2, <2>4 DEF animated
  <2> QED BY <1>10, <2>3, <2>5
<1> HIDE DEF w, s, fc
<1>14. Grown(m, s)
  <2>1. a.out \in Seq(ChunkType) /\ s.out \in Seq(ChunkType)
    BY <1>3, <1>8 DEF State
  <2>2. Grown(a, s)
    BY <1>4, <1>8, <2>1, GrownSelf
  <2> QED BY <1>1, <1>3, <2>1, <2>2, GrownTransitive
<1>15. Sound(s)
  <2>1. Fits(fc)
    <3>1. Fits(m.writer.frame_control)
      BY DEF Live, Sound
    <3>2. Fits(c.writer.frame_control)
      BY <1>4, <1>6, <3>1 DEF Fits, is_some
    <3> QED BY <1>9, <1>12, <3>2
  <2>2. /\ NoStream.prefix = NoSeq /\ NoStream.buffer = << >> /\ Fits(NoStream.fctl)
    BY <1>12 DEF NoStream
  <2>3. ~ s.failed => NumbersKept(s)
    <3> SUFFICES ASSUME ~ m.failed PROVE NumbersKept(s)
      BY <1>8
    <3>1. NextFree(s) = File!Numbered(a.out) + 0
      BY <1>8, <2>2 DEF NextFree
    <3>2. File!Numbered(a.out) \in Nat
      BY <1>2, <1>3
    <3> QED BY <1>8, <1>10, <1>13, <2>2, <3>1, <3>2 DEF NumbersKept
  <2>4. BufferKept(s)
    BY <1>8, <2>2 DEF BufferKept
  <2> QED BY <1>3, <1>8, <1>10, <1>11, <2>1, <2>2, <2>3, <2>4 DEF Sound
<1>16. Open(s)
  BY <1>3, <1>4, <1>6, <1>8, <1>10 DEF Open
<1> QED BY <1>8, <1>14, <1>15, <1>16 DEF Live, s, c, a

LEMMA ImageWritten ==
  ASSUME NEW m, Live(m), m.stream = NoStream, m.result = "ok", NEW size \in CompressedSizes,
         NEW s \in write_image_data(m, size)
  PROVE  Live(s) /\ Grown(m, s) /\ Ends(s) /\ s.stream = NoStream /\ s.image # 0
<1> DEFINE chunks == image_chunks(m.writer, m.image + 1, size)
           begun == [m EXCEPT !.image = @ + 1]
           New(x) == SubSeq(x.out, Len(m.out) + 1, Len(x.out))
           frames(x) == IF TakesFrameControl(m.writer) /\ New(x) # << >> THEN 1 ELSE 0
           count(x) == Counted(x, x.writer.frame_control.sequence_number + Sequenced(New(x)),
                               x.writer.animation_written + frames(x))
<1>1. Orderly(m, chunks)
  <2>1. m.stream.prefix = NoSeq
    BY DEF NoStream
  <2> QED BY <2>1, ImageChunksOrderly
<1>2. PICK x \in WriteChunks(begun, chunks) :
        s \in IF count(x).result = "ok"
              THEN { [count(x) EXCEPT !.writer = increment_images_written(@)] }
              ELSE { count(x) }
  BY DEF write_image_data, Then, Counted
<1> HIDE DEF chunks
<1>3. PICK n \in 0 .. Len(chunks) :
        x = IF n = Len(chunks) THEN [begun EXCEPT !.out = @ \o SubSeq(chunks, 1, n)]
            ELSE Fail([begun EXCEPT !.out = @ \o SubSeq(chunks, 1, n)])
  BY DEF WriteChunks
<1> DEFINE a == At(m, chunks, n)
           taken == First(chunks, n)
           number == x.writer.frame_control.sequence_number + Sequenced(New(x))
           f == x.writer.animation_written + frames(x)
           y == count(x)
<1>4. [begun EXCEPT !.out = @ \o SubSeq(chunks, 1, n)] = a
  BY DEF At, First, Live, Sound, State
<1>5. m \in State /\ m.out \in Seq(ChunkType) /\ chunks \in Seq(ChunkType)
  BY <1>1 DEF Live, Sound, State, Orderly
<1>6. a \in State /\ a.out = m.out \o taken /\ a.result = "ok"
  BY <1>5, AtFields
<1> HIDE DEF begun
<1>7. x = IF n = Len(chunks) THEN a ELSE Fail(a)
  BY <1>3, <1>4
<1>8. n = Len(chunks) => x = At(m, chunks, Len(chunks))
  BY <1>7
<1>9. n # Len(chunks) => x = Fail(At(m, chunks, n))
  BY <1>7
<1> HIDE DEF a
<1>10. /\ x \in State /\ x.out = a.out /\ x.writer = m.writer /\ x.image # 0
       /\ n = Len(chunks) => x.result = "ok"
  <2>1. a.writer = m.writer /\ a.image = m.image + 1 /\ m.image \in Nat
    BY <1>5, AtFields DEF a, State
  <2>2. a.image # 0
    BY <2>1
  <2> QED BY <1>6, <1>7, <2>1, <2>2 DEF Fail, State
<1>11. New(x) = taken /\ taken \in Seq(ChunkType) /\ (n = Len(chunks) => taken = chunks)
  <2>1. New(x) = SubSeq(m.out \o taken, Len(m.out) + 1, Len(m.out \o taken))
    BY <1>6, <1>10
  <2> QED BY <1>5, <2>1, FirstFacts
<1>12. /\ number = m.writer.frame_control.sequence_number + Sequenced(taken)
       /\ n = Len(chunks) => number = m.writer.frame_control.sequence_number + Sequenced(chunks)
  BY <1>10, <1>11
<1>13. number \in Nat
  <2>1. Plain("IEND") \in ChunkType
    BY PlainFacts DEF PlainTypes, ChunkTypes
  <2>2. m.writer.frame_control.sequence_number \in Nat
    BY <1>5 DEF State, WriterType, FrameControl
  <2> HIDE DEF number, taken
  <2>3. Sequenced(taken) \in Nat
    BY <1>11, <2>1, SequencedIs, NumberedAppend
  <2> QED BY <1>12, <2>2, <2>3
<1>14. f \in Nat /\ m.writer.animation_written <= f
  <2>1. m.writer.animation_written \in Nat
    BY <1>5 DEF State, WriterType
  <2>2. frames(x) \in {0, 1}
    OBVIOUS
  <2> HIDE DEF frames
  <2> QED BY <1>10, <2>1, <2>2
<1>15. y = Counted(x, number, f)
  OBVIOUS
<1>16. s \in IF y.result = "ok" THEN { [y EXCEPT !.writer = increment_images_written(@)] } ELSE {y}
  BY <1>2
<1> HIDE DEF number, f, count, frames, New, taken, y
<1>17. s.image # 0
  <2>1. y \in State /\ y.image # 0
    BY <1>10, <1>13, <1>14, <1>15, CountedFields DEF Countable
  <2> QED BY <1>16, <2>1 DEF State
<1>18. CASE n = Len(chunks)
  <2>1. y.result = "ok"
    <3>1. Counted(x, number, f).result = x.result
      BY <1>10, <1>13, <1>14, CountedFields DEF Countable
    <3> QED BY <1>10, <1>15, <1>18, <3>1
  <2>2. y = Counted(At(m, chunks, Len(chunks)), number, f)
    BY <1>8, <1>15, <1>18
  <2>3. s = [y EXCEPT !.writer = increment_images_written(@)]
    BY <1>16, <2>1
  <2>4. number = m.writer.frame_control.sequence_number + Sequenced(chunks)
    BY <1>12, <1>18
  <2> DEFINE z == [Counted(At(m, chunks, Len(chunks)), number, f)
                     EXCEPT !.writer = increment_images_written(@)]
  <2>5. Live(z) /\ Grown(m, z) /\ z.result = "ok" /\ z.stream = NoStream
    BY <1>1, <1>14, <2>4, ImageCompleted
  <2>6. s = z
    BY <2>2, <2>3
  <2> HIDE DEF z
  <2> QED BY <1>17, <2>5, <2>6 DEF Ends
<1>19. CASE n # Len(chunks)
  <2> DEFINE z == Counted(Fail(At(m, chunks, n)), number, f)
  <2>1. y = z
    BY <1>9, <1>15, <1>19
  <2>2. /\ Live(z) /\ Grown(m, z) /\ z.failed /\ z.result = "err" /\ z.stream = NoStream
    BY <1>1, <1>13, <1>14, ImageCutOff
  <2> HIDE DEF z
  <2>3. s = z
    BY <1>16, <2>1, <2>2
  <2> QED BY <1>17, <2>2, <2>3 DEF Ends
<1> QED BY <1>18, <1>19

------------------------------------------------------------------------------
(* The header.                                                                  *)

\* What stands between IHDR and the image.
OtherPlains == { Plain(type) : type \in PlainTypes \ {"IHDR", "IEND"} }

Heading(chunks) ==
  /\ chunks \in Seq(ChunkType) /\ Len(chunks) > 0 /\ chunks[1] = Plain("IHDR")
  /\ \A i \in 2 .. Len(chunks) : chunks[i] \in OtherPlains

LEMMA HeadingGoesOn ==
  ASSUME NEW chunks, Heading(chunks), NEW more \in Seq(OtherPlains)
  PROVE  Heading(chunks \o more)
<1> DEFINE all == chunks \o more
<1>1. chunks \in Seq(ChunkType) /\ Len(chunks) > 0 /\ Len(chunks) \in Nat /\ Len(more) \in Nat
  BY DEF Heading
<1>2. /\ Len(all) = Len(chunks) + Len(more) /\ DOMAIN all = 1 .. Len(all)
      /\ \A i \in 1 .. Len(chunks) : all[i] = chunks[i]
      /\ \A i \in Len(chunks) + 1 .. Len(all) : all[i] = more[i - Len(chunks)]
  BY <1>1
<1>3. \A i \in 1 .. Len(more) : more[i] \in OtherPlains
  OBVIOUS
<1>4. more \in Seq(ChunkType)
  <2>1. OtherPlains \subseteq ChunkType
    BY PlainFacts DEF OtherPlains
  <2> HIDE DEF OtherPlains
  <2>2. \A i \in 1 .. Len(more) : more[i] \in ChunkType
    BY <1>3, <2>1
  <2> QED BY <2>2
<1>5. all \in Seq(ChunkType)
  BY <1>1, <1>4
<1> HIDE DEF all
<1>6. ASSUME NEW i \in 2 .. Len(all) PROVE all[i] \in OtherPlains
  <2>1. CASE i <= Len(chunks)
    BY <1>2, <2>1 DEF Heading
  <2>2. CASE i > Len(chunks)
    <3>1. i - Len(chunks) \in 1 .. Len(more) /\ i \in Len(chunks) + 1 .. Len(all)
      BY <1>1, <1>2, <2>2
    <3> QED BY <1>2, <1>3, <3>1
  <2> QED BY <1>1, <2>1, <2>2
<1>7. Len(all) > 0 /\ all[1] = Plain("IHDR")
  BY <1>1, <1>2 DEF Heading
<1> QED BY <1>5, <1>6, <1>7 DEF Heading, all

LEMMA PlainSequences ==
  /\ \A type \in PlainTypes \ {"IHDR", "IEND"} : << Plain(type) >> \in Seq(OtherPlains)
  /\ << >> \in Seq(OtherPlains)
  /\ \A a, b \in Seq(OtherPlains) : a \o b \in Seq(OtherPlains)
<1>1. ASSUME NEW type \in PlainTypes \ {"IHDR", "IEND"}
      PROVE  << Plain(type) >> \in Seq(OtherPlains)
  <2>1. Plain(type) \in OtherPlains
    BY DEF OtherPlains
  <2> HIDE DEF OtherPlains
  <2> QED BY <2>1
<1> HIDE DEF OtherPlains
<1> QED BY <1>1

LEMMA HeaderHeads ==
  ASSUME NEW info, NEW w
  PROVE  Heading(encode_header(info, animated(w)))
<1> DEFINE S == Seq(OtherPlains)
<1>1. /\ << Plain("pHYs") >> \in S /\ << Plain("sRGB") >> \in S /\ << Plain("gAMA") >> \in S
      /\ << Plain("cHRM") >> \in S /\ << Plain("iCCP") >> \in S /\ << Plain("eXIf") >> \in S
      /\ << Plain("acTL") >> \in S /\ << Plain("PLTE") >> \in S /\ << Plain("tRNS") >> \in S
      /\ << Plain("tEXt") >> \in S /\ << >> \in S
  <2>1. {"pHYs", "sRGB", "gAMA", "cHRM", "iCCP", "eXIf", "acTL", "PLTE", "tRNS", "tEXt"}
          \subseteq PlainTypes \ {"IHDR", "IEND"}
    BY DEF PlainTypes, ChunkTypes
  <2> HIDE DEF S
  <2> QED BY <2>1, PlainSequences DEF S
<1>2. Heading(<< Plain("IHDR") >>)
  <2>1. Plain("IHDR") \in ChunkType
    BY PlainFacts DEF PlainTypes, ChunkTypes
  <2> QED BY <2>1 DEF Heading
<1> DEFINE p == If("gAMA" \in info /\ "substitutes" \in info, "gAMA")
           q == If("cHRM" \in info /\ "substitutes" \in info, "cHRM")
           x == If("gAMA" \in info, "gAMA")
           y == If("cHRM" \in info, "cHRM")
           z == If("iCCP" \in info, "iCCP")
           a == If("pHYs" \in info, "pHYs")
           b == ColorChunks(info)
           c == If("eXIf" \in info, "eXIf")
           d == If(animated(w), "acTL")
           e == If("PLTE" \in info, "PLTE")
           f == If("tRNS" \in info, "tRNS")
           g == If("tEXt" \in info, "tEXt")
<1> HIDE DEF S
<1>3. p \in S /\ q \in S /\ x \in S /\ y \in S /\ z \in S
  BY <1>1 DEF If
<1>4. a \in S /\ c \in S /\ d \in S /\ e \in S /\ f \in S /\ g \in S
  BY <1>1 DEF If
<1>5. b = IF "sRGB" \in info THEN << Plain("sRGB") >> \o p \o q ELSE x \o y \o z
  BY DEF ColorChunks
<1>6. encode_header(info, animated(w)) =
        << Plain("IHDR") >> \o a \o b \o c \o d \o e \o f \o g
  BY DEF encode_header
<1> HIDE DEF a, b, c, d, e, f, g, p, q, x, y, z
<1>7. b \in S
  BY <1>1, <1>3, <1>5, PlainSequences DEF S
<1>8. Heading(<< Plain("IHDR") >> \o a \o b)
  BY <1>2, <1>4, <1>7, HeadingGoesOn DEF S
<1>9. Heading(<< Plain("IHDR") >> \o a \o b \o c \o d)
  BY <1>4, <1>8, HeadingGoesOn DEF S
<1> QED BY <1>4, <1>6, <1>9, HeadingGoesOn DEF S

\* The state behind n of some chunks.
Behind(m, chunks, n) == [m EXCEPT !.out = @ \o First(chunks, n)]

\* Nothing has been written yet.
Blank(m) ==
  /\ Sound(m) /\ Unclosed(m) /\ m.out = << >> /\ ~ m.failed /\ m.result = "ok"

LEMMA HeadingUnderway ==
  ASSUME NEW m, Blank(m), NEW chunks, Heading(chunks), NEW n \in 0 .. Len(chunks)
  PROVE  LET s == Behind(m, chunks, n) IN
         /\ Sound(s) /\ Unclosed(s) /\ Grown(m, s) /\ s.result = "ok" /\ ~ s.failed
         /\ s.stream = m.stream /\ (n > 0 => s.out # << >>)
<1> DEFINE Holds(k) ==
             LET s == Behind(m, chunks, k) IN
             /\ Sound(s) /\ Unclosed(s) /\ Grown(m, s) /\ s.result = "ok" /\ ~ s.failed
             /\ s.stream = m.stream /\ s.image = m.image /\ s.writer = m.writer
             /\ k > 0 <=> s.out # << >>
           K == { k \in 0 .. Len(chunks) : Holds(k) }
<1>1. /\ m \in State /\ m.out \in Seq(ChunkType) /\ chunks \in Seq(ChunkType)
      /\ m.image \in Nat /\ Len(chunks) \in Nat
  BY DEF Blank, Sound, State, Heading
<1>2. 0 \in K
  <2>1. m.out \o First(chunks, 0) = m.out
    BY <1>1, FirstFacts
  <2>2. Behind(m, chunks, 0) = m
    BY <1>1, <2>1 DEF Behind, State
  <2>3. Grown(m, m)
    BY <1>1, GrownSelf
  <2> QED BY <1>1, <2>2, <2>3 DEF Blank
<1>3. ASSUME NEW k \in 1 .. Len(chunks), k - 1 \in K PROVE k \in K
  <2> DEFINE s == Behind(m, chunks, k - 1)
             t == Behind(m, chunks, k)
             c == chunks[k]
  <2>1. /\ Sound(s) /\ Unclosed(s) /\ Grown(m, s) /\ s.result = "ok" /\ ~ s.failed
        /\ s.stream = m.stream /\ s.image = m.image /\ s.writer = m.writer
        /\ k - 1 > 0 <=> s.out # << >>
    BY <1>3
  <2>2. s.out = m.out \o First(chunks, k - 1) /\ s = [m EXCEPT !.out = s.out]
    BY <1>1 DEF Behind, State
  <2>3. m.out \o First(chunks, k) = Append(s.out, c)
    <3>1. m.out \o First(chunks, k) = Append(m.out \o First(chunks, k - 1), c)
      BY <1>1, FirstNext
    <3> HIDE DEF s, c
    <3> QED BY <2>2, <3>1
  <2>4. t = [m EXCEPT !.out = Append(s.out, c)]
    BY <1>1, <2>3 DEF Behind, State
  <2> HIDE DEF s, t
  <2>5. t = Appended(s, c)
    BY <1>1, <2>2, <2>4 DEF Appended, State
  <2>6. \E type \in PlainTypes \ {"IEND"} : c = Plain(type) /\ (type = "IHDR" <=> k = 1)
    <3>1. CASE k = 1
      BY <3>1 DEF Heading, PlainTypes, ChunkTypes
    <3>2. CASE k # 1
      <4>1. c \in OtherPlains
        BY <1>1, <3>2 DEF Heading
      <4> QED BY <3>2, <4>1 DEF OtherPlains
    <3> QED BY <3>1, <3>2
  <2>7. PICK type \in PlainTypes \ {"IEND"} : c = Plain(type) /\ (type = "IHDR" <=> k = 1)
    BY <2>6
  <2>8. /\ c \in ChunkType /\ c.seq = NoSeq /\ c.data = << >> /\ c.image = 0 /\ c.type = type
    BY <2>7, PlainFacts
  <2> HIDE DEF c
  <2>9. File!MayFollow(s.out, c, s.failed)
    <3>1. "IEND" \notin File!Types(s.out)
      BY <2>1 DEF Unclosed
    <3>2. File!HeaderFirst(s.out, c)
      BY <1>1, <2>1, <2>7, <2>8 DEF File!HeaderFirst
    <3>3. c.type # "fcTL"
      BY <2>8 DEF PlainTypes
    <3>4. File!TakesNextNumber(s.out, c) /\ File!FrameInImage(c) /\ File!ContinuesImage(s.out, c)
      BY <2>8, <3>3 DEF File!TakesNextNumber, File!FrameInImage, File!ContinuesImage, NoSeq
    <3> QED BY <3>1, <3>2, <3>4 DEF File!MayFollow
  <2>10. c.image <= s.image
    BY <1>1, <2>1, <2>8
  <2>11. /\ Sound(t) /\ Grown(s, t) /\ t.result = s.result /\ t.failed = s.failed
         /\ t.writer = s.writer /\ t.stream = s.stream /\ t.image = s.image
         /\ File!Types(t.out) = File!Types(s.out) \cup {c.type} /\ t.out # << >>
    BY <2>1, <2>5, <2>8, <2>9, <2>10, AppendedFacts
  <2>12. Grown(m, t)
    BY <1>1, <2>1, <2>11, GrownTransitive DEF Sound, State
  <2>13. Unclosed(t)
    BY <2>1, <2>8, <2>11 DEF Unclosed
  <2>14. Holds(k)
    <3>1. k > 0
      OBVIOUS
    <3> QED BY <2>1, <2>11, <2>12, <2>13, <3>1 DEF t
  <2> QED BY <1>1, <2>14
<1> HIDE DEF K
<1>4. 0 .. Len(chunks) \subseteq K
  BY <1>1, <1>2, <1>3, Induction
<1>5. n \in K
  BY <1>4
<1> QED BY <1>5 DEF K

LEMMA HeaderInit ==
  ASSUME NEW m, Blank(m), NEW info, NEW s \in init(m, info)
  PROVE  /\ Sound(s) /\ Unclosed(s) /\ Grown(m, s) /\ s.stream = m.stream
         /\ s.result \in {"ok", "err"}
         /\ s.result = "ok" => Open(s)
<1> DEFINE chunks == encode_header(info, animated(m.writer))
<1>1. CASE "invalid" \in info
  <2>1. s = Err(m)
    BY <1>1 DEF init
  <2>2. Twins(m, s) /\ s.result = "err"
    BY <2>1, ResultTwins DEF Err, Blank, Sound
  <2> QED BY <2>2, TwinFacts DEF Blank, Unclosed, Twins
<1>2. CASE "invalid" \notin info
  <2>1. PICK x \in WriteChunks(m, chunks) :
          s \in IF x.result = "ok" THEN (IF "unencodable" \in info THEN {Err(x)} ELSE {x})
                ELSE {x}
    BY <1>2 DEF init, Then
  <2>2. Heading(chunks)
    BY HeaderHeads
  <2> HIDE DEF chunks
  <2>3. PICK n \in 0 .. Len(chunks) :
          x = IF n = Len(chunks) THEN Behind(m, chunks, n) ELSE Fail(Behind(m, chunks, n))
    BY <2>1 DEF WriteChunks, Behind, First
  <2> DEFINE b == Behind(m, chunks, n)
  <2>4. /\ Sound(b) /\ Unclosed(b) /\ Grown(m, b) /\ b.result = "ok" /\ ~ b.failed
        /\ b.stream = m.stream /\ (n > 0 => b.out # << >>)
    BY <2>2, HeadingUnderway
  <2>5. n = Len(chunks) => b.out # << >>
    BY <2>2, <2>4 DEF Heading
  <2>6. m \in State
    BY DEF Blank, Sound
  <2>7. x = IF n = Len(chunks) THEN b ELSE Fail(b)
    BY <2>3
  <2> HIDE DEF b
  <2>8. CASE n # Len(chunks)
    <3>1. s = Fail(b)
      BY <2>1, <2>4, <2>7, <2>8 DEF Fail, Sound, State
    <3>2. /\ Sound(s) /\ Grown(b, s) /\ s.result = "err" /\ s.stream = b.stream
          /\ s.writer = b.writer /\ s.out = b.out
      BY <2>4, <3>1, SinkRefuses
    <3>3. Grown(m, s)
      BY <2>4, <2>6, <3>2, GrownTransitive DEF Sound, State
    <3> QED BY <2>4, <3>2, <3>3 DEF Unclosed
  <2>9. CASE n = Len(chunks) /\ s = b
    BY <2>4, <2>5, <2>9 DEF Unclosed, Open
  <2>10. CASE n = Len(chunks) /\ s = Err(b)
    <3>1. Twins(b, s) /\ s.result = "err"
      BY <2>4, <2>10, ResultTwins DEF Err, Sound
    <3>2. Sound(s) /\ Grown(b, s) /\ s.stream = b.stream
      BY <2>4, <3>1, TwinFacts DEF Twins
    <3>3. Grown(m, s)
      BY <2>4, <2>6, <3>2, GrownTransitive DEF Sound, State
    <3> QED BY <2>4, <3>1, <3>2, <3>3 DEF Unclosed, Twins
  <2> QED BY <2>1, <2>4, <2>7, <2>8, <2>9, <2>10
<1> QED BY <1>1, <1>2

\* write_header that fails.
LEMMA HeaderGivenUp ==
  ASSUME NEW m, Blank(m), NEW info, NEW x \in init(m, info),
         NEW d \in drop_writer([x EXCEPT !.result = "ok"])
  PROVE  Closes(m, [d EXCEPT !.result = "err"])
<1> DEFINE o == [x EXCEPT !.result = "ok"]
<1>1. Sound(x) /\ Unclosed(x) /\ Grown(m, x) /\ Sound(m)
  BY HeaderInit DEF Blank
<1>2. Twins(x, o) /\ o.result = "ok"
  BY <1>1, ResultTwins DEF Sound
<1>3. Sound(o) /\ Unclosed(o) /\ Grown(x, o)
  BY <1>1, <1>2, TwinFacts DEF Unclosed, Twins
<1>4. Closes(o, d)
  BY <1>2, <1>3, WriterDropped
<1> HIDE DEF o
<1>5. Closes(m, d)
  BY <1>1, <1>3, <1>4, ClosesTransitive
<1>6. Twins(d, [d EXCEPT !.result = "err"]) /\ [d EXCEPT !.result = "err"].result = "err"
  BY <1>5, ResultTwins DEF Closes, Sound
<1> QED BY <1>5, <1>6, ClosesTwin

------------------------------------------------------------------------------
(* Steps.                                                                       *)

Users   == {"encoder", "writer", "borrowed", "owned", "gone"}
Results == {"ok", "err", "panic", "none"}

\* What the invariant says of a state s if the caller is left with holder, having been told
\* how it went.
Allowed(s, holder, told) ==
  /\ Sound(s) /\ holder \in Users /\ told \in Results
  /\ holder = "encoder" => /\ s.out = << >> /\ ~ s.failed /\ s.image = 0 /\ s.stream = NoStream
                           /\ ~ s.writer.iend_written /\ s.writer.animation_written = 0
  /\ holder = "writer" => s.stream = NoStream /\ Open(s)
  /\ holder \in {"borrowed", "owned"} => Emitting(s) /\ Rows(s) /\ s.image # 0
  /\ told = "panic" => s.failed /\ holder = "gone"

LEMMA IInvIs == IInv <=> BuffersHoldData /\ Allowed(Here, user, result) /\ streams \in Nat
<1>1. /\ Here.out = out /\ Here.failed = failed /\ Here.image = image /\ Here.stream = stream
      /\ Here.writer = writer
  BY DEF Here
<1> QED BY <1>1 DEF IInv, Allowed, Users, Results, Streaming

LEMMA AllowedTwin ==
  ASSUME NEW m, NEW s, Twins(m, s), NEW holder, NEW told, Allowed(m, holder, told)
  PROVE  Allowed(s, holder, told)
<1>1. /\ Sound(s) /\ (Open(m) => Open(s)) /\ (Emitting(m) /\ Rows(m) => Emitting(s) /\ Rows(s))
  BY TwinFacts DEF Allowed, Emitting, Live
<1> QED BY <1>1 DEF Allowed, Twins

LEMMA HereFields ==
  /\ Here.out = out /\ Here.failed = failed /\ Here.image = image /\ Here.stream = stream
  /\ Here.writer = writer /\ Here.result = "ok"
BY DEF Here

\* What a step of the model does to the invariant, to the file and to the image under way.
Advances == IInv' /\ File!Next /\ (image # 0 => image' # 0)

LEMMA Advancing ==
  ASSUME IInv, user # "gone", NEW s, Become(s), Grown(Here, s),
         Allowed(s, user', result'), streams' \in Nat,
         user' = "gone" => s.failed \/ "IEND" \in File!Types(s.out)
  PROVE  Advances
<1> DEFINE next == Here'
<1>1. /\ next.writer = s.writer /\ next.out = s.out /\ next.failed = s.failed
      /\ next.stream = s.stream /\ next.image = s.image
      /\ next = [writer |-> s.writer, out |-> s.out, failed |-> s.failed, result |-> "ok",
                 stream |-> s.stream, image |-> s.image]
  BY DEF Here, Become
<1>2. s \in State
  BY DEF Allowed, Sound
<1>3. Twins(s, next)
  BY <1>1, <1>2 DEF Twins, State
<1> HIDE DEF next
<1>4. Allowed(next, user', result')
  BY <1>3, AllowedTwin
<1>5. IInv'
  <2>1. Allowed(Here, user, result)'
    BY <1>4 DEF next
  <2>2. (IInv <=> BuffersHoldData /\ Allowed(Here, user, result) /\ streams \in Nat)'
    BY IInvIs, PTL
  <2>3. BuffersHoldData'
    BY DEF IInv, BuffersHoldData
  <2> QED BY <2>1, <2>2, <2>3
<1>6. out' = s.out /\ failed' = s.failed /\ Here.out = out /\ Here.failed = failed
  BY DEF Become, Here
<1>7. File!Grow
  BY <1>6 DEF File!Grow, Grown
<1>8. File!Close
  BY <1>6 DEF File!Close
<1>9. image # 0 => image' # 0
  BY HereFields DEF Become, Grown
<1> QED BY <1>5, <1>7, <1>8, <1>9 DEF Advances, File!Next

\* The conditions under which a call that returns may end in s.
Returns(s, holder) ==
  /\ Grown(Here, s) /\ Allowed(s, holder, s.result)
  /\ holder = "gone" => s.failed \/ "IEND" \in File!Types(s.out)

LEMMA Returning ==
  ASSUME IInv, user # "gone", NEW S, NEW holder, Return(S, holder),
         \A s \in S : Returns(s, holder)
  PROVE  Advances
<1>1. PICK s \in S : Become(s) /\ result' = s.result
  BY DEF Return
<1>2. user' = holder /\ streams' = streams /\ streams \in Nat
  BY DEF Return, IInv
<1> QED BY <1>1, <1>2, Advancing DEF Returns

LEMMA ReturningStreaming ==
  ASSUME IInv, user # "gone", NEW S, NEW holder, ReturnStreaming(S, holder), streams' \in Nat,
         \A s \in S : Returns(s, IF s.result = "panic" THEN "gone" ELSE holder)
  PROVE  Advances
<1>1. PICK s \in S : /\ Become(s) /\ result' = s.result
                     /\ user' = IF s.result = "panic" THEN "gone" ELSE holder
  BY DEF ReturnStreaming
<1> QED BY <1>1, Advancing DEF Returns

------------------------------------------------------------------------------
(* Setters.                                                                     *)

LEMMA WriterSet ==
  ASSUME NEW m, Sound(m), NEW w, w \in WriterType, Fits(w.frame_control),
         w.iend_written = m.writer.iend_written,
         ~ m.failed /\ is_some(w.frame_control) =>
           /\ w.frame_control.sequence_number = NextFree(m)
           /\ w.animation_written < w.num_frames
  PROVE  LET s == [m EXCEPT !.writer = w] IN
         /\ Sound(s) /\ Grown(m, s) /\ s.out = m.out /\ s.failed = m.failed
         /\ s.image = m.image /\ s.stream = m.stream /\ s.writer = w
         /\ Open(m) => Open(s)
<1> DEFINE s == [m EXCEPT !.writer = w]
<1>1. m \in State /\ m.out \in Seq(ChunkType)
  BY DEF Sound, State
<1>2. /\ s \in State /\ s.out = m.out /\ s.failed = m.failed
      /\ s.image = m.image /\ s.stream = m.stream /\ s.writer = w
  BY <1>1 DEF State
<1> HIDE DEF s
<1>3. Grown(m, s)
  BY <1>1, <1>2, GrownSelf
<1>4. ~ s.failed => NumbersKept(s) /\ BufferKept(s)
  BY <1>2 DEF Sound, NumbersKept, BufferKept, NextFree
<1>5. Sound(s)
  BY <1>2, <1>4 DEF Sound
<1>6. Open(m) => Open(s)
  BY <1>2 DEF Open
<1> QED BY <1>2, <1>3, <1>5, <1>6 DEF s

LEMMA Setting ==
  ASSUME IInv, NEW holder, holder \in {"encoder", "writer"}, NEW w, Set(holder, w),
         w \in WriterType, Fits(w.frame_control), w.iend_written = writer.iend_written,
         w.animation_written = writer.animation_written,
         ~ failed /\ is_some(w.frame_control) =>
           /\ w.frame_control.sequence_number = NextFree(Here)
           /\ w.animation_written < w.num_frames
  PROVE  Advances
<1> DEFINE m == Here
           s == [m EXCEPT !.writer = w]
<1>1. /\ user = holder /\ writer' = w /\ result' = "ok" /\ out' = out /\ failed' = failed
      /\ user' = holder /\ stream' = stream /\ image' = image /\ streams' = streams
  BY DEF Set
<1>2. Allowed(m, holder, result) /\ streams \in Nat
  BY <1>1, IInvIs
<1>3. /\ m.out = out /\ m.failed = failed /\ m.image = image /\ m.stream = stream
      /\ m.writer = writer
  BY HereFields
<1> HIDE DEF m
<1>4. /\ Sound(s) /\ Grown(m, s) /\ s.out = m.out /\ s.failed = m.failed
      /\ s.image = m.image /\ s.stream = m.stream /\ s.writer = w
      /\ Open(m) => Open(s)
  <2>1. /\ Sound(m) /\ w.iend_written = m.writer.iend_written
        /\ ~ m.failed /\ is_some(w.frame_control) =>
             /\ w.frame_control.sequence_number = NextFree(m)
             /\ w.animation_written < w.num_frames
    BY <1>2, <1>3 DEF Allowed, m
  <2> QED BY <2>1, WriterSet
<1> HIDE DEF s
<1>5. Allowed(s, user', result')
  BY <1>1, <1>2, <1>3, <1>4 DEF Allowed, Results
<1>6. Become(s)
  BY <1>1, <1>3, <1>4 DEF Become
<1> QED BY <1>1, <1>2, <1>4, <1>5, <1>6, Advancing DEF m

\* A setter that leaves the numbers alone.
LEMMA SettingFields ==
  ASSUME IInv, NEW holder, holder \in {"encoder", "writer"}, NEW w, Set(holder, w),
         w \in WriterType, Fits(w.frame_control), w.iend_written = writer.iend_written,
         w.animation_written = writer.animation_written, w.num_frames = writer.num_frames,
         w.frame_control.sequence_number = writer.frame_control.sequence_number,
         is_some(w.frame_control) => is_some(writer.frame_control)
  PROVE  Advances
<1>1. ~ failed => NumbersKept(Here)
  BY HereFields DEF IInv, Sound
<1>2. ~ failed /\ is_some(w.frame_control) =>
        /\ w.frame_control.sequence_number = NextFree(Here)
        /\ w.animation_written < w.num_frames
  BY <1>1, HereFields DEF NumbersKept
<1> QED BY <1>2, Setting

LEMMA WriterTyped ==
  ASSUME IInv
  PROVE  /\ writer \in WriterType /\ writer.frame_control \in FrameControl
         /\ Fits(writer.frame_control)
         /\ stream \in StreamType /\ stream.fctl \in FrameControl /\ Fits(stream.fctl)
         /\ Here \in State /\ out \in Seq(ChunkType) /\ image \in Nat
<1>1. Sound(Here) /\ Here \in State
  BY DEF IInv, Sound
<1>2. writer \in WriterType /\ stream \in StreamType /\ out \in Seq(ChunkType) /\ image \in Nat
  BY <1>1 DEF State, Here
<1>3. Fits(writer.frame_control) /\ Fits(stream.fctl)
  BY <1>1, HereFields DEF Sound
<1> QED BY <1>1, <1>2, <1>3 DEF WriterType, StreamType

LEMMA EncoderSetters ==
  ASSUME IInv,
         \/ \E num_frames \in NumFrames : SetAnimated(num_frames)
         \/ \E sep_def_img \in BOOLEAN : SetSepDefImg(sep_def_img)
         \/ \E validate \in BOOLEAN : ValidateSequence(validate)
         \/ \E compression \in {"Flate2", "FDeflate"} : SetDeflateCompression(compression)
  PROVE  Advances
<1>1. /\ writer \in WriterType /\ writer.frame_control \in FrameControl
      /\ Fits(writer.frame_control)
  BY WriterTyped
<1>2. ASSUME NEW num_frames \in NumFrames, SetAnimated(num_frames) PROVE Advances
  <2> DEFINE w == [writer EXCEPT !.num_frames = num_frames, !.frame_control = WholeImage]
  <2>1. Set("encoder", w) /\ num_frames > 0 /\ num_frames \in Nat
    BY <1>2, WriterAssumption DEF SetAnimated
  <2>2. user = "encoder" /\ out = << >> /\ stream = NoStream /\ writer.animation_written = 0
    BY <2>1 DEF Set, IInv
  <2>3. WholeImage \in FrameControl /\ WholeImage.sequence_number = 0 /\ Fits(WholeImage)
    BY WriterAssumption DEF WholeImage, FrameControl, Fits
  <2>4. /\ w \in WriterType /\ w.frame_control = WholeImage /\ w.num_frames = num_frames
        /\ w.animation_written = 0 /\ w.iend_written = writer.iend_written
    <3> HIDE DEF WholeImage
    <3> QED BY <1>1, <2>1, <2>2, <2>3 DEF WriterType
  <2>5. NextFree(Here) = 0
    <3>1. File!Numbered(<< >>) = 0
      <4>1. Marked(<< >>) = {}
        BY DEF Marked
      <4> QED BY <4>1, NumberedIs, FS_EmptySet
    <3> QED BY <2>2, <3>1, HereFields DEF NextFree, NoStream
  <2> HIDE DEF w
  <2> QED BY <2>1, <2>2, <2>3, <2>4, <2>5, Setting
<1>3. ASSUME NEW w, Set("encoder", w), w \in WriterType,
             w.frame_control = writer.frame_control, w.num_frames = writer.num_frames,
             w.animation_written = writer.animation_written,
             w.iend_written = writer.iend_written
      PROVE  Advances
  BY <1>1, <1>3, SettingFields
<1>4. ASSUME NEW sep_def_img \in BOOLEAN, SetSepDefImg(sep_def_img) PROVE Advances
  <2> DEFINE w == [writer EXCEPT !.sep_def_img = sep_def_img]
  <2>1. /\ Set("encoder", w) /\ w \in WriterType
        /\ w.frame_control = writer.frame_control /\ w.num_frames = writer.num_frames
        /\ w.animation_written = writer.animation_written
        /\ w.iend_written = writer.iend_written
    BY <1>1, <1>4 DEF SetSepDefImg, WriterType
  <2> HIDE DEF w
  <2> QED BY <1>3, <2>1
<1>5. ASSUME NEW validate \in BOOLEAN, ValidateSequence(validate) PROVE Advances
  <2> DEFINE w == [writer EXCEPT !.validate_sequence = validate]
  <2>1. /\ Set("encoder", w) /\ w \in WriterType
        /\ w.frame_control = writer.frame_control /\ w.num_frames = writer.num_frames
        /\ w.animation_written = writer.animation_written
        /\ w.iend_written = writer.iend_written
    BY <1>1, <1>5 DEF ValidateSequence, WriterType
  <2> HIDE DEF w
  <2> QED BY <1>3, <2>1
<1>6. ASSUME NEW compression \in {"Flate2", "FDeflate"}, SetDeflateCompression(compression)
      PROVE  Advances
  <2> DEFINE w == [writer EXCEPT !.compression = compression]
  <2>1. /\ Set("encoder", w) /\ w \in WriterType
        /\ w.frame_control = writer.frame_control /\ w.num_frames = writer.num_frames
        /\ w.animation_written = writer.animation_written
        /\ w.iend_written = writer.iend_written
    BY <1>1, <1>6 DEF SetDeflateCompression, WriterType
  <2> HIDE DEF w
  <2> QED BY <1>3, <2>1
<1> QED BY <1>2, <1>4, <1>5, <1>6

\* What the four setters of a frame control make of it.
LEMMA FrameSetters ==
  ASSUME NEW fctl \in FrameControl, Fits(fctl), is_some(fctl), NEW to,
         \/ \E width \in 1 .. Width : /\ dimension_fits(fctl, width)
                                      /\ to = [fctl EXCEPT !.width = width]
         \/ \E x \in 0 .. Width : /\ position_fits(fctl, x)
                                  /\ to = [fctl EXCEPT !.x_offset = x]
         \/ to = reset_frame_dimension(fctl)
         \/ to = [fctl EXCEPT !.x_offset = 0]
  PROVE  to \in FrameControl /\ Fits(to) /\ to.sequence_number = fctl.sequence_number
<1>1. Width \in Nat \ {0}
  BY WriterAssumption
<1>2. /\ fctl.width \in Nat /\ fctl.x_offset \in Nat /\ fctl.width > 0
      /\ fctl.x_offset + fctl.width <= Width
  BY DEF FrameControl, Fits, is_some
<1>3. ASSUME NEW v \in Nat, NEW x \in Nat, x + v <= Width,
             to = [fctl EXCEPT !.width = v, !.x_offset = x]
      PROVE  to \in FrameControl /\ Fits(to) /\ to.sequence_number = fctl.sequence_number
  BY <1>3 DEF FrameControl, Fits
<1>4. ASSUME NEW width \in 1 .. Width, dimension_fits(fctl, width),
             to = [fctl EXCEPT !.width = width]
      PROVE  to \in FrameControl /\ Fits(to) /\ to.sequence_number = fctl.sequence_number
  <2>1. to = [fctl EXCEPT !.width = width, !.x_offset = fctl.x_offset]
    BY <1>4 DEF FrameControl
  <2>2. width \in Nat /\ fctl.x_offset + width <= Width
    BY <1>1, <1>2, <1>4 DEF dimension_fits
  <2> QED BY <1>2, <1>3, <2>1, <2>2
<1>5. ASSUME NEW x \in 0 .. Width, position_fits(fctl, x), to = [fctl EXCEPT !.x_offset = x]
      PROVE  to \in FrameControl /\ Fits(to) /\ to.sequence_number = fctl.sequence_number
  <2>1. to = [fctl EXCEPT !.width = fctl.width, !.x_offset = x]
    BY <1>5 DEF FrameControl
  <2>2. x \in Nat /\ x + fctl.width <= Width
    BY <1>1, <1>2, <1>5 DEF position_fits
  <2> QED BY <1>2, <1>3, <2>1, <2>2
<1>6. ASSUME to = reset_frame_dimension(fctl)
      PROVE  to \in FrameControl /\ Fits(to) /\ to.sequence_number = fctl.sequence_number
  <2> DEFINE v == Width - fctl.x_offset
  <2>1. to = [fctl EXCEPT !.width = v, !.x_offset = fctl.x_offset]
    BY <1>6 DEF FrameControl, reset_frame_dimension
  <2>2. v \in Nat /\ fctl.x_offset + v <= Width
    BY <1>1, <1>2
  <2> HIDE DEF v
  <2> QED BY <1>2, <1>3, <2>1, <2>2
<1>7. ASSUME to = [fctl EXCEPT !.x_offset = 0]
      PROVE  to \in FrameControl /\ Fits(to) /\ to.sequence_number = fctl.sequence_number
  <2>1. to = [fctl EXCEPT !.width = fctl.width, !.x_offset = 0]
    BY <1>7 DEF FrameControl
  <2>2. 0 \in Nat /\ 0 + fctl.width <= Width
    BY <1>1, <1>2
  <2> QED BY <1>2, <1>3, <2>1, <2>2
<1> QED BY <1>4, <1>5, <1>6, <1>7

LEMMA WriterSetters ==
  ASSUME IInv,
         \/ \E width \in 1 .. Width : SetFrameDimension(width)
         \/ \E x \in 0 .. Width : SetFramePosition(x)
         \/ ResetFrameDimension
         \/ ResetFramePosition
  PROVE  Advances
<1> DEFINE fctl == writer.frame_control
<1>1. writer \in WriterType /\ fctl \in FrameControl /\ Fits(fctl)
  BY WriterTyped
<1>2. ASSUME NEW to, Set("writer", [writer EXCEPT !.frame_control = to]), is_some(fctl),
             to \in FrameControl, Fits(to), to.sequence_number = fctl.sequence_number
      PROVE  Advances
  <2> DEFINE w == [writer EXCEPT !.frame_control = to]
  <2>1. /\ w \in WriterType /\ w.frame_control = to /\ w.num_frames = writer.num_frames
        /\ w.animation_written = writer.animation_written
        /\ w.iend_written = writer.iend_written
    BY <1>1, <1>2 DEF WriterType
  <2> HIDE DEF w
  <2>2. Set("writer", w)
    BY <1>2 DEF w
  <2> QED BY <1>2, <2>1, <2>2, SettingFields
<1>3. ASSUME NEW width \in 1 .. Width, SetFrameDimension(width) PROVE Advances
  <2> DEFINE to == [fctl EXCEPT !.width = width]
  <2>1. [writer EXCEPT !.frame_control.width = width] = [writer EXCEPT !.frame_control = to]
    BY <1>1 DEF WriterType
  <2>2. is_some(fctl) /\ dimension_fits(fctl, width)
        /\ Set("writer", [writer EXCEPT !.frame_control = to])
    BY <1>3, <2>1 DEF SetFrameDimension
  <2>3. to \in FrameControl /\ Fits(to) /\ to.sequence_number = fctl.sequence_number
    <3> HIDE DEF fctl
    <3> QED BY <1>1, <2>2, FrameSetters
  <2> HIDE DEF to
  <2> QED BY <1>2, <2>2, <2>3
<1>4. ASSUME NEW x \in 0 .. Width, SetFramePosition(x) PROVE Advances
  <2> DEFINE to == [fctl EXCEPT !.x_offset = x]
  <2>1. [writer EXCEPT !.frame_control.x_offset = x] = [writer EXCEPT !.frame_control = to]
    BY <1>1 DEF WriterType
  <2>2. is_some(fctl) /\ position_fits(fctl, x)
        /\ Set("writer", [writer EXCEPT !.frame_control = to])
    BY <1>4, <2>1 DEF SetFramePosition
  <2>3. to \in FrameControl /\ Fits(to) /\ to.sequence_number = fctl.sequence_number
    <3> HIDE DEF fctl
    <3> QED BY <1>1, <2>2, FrameSetters
  <2> HIDE DEF to
  <2> QED BY <1>2, <2>2, <2>3
<1>5. ASSUME ResetFrameDimension PROVE Advances
  <2> DEFINE to == reset_frame_dimension(fctl)
  <2>1. [writer EXCEPT !.frame_control = reset_frame_dimension(@)] =
          [writer EXCEPT !.frame_control = to]
    BY <1>1 DEF WriterType
  <2>2. is_some(fctl) /\ Set("writer", [writer EXCEPT !.frame_control = to])
    BY <1>5, <2>1 DEF ResetFrameDimension
  <2>3. to \in FrameControl /\ Fits(to) /\ to.sequence_number = fctl.sequence_number
    <3> HIDE DEF fctl
    <3> QED BY <1>1, <2>2, FrameSetters
  <2> HIDE DEF to
  <2> QED BY <1>2, <2>2, <2>3
<1>6. ASSUME ResetFramePosition PROVE Advances
  <2> DEFINE to == [fctl EXCEPT !.x_offset = 0]
  <2>1. [writer EXCEPT !.frame_control.x_offset = 0] = [writer EXCEPT !.frame_control = to]
    BY <1>1 DEF WriterType
  <2>2. is_some(fctl) /\ Set("writer", [writer EXCEPT !.frame_control = to])
    BY <1>6, <2>1 DEF ResetFramePosition
  <2>3. to \in FrameControl /\ Fits(to) /\ to.sequence_number = fctl.sequence_number
    <3> HIDE DEF fctl
    <3> QED BY <1>1, <2>2, FrameSetters
  <2> HIDE DEF to
  <2> QED BY <1>2, <2>2, <2>3
<1> QED BY <1>3, <1>4, <1>5, <1>6

\* The setters of a stream, on its own copy.
LEMMA StreamSet ==
  ASSUME NEW m, Emitting(m), Rows(m), NEW to, to \in FrameControl, Fits(to),
         is_some(m.stream.fctl)
  PROVE  LET s == [m EXCEPT !.stream = [m.stream EXCEPT !.fctl = to]] IN
         Emitting(s) /\ Rows(s) /\ Grown(m, s) /\ s.out = m.out /\ s.failed = m.failed
         /\ s.image = m.image /\ s.writer = m.writer
         /\ s.stream = [m.stream EXCEPT !.fctl = to]
<1> DEFINE t == [m.stream EXCEPT !.fctl = to]
           s == [m EXCEPT !.stream = t]
<1>1. m \in State /\ m.stream \in StreamType /\ m.out \in Seq(ChunkType)
  BY DEF Emitting, Live, Sound, State
<1>2. /\ t \in StreamType /\ t.wrapper = m.stream.wrapper /\ t.buffer = m.stream.buffer
      /\ t.prefix = m.stream.prefix /\ t.size = m.stream.size /\ t.emitted = m.stream.emitted
      /\ t.index = m.stream.index /\ t.line_len = m.stream.line_len
      /\ t.to_write = m.stream.to_write /\ t.fctl = to
  BY <1>1 DEF StreamType
<1> HIDE DEF t
<1>3. /\ s \in State /\ s.out = m.out /\ s.failed = m.failed
      /\ s.image = m.image /\ s.stream = t /\ s.writer = m.writer
  BY <1>1, <1>2 DEF State
<1> HIDE DEF s
<1>4. Grown(m, s)
  BY <1>1, <1>3, GrownSelf
<1>5. /\ NumbersKept(m) <=> NumbersKept(s)
      /\ BufferKept(m) <=> BufferKept(s)
      /\ used(m) = used(s) /\ (Compressing(m) <=> Compressing(s))
  BY <1>2, <1>3 DEF NumbersKept, BufferKept, NextFree, used, Compressing
<1>6. Emitting(s)
  BY <1>2, <1>3, <1>5 DEF Emitting, Live, Sound, Open, Tally, Room
<1>7. Rows(s)
  BY <1>2, <1>3, <1>5 DEF Rows
<1> QED BY <1>3, <1>4, <1>6, <1>7 DEF s, t

LEMMA StreamSetters ==
  ASSUME IInv,
         \/ \E width \in 1 .. Width : SetStreamedDimension(width)
         \/ \E x \in 0 .. Width : SetStreamedPosition(x)
         \/ ResetStreamedDimension
         \/ ResetStreamedPosition
  PROVE  Advances
<1> DEFINE fctl == stream.fctl
<1>1. fctl \in FrameControl /\ Fits(fctl)
  BY WriterTyped
<1>2. PICK to :
        /\ SetStreamed(to)
        /\ \/ \E width \in 1 .. Width : /\ dimension_fits(fctl, width)
                                        /\ to = [fctl EXCEPT !.width = width]
           \/ \E x \in 0 .. Width : /\ position_fits(fctl, x)
                                    /\ to = [fctl EXCEPT !.x_offset = x]
           \/ to = reset_frame_dimension(fctl)
           \/ to = [fctl EXCEPT !.x_offset = 0]
  BY DEF SetStreamedDimension, SetStreamedPosition, ResetStreamedDimension,
         ResetStreamedPosition
<1>3. /\ Streaming /\ is_some(fctl) /\ stream' = [stream EXCEPT !.fctl = to]
      /\ result' = "ok" /\ writer' = writer /\ out' = out /\ failed' = failed
      /\ user' = user /\ image' = image /\ streams' = streams
  BY <1>2 DEF SetStreamed
<1>4. to \in FrameControl /\ Fits(to)
  <2> HIDE DEF fctl
  <2> QED BY <1>1, <1>2, <1>3, FrameSetters
<1> DEFINE m == Here
           s == [m EXCEPT !.stream = [m.stream EXCEPT !.fctl = to]]
<1>5. Emitting(m) /\ Rows(m) /\ streams \in Nat /\ image # 0
  BY <1>3 DEF IInv
<1>6. /\ m.out = out /\ m.failed = failed /\ m.image = image /\ m.stream = stream
      /\ m.writer = writer
  BY HereFields
<1> HIDE DEF m
<1>7. /\ Emitting(s) /\ Rows(s) /\ Grown(m, s) /\ s.out = m.out /\ s.failed = m.failed
      /\ s.image = m.image /\ s.writer = m.writer
      /\ s.stream = [m.stream EXCEPT !.fctl = to]
  BY <1>3, <1>4, <1>5, <1>6, StreamSet
<1> HIDE DEF s
<1>8. Allowed(s, user', result')
  BY <1>3, <1>5, <1>6, <1>7 DEF Allowed, Emitting, Live, Streaming, Users, Results
<1>9. Become(s)
  BY <1>3, <1>6, <1>7 DEF Become
<1> QED BY <1>3, <1>5, <1>7, <1>8, <1>9, Advancing DEF m, Streaming

------------------------------------------------------------------------------
(* Calls on the Writer.                                                         *)

\* What leaves the caller with the Writer, or with nothing.
LEMMA WriterReturns ==
  ASSUME NEW s, Live(s), Grown(Here, s), s.stream = NoStream, s.result \in {"ok", "err"}
  PROVE  Returns(s, "writer")
BY DEF Returns, Allowed, Live, Users, Results

LEMMA NothingReturns ==
  ASSUME NEW s, Closes(Here, s)
  PROVE  Returns(s, "gone")
<1>1. s.result \in Results
  BY DEF Closes, Sound, State, Results
<1> QED BY <1>1 DEF Returns, Allowed, Closes, Users

LEMMA HeldWriter ==
  ASSUME IInv, user = "writer"
  PROVE  Live(Here) /\ Here.stream = NoStream /\ Here.result = "ok"
BY HereFields DEF IInv, Live

LEMMA WriteHeaderAdvances ==
  ASSUME IInv, NEW info, WriteHeader(info)
  PROVE  Advances
<1>1. user = "encoder" /\ user # "gone"
  BY DEF WriteHeader
<1>2. Blank(Here) /\ Here.stream = NoStream
  <2>1. Here.out = << >> /\ ~ Here.failed /\ Here.stream = NoStream /\ ~ Here.writer.iend_written
    BY <1>1, HereFields DEF IInv
  <2>2. File!Types(<< >>) = {}
    BY DEF File!Types
  <2> QED BY <2>1, <2>2, HereFields DEF IInv, Blank, Unclosed
<1>3. PICK m \in init(Here, info) :
        IF m.result = "ok" THEN Return({m}, "writer")
        ELSE Return({ [d EXCEPT !.result = "err"] : d \in drop_writer([m EXCEPT !.result = "ok"]) },
                    "gone")
  BY DEF WriteHeader
<1>4. /\ Sound(m) /\ Grown(Here, m) /\ m.stream = NoStream
      /\ m.result \in {"ok", "err"} /\ (m.result = "ok" => Open(m))
  BY <1>2, HeaderInit
<1>5. CASE m.result = "ok"
  <2>1. \A s \in {m} : Returns(s, "writer")
    BY <1>4, <1>5, WriterReturns DEF Live
  <2>2. Return({m}, "writer")
    BY <1>3, <1>5
  <2> QED BY <1>1, <2>1, <2>2, Returning
<1>6. CASE m.result # "ok"
  <2> DEFINE S == { [d EXCEPT !.result = "err"] : d \in drop_writer([m EXCEPT !.result = "ok"]) }
  <2>1. \A s \in S : Returns(s, "gone")
    BY <1>2, HeaderGivenUp, NothingReturns
  <2>2. Return(S, "gone")
    BY <1>3, <1>6
  <2> HIDE DEF S
  <2> QED BY <1>1, <2>1, <2>2, Returning
<1> QED BY <1>5, <1>6

LEMMA WriteImageDataAdvances ==
  ASSUME IInv, NEW size \in CompressedSizes, WriteImageData(size)
  PROVE  Advances
<1> DEFINE S == IF validate_new_image(writer) THEN write_image_data(Here, size) ELSE {Err(Here)}
<1>1. user = "writer" /\ Return(S, "writer")
  BY DEF WriteImageData
<1>2. Live(Here) /\ Here.stream = NoStream /\ Here.result = "ok"
  BY <1>1, HeldWriter
<1>3. ASSUME NEW s \in write_image_data(Here, size) PROVE Returns(s, "writer")
  <2>1. Live(s) /\ Grown(Here, s) /\ Ends(s) /\ s.stream = NoStream
    BY <1>2, <1>3, ImageWritten
  <2> QED BY <2>1, WriterReturns DEF Ends
<1>4. Returns(Err(Here), "writer")
  <2>1. Steps(Here, Err(Here)) /\ Err(Here).result = "err" /\ Twins(Here, Err(Here))
    BY <1>2, ErrSteps
  <2> QED BY <1>2, <2>1, WriterReturns DEF Steps, Twins
<1>5. \A s \in S : Returns(s, "writer")
  BY <1>3, <1>4
<1> HIDE DEF S
<1> QED BY <1>1, <1>5, Returning

LEMMA TextAppended ==
  ASSUME NEW m, Live(m), m.result = "ok", NEW text \in Encoded,
         text.data.ok, NEW s \in WriteChunk(m, TextChunk(text.given, text.data.value))
  PROVE  Live(s) /\ Grown(m, s) /\ s.stream = m.stream /\ Ends(s)
<1> DEFINE c == TextChunk(text.given, text.data.value)
<1>1. /\ c.type = text.given.type /\ c.image = 0 /\ c.seq = NoSeq /\ c.data = << >>
  BY DEF TextChunk
<1>2. c.type \in {"tEXt", "zTXt", "iTXt"}
  <2>1. text.given \in Texts
    BY DEF Encoded
  <2> QED BY <1>1, <2>1, WriterAssumption DEF TextType
<1>3. c \in ChunkType
  BY DEF ChunkType, WrittenTexts
<1> HIDE DEF c
<1>4. File!MayFollow(m.out, c, m.failed)
  <2>1. "IEND" \notin File!Types(m.out) /\ (~ m.failed => m.out # << >>)
    BY DEF Live, Open
  <2>2. ~ m.failed => File!HeaderFirst(m.out, c)
    BY <1>2, <2>1 DEF File!HeaderFirst
  <2>3. File!TakesNextNumber(m.out, c) /\ File!FrameInImage(c) /\ File!ContinuesImage(m.out, c)
    BY <1>1, <1>2 DEF File!TakesNextNumber, File!FrameInImage, File!ContinuesImage, NoSeq
  <2> QED BY <2>1, <2>2, <2>3 DEF File!MayFollow
<1>5. CASE s = Appended(m, c)
  <2>1. Sound(m) /\ c.image <= m.image
    BY <1>1 DEF Live, Sound, State
  <2>2. /\ Sound(s) /\ Grown(m, s) /\ s.result = m.result /\ s.failed = m.failed
        /\ s.writer = m.writer /\ s.stream = m.stream
        /\ File!Types(s.out) = File!Types(m.out) \cup {c.type} /\ s.out # << >>
    BY <1>1, <1>3, <1>4, <1>5, <2>1, AppendedFacts
  <2>3. Open(s)
    BY <1>2, <2>2 DEF Live, Open
  <2> QED BY <2>2, <2>3 DEF Live, Ends
<1>6. CASE s = Fail(m)
  BY <1>6, FailSteps DEF Steps, Ends
<1>7. s = Appended(m, c) \/ s = Fail(m)
  BY DEF WriteChunk, Appended, c
<1> QED BY <1>5, <1>6, <1>7

LEMMA WriteTextChunkAdvances ==
  ASSUME IInv, NEW text \in Encoded, WriteTextChunk(text)
  PROVE  Advances
<1> DEFINE W == WriteChunk(Here, TextChunk(text.given, text.data.value))
           S == IF text.data.ok THEN W ELSE {Err(Here)}
<1>1. user = "writer" /\ Return(S, "writer")
  BY DEF WriteTextChunk
<1>2. Live(Here) /\ Here.stream = NoStream /\ Here.result = "ok"
  BY <1>1, HeldWriter
<1>3. ASSUME text.data.ok, NEW s \in W PROVE Returns(s, "writer")
  <2>1. Live(s) /\ Grown(Here, s) /\ Ends(s) /\ s.stream = NoStream
    BY <1>2, <1>3, TextAppended
  <2> QED BY <2>1, WriterReturns DEF Ends
<1>4. Returns(Err(Here), "writer")
  <2>1. Steps(Here, Err(Here)) /\ Err(Here).result = "err" /\ Twins(Here, Err(Here))
    BY <1>2, ErrSteps
  <2> QED BY <1>2, <2>1, WriterReturns DEF Steps, Twins
<1> HIDE DEF W
<1>5. \A s \in S : Returns(s, "writer")
  BY <1>3, <1>4
<1> HIDE DEF S
<1> QED BY <1>1, <1>5, Returning

LEMMA FinishAdvances ==
  ASSUME IInv, Finish
  PROVE  Advances
<1>1. user = "writer"
  BY DEF Finish
<1>2. Live(Here) /\ Here.result = "ok"
  BY <1>1, HeldWriter
<1>3. PICK m \in finish_writer(Here) :
        Return({ [d EXCEPT !.result = m.result] : d \in drop_writer([m EXCEPT !.result = "ok"]) },
               "gone")
  BY DEF Finish
<1> DEFINE S == { [d EXCEPT !.result = m.result] : d \in drop_writer([m EXCEPT !.result = "ok"]) }
<1>4. \A s \in S : Returns(s, "gone")
  BY <1>2, WriterFinished, NothingReturns
<1>5. Return(S, "gone")
  BY <1>3
<1> HIDE DEF S
<1> QED BY <1>1, <1>4, <1>5, Returning

LEMMA DropAdvances ==
  ASSUME IInv, Drop
  PROVE  Advances
<1> DEFINE S == { [d EXCEPT !.result = "none"] : d \in drop_writer(Here) }
<1>1. user = "writer" /\ Return(S, "gone")
  BY DEF Drop
<1>2. Live(Here) /\ Here.result = "ok"
  BY <1>1, HeldWriter
<1>3. ASSUME NEW d \in drop_writer(Here) PROVE Returns([d EXCEPT !.result = "none"], "gone")
  <2>1. Closes(Here, d)
    BY <1>2, <1>3, LiveUnclosed, WriterDropped
  <2>2. Twins(d, [d EXCEPT !.result = "none"]) /\ [d EXCEPT !.result = "none"].result = "none"
    BY <2>1, ResultTwins DEF Closes, Sound
  <2> QED BY <2>1, <2>2, ClosesTwin, NothingReturns
<1>4. \A s \in S : Returns(s, "gone")
  BY <1>3
<1> HIDE DEF S
<1> QED BY <1>1, <1>4, Returning

LEMMA WriterAdvances ==
  ASSUME IInv, WriterNext
  PROVE  Advances
BY EncoderSetters, WriterSetters, WriteHeaderAdvances, WriteImageDataAdvances,
   WriteTextChunkAdvances, FinishAdvances, DropAdvances DEF WriterNext

------------------------------------------------------------------------------
(* Calls on the stream.                                                         *)

LEMMA HeldStream ==
  ASSUME IInv, Streaming
  PROVE  /\ Emitting(Here) /\ Rows(Here) /\ Here.result = "ok" /\ Here.image # 0
         /\ user \in {"borrowed", "owned"} /\ user # "gone" /\ streams \in Nat
BY HereFields DEF IInv, Streaming

\* A call that leaves the stream where it is, or panics.
LEMMA StreamReturns ==
  ASSUME NEW s, Keeps(Here, s), s.result # "panic" => Rows(s), s.image # 0,
         NEW holder, holder \in {"borrowed", "owned"}
  PROVE  Returns(s, IF s.result = "panic" THEN "gone" ELSE holder)
<1>1. Sound(s) /\ Emitting(s) /\ Grown(Here, s) /\ s.result \in Results
  BY DEF Keeps, Emitting, Live, Sound, State, Results
<1>2. CASE s.result = "panic"
  BY <1>1, <1>2 DEF Keeps, Returns, Allowed, Users
<1>3. CASE s.result # "panic"
  BY <1>1, <1>3 DEF Returns, Allowed, Users
<1> QED BY <1>2, <1>3

\* A call that gives up the stream.
LEMMA OwnerReturns ==
  ASSUME NEW s, NEW owned \in BOOLEAN, Leaves(Here, s, owned), s.result # "panic",
         NEW holder, holder = IF owned THEN "gone" ELSE "writer"
  PROVE  Returns(s, IF s.result = "panic" THEN "gone" ELSE holder)
<1>1. CASE owned
  BY <1>1, NothingReturns DEF Leaves
<1>2. CASE ~ owned
  <2>1. s.result \in Results
    BY <1>2 DEF Leaves, Live, Sound, State, Results
  <2> QED BY <1>2, <2>1 DEF Leaves, Returns, Allowed, Live, Users
<1> QED BY <1>1, <1>2

LEMMA WriteAdvances ==
  ASSUME IInv, NEW len \in DataLens, Write(len)
  PROVE  Advances
<1> DEFINE S == write(Here, len)
<1>1. Streaming /\ ReturnStreaming(S, user) /\ streams' = streams
  BY DEF Write
<1>2. /\ Emitting(Here) /\ Rows(Here) /\ Here.result = "ok" /\ Here.image # 0
      /\ user \in {"borrowed", "owned"} /\ user # "gone" /\ streams \in Nat
  BY <1>1, HeldStream
<1>3. \A s \in S : Returns(s, IF s.result = "panic" THEN "gone" ELSE user)
  <2> TAKE s \in S
  <2>1. Keeps(Here, s) /\ (s.result # "panic" => Rows(s))
    BY <1>2, RowWritten
  <2>2. s.image # 0
    BY <1>2, <2>1 DEF Keeps, Grown
  <2> QED BY <1>2, <2>1, <2>2, StreamReturns
<1> HIDE DEF S
<1> QED BY <1>1, <1>2, <1>3, ReturningStreaming

LEMMA FlushAdvances ==
  ASSUME IInv, Flush
  PROVE  Advances
<1> DEFINE S == flush(Here)
<1>1. Streaming /\ ReturnStreaming(S, user) /\ streams' = streams
  BY DEF Flush
<1>2. /\ Emitting(Here) /\ Rows(Here) /\ Here.result = "ok" /\ Here.image # 0
      /\ user \in {"borrowed", "owned"} /\ user # "gone" /\ streams \in Nat
  BY <1>1, HeldStream
<1>3. \A s \in S : Returns(s, IF s.result = "panic" THEN "gone" ELSE user)
  <2> TAKE s \in S
  <2>1. Keeps(Here, s) /\ Rows(s)
    BY <1>2, RowsFlushed
  <2>2. s.image # 0
    BY <1>2, <2>1 DEF Keeps, Grown
  <2> QED BY <1>2, <2>1, <2>2, StreamReturns
<1> HIDE DEF S
<1> QED BY <1>1, <1>2, <1>3, ReturningStreaming

\* finish and drop: x is how the stream stands when it is let go.
LEMMA UnwindAdvances ==
  ASSUME IInv, Streaming, streams' = streams, NEW X,
         \A x \in X : Emitting(x) /\ Grown(Here, x) /\ x.result # "panic",
         Unwind(X, user = "owned", Owner)
  PROVE  Advances
<1>1. PICK owned \in BOOLEAN : owned = (user = "owned")
  OBVIOUS
<1>2. /\ Emitting(Here) /\ Here.result = "ok" /\ user # "gone" /\ streams \in Nat
  BY HeldStream
<1>3. PICK x \in X :
        ReturnStreaming({ [d EXCEPT !.result = IF @ = "panic" THEN @ ELSE x.result] :
                            d \in drop_stream([x EXCEPT !.result = "ok"], user = "owned") }, Owner)
  BY DEF Unwind
<1> DEFINE S == { [d EXCEPT !.result = IF @ = "panic" THEN @ ELSE x.result] :
                    d \in drop_stream([x EXCEPT !.result = "ok"], owned) }
<1>4. ReturnStreaming(S, Owner)
  BY <1>1, <1>3
<1>5. Owner = IF owned THEN "gone" ELSE "writer"
  BY <1>1 DEF Owner
<1>6. ASSUME NEW d \in drop_stream([x EXCEPT !.result = "ok"], owned)
      PROVE  LET s == [d EXCEPT !.result = IF @ = "panic" THEN @ ELSE x.result] IN
             Returns(s, IF s.result = "panic" THEN "gone" ELSE Owner)
  <2> DEFINE s == [d EXCEPT !.result = IF @ = "panic" THEN @ ELSE x.result]
  <2>1. Leaves(Here, s, owned) /\ s.result = x.result
    BY <1>2, <1>3, <1>6, Unwound
  <2>2. s.result # "panic"
    BY <1>3, <2>1
  <2> HIDE DEF s
  <2>3. Returns(s, IF s.result = "panic" THEN "gone" ELSE Owner)
    BY <1>5, <2>1, <2>2, OwnerReturns
  <2> QED BY <2>3 DEF s
<1>7. \A s \in S : Returns(s, IF s.result = "panic" THEN "gone" ELSE Owner)
  BY <1>6
<1> HIDE DEF S
<1> QED BY <1>2, <1>4, <1>7, ReturningStreaming

LEMMA FinishStreamAdvances ==
  ASSUME IInv, FinishStream
  PROVE  Advances
<1> DEFINE X == finish_mut(Here)
<1>1. Streaming /\ Unwind(X, user = "owned", Owner) /\ streams' = streams
  BY DEF FinishStream
<1>2. Emitting(Here) /\ Here.result = "ok"
  BY <1>1, HeldStream
<1>3. \A x \in X : Emitting(x) /\ Grown(Here, x) /\ x.result # "panic"
  BY <1>2, StreamFinished DEF Keeps
<1> HIDE DEF X
<1> QED BY <1>1, <1>3, UnwindAdvances

LEMMA DropStreamAdvances ==
  ASSUME IInv, DropStream
  PROVE  Advances
<1> DEFINE x == [Here EXCEPT !.result = "none"]
<1>1. Streaming /\ Unwind({x}, user = "owned", Owner) /\ streams' = streams
  BY DEF DropStream
<1>2. Emitting(Here) /\ Here \in State
  BY <1>1, HeldStream DEF Emitting, Live, Sound
<1>3. Twins(Here, x) /\ x.result = "none"
  BY <1>2, ResultTwins
<1> HIDE DEF x
<1>4. Emitting(x) /\ Grown(Here, x)
  BY <1>2, <1>3, TwinFacts DEF Emitting, Live
<1>5. \A s \in {x} : Emitting(s) /\ Grown(Here, s) /\ s.result # "panic"
  BY <1>3, <1>4
<1> QED BY <1>1, <1>5, UnwindAdvances

\* What new leaves if it fails.
LEMMA StreamNotBegun ==
  ASSUME BuffersHoldData, NEW m, Live(m), m.stream = NoStream, m.result = "ok",
         NEW size \in BufLens, NEW x \in new(m, size), NEW d \in drop_chunk_writer({x})
  PROVE  LET left == [d EXCEPT !.stream = NoStream] IN
         /\ Live(left) /\ Grown(m, left) /\ left.result = "ok" /\ left.stream = NoStream
         /\ left.image # 0
<1>1. Emitting(x) /\ Grown(m, x) /\ x.image # 0 /\ x.result # "panic"
  BY StreamBegun DEF Ends
<1>2. /\ Steps(x, d) /\ Emitting(d) /\ d.result = "ok"
      /\ ~ d.failed => d.stream.prefix = NoSeq
  BY <1>1, DropChunkWriter
<1>3. Grown(m, d)
  <2>1. m.out \in Seq(ChunkType) /\ x.out \in Seq(ChunkType) /\ d.out \in Seq(ChunkType)
    BY <1>1, <1>2 DEF Emitting, Live, Sound, State
  <2> QED BY <1>1, <1>2, <2>1, GrownTransitive DEF Steps
<1> DEFINE left == Released(d)
<1>4. /\ Live(left) /\ Grown(d, left) /\ left.result = "ok" /\ left.stream = NoStream
  BY <1>2, StreamReleased DEF Emitting
<1> HIDE DEF left
<1>5. Grown(m, left)
  <2>1. m.out \in Seq(ChunkType) /\ left.out \in Seq(ChunkType) /\ d.out \in Seq(ChunkType)
    BY <1>2, <1>4 DEF Emitting, Live, Sound, State
  <2> QED BY <1>3, <1>4, <2>1, GrownTransitive
<1>6. left.image # 0
  BY <1>1, <1>2, <1>4 DEF Steps, Grown
<1> QED BY <1>4, <1>5, <1>6 DEF left, Released

LEMMA OpenStreamAdvances ==
  ASSUME IInv, NEW size \in BufLens, NEW owned \in BOOLEAN, OpenStream(size, owned)
  PROVE  Advances
<1>1. user = "writer" /\ user # "gone" /\ streams' \in Nat
  BY DEF OpenStream, IInv
<1>2. Live(Here) /\ Here.stream = NoStream /\ Here.result = "ok"
  BY <1>1, HeldWriter
<1>3. PICK x \in new(Here, size) :
        IF x.result # "err" THEN ReturnStreaming({x}, IF owned THEN "owned" ELSE "borrowed")
        ELSE \E d \in drop_chunk_writer({x}) :
               LET left == [d EXCEPT !.stream = NoStream] IN
               ReturnStreaming({ [e EXCEPT !.result = "err"] :
                                   e \in IF owned THEN drop_writer(left) ELSE {left} },
                               IF owned THEN "gone" ELSE "writer")
  BY DEF OpenStream
<1>a. BuffersHoldData /\ Ends(x)
  <2>1. BuffersHoldData
    BY DEF IInv
  <2> QED BY <1>2, <1>3, <2>1, StreamBegun
<1>4. CASE x.result = "ok"
  <2> DEFINE holder == IF owned THEN "owned" ELSE "borrowed"
  <2>1. ReturnStreaming({x}, holder) /\ holder \in {"borrowed", "owned"}
    BY <1>3, <1>4
  <2>2. Emitting(x) /\ Grown(Here, x) /\ Rows(x) /\ x.image # 0
    BY <1>a, <1>2, <1>4, StreamBegun
  <2>3. Keeps(Here, x)
    BY <1>4, <2>2 DEF Keeps
  <2> HIDE DEF holder
  <2>4. \A s \in {x} : Returns(s, IF s.result = "panic" THEN "gone" ELSE holder)
    BY <2>1, <2>2, <2>3, StreamReturns
  <2> QED BY <1>1, <2>1, <2>4, ReturningStreaming
<1>5. CASE x.result # "ok"
  <2>1. PICK d \in drop_chunk_writer({x}) :
          ReturnStreaming({ [e EXCEPT !.result = "err"] :
                              e \in IF owned THEN drop_writer([d EXCEPT !.stream = NoStream])
                                    ELSE {[d EXCEPT !.stream = NoStream]} },
                          IF owned THEN "gone" ELSE "writer")
    BY <1>a, <1>3, <1>5 DEF Ends
  <2> DEFINE left == [d EXCEPT !.stream = NoStream]
             E == IF owned THEN drop_writer(left) ELSE {left}
             S == { [e EXCEPT !.result = "err"] : e \in E }
             holder == IF owned THEN "gone" ELSE "writer"
  <2>2. ReturnStreaming(S, holder)
    BY <2>1
  <2>3. Live(left) /\ Grown(Here, left) /\ left.result = "ok" /\ left.stream = NoStream
    BY <1>a, <1>2, StreamNotBegun
  <2> HIDE DEF left
  <2>4. ASSUME NEW e \in E PROVE Leaves(Here, e, owned)
    <3>1. CASE owned
      <4>1. Closes(left, e)
        BY <2>3, <2>4, <3>1, LiveUnclosed, WriterDropped
      <4> QED BY <1>2, <2>3, <3>1, <4>1, ClosesTransitive DEF Leaves, Live
    <3>2. CASE ~ owned
      BY <2>3, <2>4, <3>2 DEF Leaves
    <3> QED BY <3>1, <3>2
  <2> HIDE DEF E
  <2>5. ASSUME NEW e \in E
        PROVE  LET s == [e EXCEPT !.result = "err"] IN
               Leaves(Here, s, owned) /\ s.result # "panic"
    <3>1. e \in State
      BY <2>4 DEF Leaves, Closes, Live, Sound
    <3> DEFINE s == [e EXCEPT !.result = "err"]
    <3>2. Twins(e, s) /\ s.result = "err"
      BY <3>1, ResultTwins
    <3> HIDE DEF s
    <3>3. Leaves(Here, s, owned) /\ s.result # "panic"
      BY <2>4, <3>2, LeavesTwin
    <3> QED BY <3>3 DEF s
  <2>6. \A s \in S : Leaves(Here, s, owned) /\ s.result # "panic"
    BY <2>5
  <2>7. \A s \in S : Returns(s, IF s.result = "panic" THEN "gone" ELSE holder)
    <3> HIDE DEF S
    <3> QED BY <2>6, OwnerReturns
  <2> HIDE DEF S, holder
  <2> QED BY <1>1, <2>2, <2>7, ReturningStreaming
<1> QED BY <1>4, <1>5

------------------------------------------------------------------------------
(* The theorems.                                                                *)

LEMMA EveryStep ==
  ASSUME IInv, Next
  PROVE  Advances
BY WriterAdvances, OpenStreamAdvances, WriteAdvances, FlushAdvances, FinishStreamAdvances,
   DropStreamAdvances, StreamSetters DEF Next

LEMMA Stuttering ==
  ASSUME IInv, UNCHANGED vars
  PROVE  IInv' /\ UNCHANGED File!vars
<1>1. /\ writer' = writer /\ out' = out /\ failed' = failed /\ result' = result
      /\ user' = user /\ stream' = stream /\ image' = image /\ streams' = streams
  BY DEF vars
<1>2. IInv'
  BY <1>1 DEF IInv, Here, Streaming
<1>3. UNCHANGED File!vars
  BY <1>1 DEF File!vars
<1> QED BY <1>2, <1>3

LEMMA Initially == BuffersHoldData /\ Init => IInv /\ File!Init
<1> SUFFICES ASSUME BuffersHoldData, Init PROVE IInv /\ File!Init
  OBVIOUS
<1>1. /\ out = << >> /\ failed = FALSE /\ result = "ok" /\ user = "encoder" /\ image = 0
      /\ streams = 0 /\ stream = NoStream
      /\ writer = [num_frames |-> 0, sep_def_img |-> FALSE, validate_sequence |-> FALSE,
                   compression |-> "Flate2", frame_control |-> NoFrameControl,
                   images_written |-> 0, animation_written |-> 0, iend_written |-> FALSE]
  BY DEF Init, WriterInit
<1>2. NoFrameControl \in FrameControl /\ ~ is_some(NoFrameControl)
  BY DEF NoFrameControl, FrameControl, is_some
<1>3. /\ writer \in WriterType /\ writer.frame_control = NoFrameControl
      /\ ~ writer.iend_written /\ writer.animation_written = 0
  BY <1>1, <1>2 DEF WriterType
<1>4. /\ NoStream \in StreamType /\ NoStream.fctl = NoFrameControl
      /\ NoStream.prefix = NoSeq /\ NoStream.buffer = << >>
  <2>1. << >> \in Seq(Nat)
    OBVIOUS
  <2> QED BY <1>2, <2>1 DEF NoStream, StreamType
<1> HIDE DEF NoStream
<1>5. Here \in State
  <2>1. << >> \in Seq(ChunkType)
    OBVIOUS
  <2>2. Here = [writer |-> writer, out |-> << >>, failed |-> FALSE, result |-> "ok",
                stream |-> NoStream, image |-> 0]
    BY <1>1 DEF Here
  <2> HIDE DEF ChunkType
  <2> QED BY <1>3, <1>4, <2>1, <2>2 DEF State
<1>6. Sound(Here)
  <2>1. NumbersKept(Here) /\ BufferKept(Here)
    BY <1>1, <1>2, <1>3, <1>4, HereFields DEF NumbersKept, BufferKept
  <2>2. Fits(Here.writer.frame_control) /\ Fits(Here.stream.fctl)
    BY <1>1, <1>2, <1>3, <1>4, HereFields DEF Fits
  <2>3. \A i \in DOMAIN Here.out : Here.out[i].image <= Here.image
    BY <1>1, HereFields
  <2> QED BY <1>5, <2>1, <2>2, <2>3 DEF Sound
<1>7. IInv
  BY <1>1, <1>3, <1>6 DEF IInv, Streaming
<1>8. File!Init
  BY <1>1 DEF File!Init
<1> QED BY <1>7, <1>8

\* The inductive invariant.
THEOREM Invariance == BuffersHoldData /\ Spec => []IInv
<1>1. BuffersHoldData /\ Init => IInv
  BY Initially
<1>2. IInv /\ [Next]_vars => IInv'
  BY EveryStep, Stuttering DEF Advances
<1> QED BY <1>1, <1>2, PTL DEF Spec

\* Whatever the sizes of frames and chunks, for chunk buffers above four bytes, whatever the
\* compressors hand on when, in whatever order a program calls, and wherever the sink fails: each
\* call of Encoder, Writer and StreamWriter extends the file as PngFile says, and none gives it up
\* without its IEND unless the sink has failed.
THEOREM StreamWriterWritesPng == BuffersHoldData /\ Spec => FileIsPng
<1>1. BuffersHoldData /\ Init => File!Init
  BY Initially
<1>2. IInv /\ [Next]_vars => [File!Next]_(File!vars)
  BY EveryStep, Stuttering DEF Advances
<1>3. BuffersHoldData /\ Spec => File!Spec
  BY <1>1, <1>2, Invariance, PTL DEF Spec, File!Spec
<1> QED BY <1>3 DEF FileIsPng

\* As long as the sink takes what it is given and every chunk buffer has more than four bytes, no
\* call panics, for any order of calls: no assertion of ChunkWriter, no unreachable!() of Wrapper
\* and no slice of StreamWriter::write.  Without the condition on the buffers this is false: a
\* sequence number is copied into one of less than four bytes, and the slice panics.
THEOREM NoPanicWithoutFailure == BuffersHoldData /\ Spec => []PanicsOnlyAfterFailure
<1>1. IInv => PanicsOnlyAfterFailure
  BY DEF IInv, PanicsOnlyAfterFailure
<1> QED BY <1>1, Invariance, PTL

\* No byte that a compressor has handed on is lost between the sink and the buffer, if the
\* buffers have more than four bytes.
THEOREM NoByteLost == BuffersHoldData /\ Spec => []BytesKept
<1>1. IInv => BytesKept
  <2> SUFFICES ASSUME IInv, ~ failed, Streaming
               PROVE  File!Reached(image, out) + Len(stream.buffer) = stream.emitted
    BY DEF BytesKept
  <2>1. Tally(Here)
    BY DEF IInv, Emitting
  <2> QED BY <2>1, HereFields DEF Tally
<1> QED BY <1>1, Invariance, PTL
==============================================================================
