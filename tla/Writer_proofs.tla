----------------------------- MODULE Writer_proofs -----------------------------
(* Proofs about Writer: as long as no stream was used and no chunk refused, the *)
(* counters of the Writer agree with the chunks in the file.  So a file that    *)
(* was validated has the frames it announced, and each frame the chunks it asks *)
(* for.  About text chunks, whatever else is written: they are read as they     *)
(* were given.  And about the header, the chunks in front of the first image:   *)
(* the parser takes them.                                                       *)
EXTENDS StreamWriter_proofs, EncodedHeader

------------------------------------------------------------------------------
(* The invariant.                                                               *)

DataTypes == {"IDAT", "fdAT"}

Controls(file) == { i \in DOMAIN file : file[i].type = "fcTL" }

\* The data of a frame is of the type that its image asks for, behind the frame control.
Shaped(file) ==
  \A i \in DOMAIN file, f \in Controls(file) :
    file[i].type \in DataTypes /\ file[i].image = file[f].image =>
      /\ f < i
      /\ IF file[i].image = 1 THEN file[i].type = "IDAT" /\ file[i].seq = NoSeq
         ELSE file[i].type = "fdAT" /\ file[i].seq # NoSeq

\* What a Writer of images and frames counts.
FramesLeft(w) ==
  /\ animated(w) =>
       IF is_some(w.frame_control) THEN w.animation_written < w.num_frames
       ELSE w.animation_written = w.num_frames
  /\ ~ animated(w) =>
       ~ is_some(w.frame_control) /\ ~ w.sep_def_img /\ w.animation_written = 0

\* As long as frames are left, all images but the default image are frames; and if the sequence
\* is validated there is no other image behind them.
ImagesAreFrames(w) ==
  is_some(w.frame_control) \/ (w.validate_sequence /\ animated(w)) =>
    w.images_written = w.animation_written + (IF w.sep_def_img /\ w.images_written > 0 THEN 1 ELSE 0)

OneStill(w) == w.validate_sequence /\ ~ animated(w) => w.images_written <= 1

WriterCounts(w) == FramesLeft(w) /\ ImagesAreFrames(w) /\ OneStill(w)

Counts(m) ==
  /\ WriterCounts(m.writer)
  /\ m.image = m.writer.images_written
  /\ Cardinality(Controls(m.out)) = m.writer.animation_written
  /\ Shaped(m.out)

CountInv ==
  streams = 0 =>
    /\ ~ Streaming
    /\ ~ failed => Counts(Here)
    /\ ~ failed /\ user = "gone" /\ result = "ok" => validate_sequence_done(writer)

------------------------------------------------------------------------------
(* The file.                                                                    *)

LEMMA Joined ==
  ASSUME NEW file \in Seq(ChunkType), NEW more \in Seq(ChunkType)
  PROVE  LET all == file \o more IN
         /\ all \in Seq(ChunkType) /\ DOMAIN file = 1 .. Len(file) /\ DOMAIN all = 1 .. Len(all)
         /\ Len(all) = Len(file) + Len(more) /\ Len(file) \in Nat /\ Len(more) \in Nat
         /\ \A i \in 1 .. Len(file) : all[i] = file[i]
         /\ \A i \in Len(file) + 1 .. Len(all) :
              i - Len(file) \in 1 .. Len(more) /\ all[i] = more[i - Len(file)]
OBVIOUS

\* Chunks that belong to no image change nothing.
LEMMA OthersBehind ==
  ASSUME NEW file \in Seq(ChunkType), NEW more \in Seq(ChunkType),
         \A i \in 1 .. Len(more) : more[i].type \notin {"fcTL"} \cup DataTypes
  PROVE  /\ Controls(file \o more) = Controls(file)
         /\ Shaped(file) => Shaped(file \o more)
<1> DEFINE all == file \o more
           a == Len(file)
           b == Len(all)
<1>1. /\ DOMAIN file = 1 .. a /\ DOMAIN all = 1 .. b /\ a \in Nat /\ b \in Nat /\ a <= b
      /\ \A i \in 1 .. a : all[i] = file[i]
      /\ \A i \in a + 1 .. b : all[i].type \notin {"fcTL"} \cup DataTypes
  BY Joined
<1> HIDE DEF all, a, b
<1>2. \A i \in 1 .. b : all[i].type \in {"fcTL"} \cup DataTypes => i \in 1 .. a
  BY <1>1
<1>3. Controls(all) = Controls(file)
  BY <1>1, <1>2 DEF Controls
<1>4. Shaped(file) => Shaped(all)
  BY <1>1, <1>2, <1>3 DEF Shaped, Controls
<1> QED BY <1>3, <1>4 DEF all

\* The chunks of an image: a frame control if any, and data, of the type a frame needs if it is
\* one.
OfOneImage(chunks, img) ==
  /\ chunks \in Seq(ChunkType)
  /\ \A i \in 1 .. Len(chunks) :
       chunks[i].image = img /\ (i > 1 => chunks[i].type \in DataTypes)
  /\ Len(chunks) > 0 /\ chunks[1].type = "fcTL" =>
       \A i \in 2 .. Len(chunks) :
         IF img = 1 THEN chunks[i].type = "IDAT" /\ chunks[i].seq = NoSeq
         ELSE chunks[i].type = "fdAT" /\ chunks[i].seq # NoSeq

LEMMA ControlsCounted ==
  ASSUME NEW file \in Seq(ChunkType)
  PROVE  IsFiniteSet(Controls(file)) /\ Cardinality(Controls(file)) \in Nat
<1>1. IsFiniteSet(1 .. Len(file)) /\ Controls(file) \in SUBSET (1 .. Len(file))
  BY FS_Interval DEF Controls
<1>2. IsFiniteSet(Controls(file))
  BY <1>1, FS_Subset
<1> QED BY <1>2, FS_CardinalityType

LEMMA ImageBehind ==
  ASSUME NEW file \in Seq(ChunkType), NEW img \in Nat,
         \A i \in DOMAIN file : file[i].image < img,
         NEW chunks, OfOneImage(chunks, img), Shaped(file)
  PROVE  /\ Shaped(file \o chunks)
         /\ Cardinality(Controls(file \o chunks)) =
              Cardinality(Controls(file)) +
                (IF Len(chunks) > 0 /\ chunks[1].type = "fcTL" THEN 1 ELSE 0)
<1> DEFINE all == file \o chunks
           a == Len(file)
           b == Len(all)
           framed == Len(chunks) > 0 /\ chunks[1].type = "fcTL"
<1>1. /\ DOMAIN file = 1 .. a /\ DOMAIN all = 1 .. b /\ a \in Nat /\ b \in Nat /\ a <= b
      /\ \A i \in 1 .. a : all[i] = file[i]
      /\ \A i \in a + 1 .. b : i - a \in 1 .. Len(chunks) /\ all[i] = chunks[i - a]
      /\ b = a + Len(chunks) /\ Len(chunks) \in Nat
  BY Joined DEF OfOneImage
<1> HIDE DEF all, a, b
<1>2. \A i \in 1 .. a : all[i].image < img
  BY <1>1
<1>3. ASSUME NEW i \in a + 1 .. b
      PROVE  all[i].image = img /\ (i > a + 1 => all[i].type \in DataTypes)
  BY <1>1 DEF OfOneImage
<1>4. ASSUME framed
      PROVE  /\ a + 1 \in 1 .. b /\ all[a + 1].type = "fcTL"
             /\ \A i \in a + 2 .. b :
                  IF img = 1 THEN all[i].type = "IDAT" /\ all[i].seq = NoSeq
                  ELSE all[i].type = "fdAT" /\ all[i].seq # NoSeq
  <2>1. a + 1 \in 1 .. b /\ all[a + 1] = chunks[1]
    BY <1>1, <1>4
  <2>2. ASSUME NEW i \in a + 2 .. b
        PROVE  i - a \in 2 .. Len(chunks) /\ all[i] = chunks[i - a]
    BY <1>1
  <2> QED BY <1>4, <2>1, <2>2 DEF OfOneImage
<1>5. Controls(all) = IF framed THEN Controls(file) \cup {a + 1} ELSE Controls(file)
  <2>1. ASSUME NEW i \in 1 .. b PROVE all[i].type = "fcTL" <=> \/ i \in 1 .. a /\ file[i].type = "fcTL"
                                                               \/ i = a + 1 /\ framed
    <3>1. CASE i \in 1 .. a
      BY <1>1, <3>1
    <3>2. CASE i = a + 1
      BY <1>1, <3>2
    <3>3. CASE i > a + 1
      BY <1>1, <1>3, <3>3 DEF DataTypes
    <3> QED BY <1>1, <3>1, <3>2, <3>3
  <2> QED BY <1>1, <1>4, <2>1 DEF Controls
<1> HIDE DEF framed
<1>6. a + 1 \notin Controls(file)
  BY <1>1 DEF Controls
<1>7. Cardinality(Controls(all)) = Cardinality(Controls(file)) + (IF framed THEN 1 ELSE 0)
  <2>1. IsFiniteSet(Controls(file)) /\ Cardinality(Controls(file)) \in Nat
    BY ControlsCounted
  <2>2. Cardinality(Controls(file) \cup {a + 1}) = Cardinality(Controls(file)) + 1
    BY <1>6, <2>1, FS_AddElement
  <2> QED BY <1>5, <2>1, <2>2
<1>8. ASSUME NEW i \in DOMAIN all, NEW f \in Controls(all),
             all[i].type \in DataTypes, all[i].image = all[f].image
      PROVE  /\ f < i
             /\ IF all[i].image = 1 THEN all[i].type = "IDAT" /\ all[i].seq = NoSeq
                ELSE all[i].type = "fdAT" /\ all[i].seq # NoSeq
  <2>1. CASE f \in Controls(file)
    <3>1. f \in 1 .. a /\ all[f] = file[f] /\ all[f].image < img
      BY <1>1, <1>2, <2>1 DEF Controls
    <3>2. i \in 1 .. a /\ all[i] = file[i]
      <4>1. i \notin a + 1 .. b
        BY <1>3, <1>8, <3>1
      <4> QED BY <1>1, <4>1
    <3> QED BY <1>1, <1>8, <2>1, <3>1, <3>2 DEF Shaped
  <2>2. CASE f \notin Controls(file)
    <3>1. framed /\ f = a + 1
      BY <1>5, <2>2
    <3>2. all[f].image = img /\ f \in a + 1 .. b
      BY <1>1, <1>3, <1>4, <3>1
    <3>3. i # f
      BY <1>4, <1>8, <3>1 DEF DataTypes
    <3>4. i \in a + 2 .. b
      BY <1>1, <1>2, <1>8, <3>1, <3>2, <3>3
    <3> QED BY <1>1, <1>4, <1>8, <3>1, <3>2, <3>4
  <2> QED BY <2>1, <2>2
<1>9. Shaped(all)
  BY <1>8 DEF Shaped
<1> QED BY <1>7, <1>9 DEF all, framed

------------------------------------------------------------------------------
(* Images.                                                                      *)

LEMMA ImageChunks ==
  ASSUME NEW m, Live(m), m.stream.prefix = NoSeq, m.image = m.writer.images_written,
         NEW size \in CompressedSizes
  PROVE  LET chunks == image_chunks(m.writer, m.image + 1, size) IN
         /\ OfOneImage(chunks, m.image + 1)
         /\ Len(chunks) > 0 /\ chunks[1].type = "fcTL" <=> TakesFrameControl(m.writer)
<1> DEFINE fc == m.writer.frame_control
           img == m.image + 1
           idat == write_zlib_encoded_idat(img, size)
           fdat == fdAT_chunks(img, size, fc.sequence_number + 1)
           chunks == image_chunks(m.writer, img, size)
<1>1. /\ m \in State /\ fc \in FrameControl /\ fc.sequence_number + 1 \in Nat
      /\ m.image \in Nat /\ (img = 1 <=> m.writer.images_written = 0)
  BY DEF Live, Sound, State, WriterType, FrameControl
<1>2. /\ idat \in Seq(ChunkType)
      /\ \A i \in 1 .. Len(idat) :
           idat[i].image = img /\ idat[i].type = "IDAT" /\ idat[i].seq = NoSeq
  <2>1. Body(m, idat)
    BY <1>1, IdatBody
  <2>2. DOMAIN idat = 1 .. Len(idat) /\ idat \in Seq(ChunkType)
    BY <2>1 DEF Body
  <2>3. \A i \in DOMAIN idat : /\ idat[i].image = img /\ idat[i].type = "IDAT"
                               /\ idat[i].seq = NoSeq
    BY DEF write_zlib_encoded_idat, Chunk
  <2> QED BY <2>2, <2>3
<1>3. /\ fdat \in Seq(ChunkType)
      /\ \A i \in 1 .. Len(fdat) :
           fdat[i].image = img /\ fdat[i].type = "fdAT" /\ fdat[i].seq # NoSeq
  <2>1. /\ Body(m, fdat)
        /\ \A i \in 1 .. Len(fdat) : fdat[i].seq = (fc.sequence_number + 1) + i - 1
    BY <1>1, FdatBody
  <2>2. DOMAIN fdat = 1 .. Len(fdat) /\ fdat \in Seq(ChunkType)
    BY <2>1 DEF Body
  <2>3. \A i \in DOMAIN fdat : fdat[i].image = img /\ fdat[i].type = "fdAT"
    BY DEF fdAT_chunks, Chunk
  <2>4. \A i \in 1 .. Len(fdat) : fdat[i].seq # NoSeq
    BY <1>1, <2>1 DEF NoSeq
  <2> HIDE DEF fdat
  <2> QED BY <2>2, <2>3, <2>4
<1>4. Orderly(m, chunks) /\ chunks \in Seq(ChunkType)
  BY ImageChunksOrderly DEF Orderly
<1> HIDE DEF idat, fdat
<1>5. CASE ~ TakesFrameControl(m.writer)
  <2>1. chunks = idat
    BY <1>5 DEF image_chunks, idat
  <2> HIDE DEF chunks
  <2>2. Len(idat) > 0 => idat[1].type = "IDAT"
    BY <1>2
  <2>3. OfOneImage(idat, img)
    BY <1>2, <2>2 DEF OfOneImage, DataTypes
  <2> QED BY <1>5, <2>1, <2>2, <2>3 DEF chunks
<1>6. CASE TakesFrameControl(m.writer)
  <2> DEFINE c == FrameChunk(img, fc)
             body == IF m.writer.images_written = 0 THEN idat ELSE fdat
  <2>1. chunks = << c >> \o body
    BY <1>6 DEF image_chunks, idat, fdat
  <2>2. c.type = "fcTL" /\ c.image = img
    BY DEF FrameChunk, Chunk
  <2>3. /\ body \in Seq(ChunkType)
        /\ \A i \in 1 .. Len(body) :
             /\ body[i].image = img /\ body[i].type \in DataTypes
             /\ IF img = 1 THEN body[i].type = "IDAT" /\ body[i].seq = NoSeq
                ELSE body[i].type = "fdAT" /\ body[i].seq # NoSeq
    BY <1>1, <1>2, <1>3 DEF DataTypes
  <2> HIDE DEF c, body, img
  <2>4. /\ Len(chunks) = Len(body) + 1 /\ Len(body) \in Nat /\ chunks[1] = c
        /\ \A i \in 2 .. Len(chunks) : i - 1 \in 1 .. Len(body) /\ chunks[i] = body[i - 1]
    <3> HIDE DEF chunks
    <3> QED BY <2>1, <2>3
  <2> HIDE DEF chunks
  <2>5. ASSUME NEW i \in 1 .. Len(chunks)
        PROVE  chunks[i].image = img /\ (i > 1 => chunks[i].type \in DataTypes)
    <3>1. CASE i = 1
      BY <2>2, <2>4, <3>1
    <3>2. CASE i > 1
      BY <2>3, <2>4, <3>2
    <3> QED BY <2>4, <3>1, <3>2
  <2>6. OfOneImage(chunks, img)
    BY <1>4, <2>3, <2>4, <2>5 DEF OfOneImage
  <2> QED BY <1>6, <2>2, <2>4, <2>6 DEF chunks, img
<1> QED BY <1>5, <1>6

\* What else stays when write_image_data counts.
LEMMA CountedRest ==
  ASSUME NEW s, s \in State, NEW number, NEW frames, Countable(s, number, frames)
  PROVE  LET t == Counted(s, number, frames) IN
         /\ t.writer \in WriterType
         /\ t.writer.sep_def_img = s.writer.sep_def_img
         /\ t.writer.validate_sequence = s.writer.validate_sequence
         /\ t.writer.images_written = s.writer.images_written
<1> DEFINE t == Counted(s, number, frames)
           next == [s.writer.frame_control EXCEPT !.sequence_number = number]
           w == [s.writer EXCEPT !.frame_control = next, !.animation_written = frames]
<1>1. s.writer \in WriterType
  BY DEF State
<1>2. t = [s EXCEPT !.writer = w]
  BY <1>1 DEF Counted, State, WriterType
<1>3. /\ w.sep_def_img = s.writer.sep_def_img
      /\ w.validate_sequence = s.writer.validate_sequence
      /\ w.images_written = s.writer.images_written
  <2> HIDE DEF next
  <2> QED BY <1>1 DEF WriterType
<1>4. t \in State
  BY CountedFields
<1> HIDE DEF t, w
<1>5. t.writer = w /\ t.writer \in WriterType
  BY <1>2, <1>4 DEF State
<1> QED BY <1>3, <1>5 DEF t

\* An image more, written by a Writer w.
LEMMA CountsGoOn ==
  ASSUME NEW w \in WriterType, WriterCounts(w), validate_new_image(w), NEW v \in WriterType,
         v.num_frames = w.num_frames, v.sep_def_img = w.sep_def_img,
         v.validate_sequence = w.validate_sequence, v.images_written = w.images_written,
         v.animation_written = w.animation_written + (IF TakesFrameControl(w) THEN 1 ELSE 0),
         is_some(v.frame_control) <=> is_some(w.frame_control)
  PROVE  LET n == increment_images_written(v) IN
         /\ WriterCounts(n) /\ n.images_written = w.images_written + 1
         /\ n.animation_written = v.animation_written
<1> DEFINE n == increment_images_written(v)
<1>1. /\ w.num_frames \in Nat /\ w.sep_def_img \in BOOLEAN /\ w.validate_sequence \in BOOLEAN
      /\ w.images_written \in Nat /\ w.animation_written \in Nat
  BY DEF WriterType
<1>2. /\ n.num_frames = w.num_frames /\ n.sep_def_img = w.sep_def_img
      /\ n.validate_sequence = w.validate_sequence /\ n.images_written = w.images_written + 1
      /\ n.animation_written = v.animation_written
      /\ n.frame_control = IF animated(v) /\ v.num_frames <= v.animation_written
                           THEN NoFrameControl ELSE v.frame_control
  BY DEF increment_images_written, WriterType
<1>3. animated(w) <=> w.num_frames > 0
  BY DEF animated
<1>4. is_some(n.frame_control) <=>
        is_some(w.frame_control) /\ ~ (w.num_frames > 0 /\ w.num_frames <= n.animation_written)
  BY <1>2 DEF animated, is_some, NoFrameControl
<1>5. animated(n) <=> w.num_frames > 0
  BY <1>2 DEF animated
<1>6. TakesFrameControl(w) <=>
        is_some(w.frame_control) /\ ~ (w.sep_def_img /\ w.images_written = 0)
  BY DEF TakesFrameControl, should_skip_frame_control_on_default_image
<1>7. n.animation_written = w.animation_written + (IF TakesFrameControl(w) THEN 1 ELSE 0)
  BY <1>2
<1> HIDE DEF n
<1>8. FramesLeft(n)
  BY <1>1, <1>2, <1>3, <1>4, <1>5, <1>6, <1>7 DEF FramesLeft, WriterCounts
<1>9. ImagesAreFrames(n)
  <2> SUFFICES ASSUME is_some(n.frame_control) \/ (n.validate_sequence /\ animated(n))
               PROVE  n.images_written =
                        n.animation_written + (IF n.sep_def_img /\ n.images_written > 0 THEN 1 ELSE 0)
    BY DEF ImagesAreFrames
  <2>1. is_some(w.frame_control)
    BY <1>2, <1>3, <1>4, <1>5 DEF validate_new_image
  <2>2. w.images_written =
          w.animation_written + (IF w.sep_def_img /\ w.images_written > 0 THEN 1 ELSE 0)
    BY <2>1 DEF ImagesAreFrames, WriterCounts
  <2> QED BY <1>1, <1>2, <1>6, <1>7, <2>1, <2>2
<1>10. OneStill(n)
  BY <1>1, <1>2, <1>3, <1>5 DEF OneStill, WriterCounts, validate_new_image
<1> QED BY <1>2, <1>8, <1>9, <1>10 DEF WriterCounts, n

LEMMA ImageCounts ==
  ASSUME NEW m, Live(m), m.stream = NoStream, m.result = "ok", ~ m.failed, Counts(m),
         validate_new_image(m.writer), NEW size \in CompressedSizes,
         NEW s \in write_image_data(m, size), ~ s.failed
  PROVE  Counts(s)
<1> DEFINE chunks == image_chunks(m.writer, m.image + 1, size)
           begun == [m EXCEPT !.image = @ + 1]
           New(x) == SubSeq(x.out, Len(m.out) + 1, Len(x.out))
           frames(x) == IF TakesFrameControl(m.writer) /\ New(x) # << >> THEN 1 ELSE 0
           count(x) == Counted(x, x.writer.frame_control.sequence_number + Sequenced(New(x)),
                               x.writer.animation_written + frames(x))
<1>1. /\ OfOneImage(chunks, m.image + 1)
      /\ Len(chunks) > 0 /\ chunks[1].type = "fcTL" <=> TakesFrameControl(m.writer)
  <2>1. m.stream.prefix = NoSeq /\ m.image = m.writer.images_written
    BY DEF NoStream, Counts
  <2> QED BY <2>1, ImageChunks
<1>2. PICK x \in WriteChunks(begun, chunks) :
        s \in IF count(x).result = "ok"
              THEN { [count(x) EXCEPT !.writer = increment_images_written(@)] }
              ELSE { count(x) }
  BY DEF write_image_data, Then, Counted
<1> HIDE DEF chunks
<1>3. PICK n \in 0 .. Len(chunks) :
        x = IF n = Len(chunks) THEN [begun EXCEPT !.out = @ \o SubSeq(chunks, 1, n)]
            ELSE Fail([begun EXCEPT !.out = @ \o SubSeq(chunks, 1, n)])
  BY DEF WriteChunks
<1> DEFINE a == At(m, chunks, n)
           taken == First(chunks, n)
           number == x.writer.frame_control.sequence_number + Sequenced(New(x))
           f == x.writer.animation_written + frames(x)
           y == count(x)
<1>4. [begun EXCEPT !.out = @ \o SubSeq(chunks, 1, n)] = a
  BY DEF At, First, Live, Sound, State
<1>5. m \in State /\ m.out \in Seq(ChunkType) /\ chunks \in Seq(ChunkType)
  BY <1>1 DEF Live, Sound, State, OfOneImage
<1>6. /\ a \in State /\ a.out = m.out \o taken /\ a.image = m.image + 1 /\ a.writer = m.writer
      /\ a.result = "ok"
  BY <1>5, AtFields
<1> HIDE DEF begun, a
<1>7. /\ x = IF n = Len(chunks) THEN a ELSE Fail(a)
  BY <1>3, <1>4
<1>8. x \in State /\ x.out = a.out /\ x.writer = m.writer /\ x.image = m.image + 1
      /\ (n # Len(chunks) => x.failed) /\ (n = Len(chunks) => x.result = "ok")
  BY <1>6, <1>7 DEF Fail, State
<1>9. New(x) = taken /\ taken \in Seq(ChunkType) /\ (n = Len(chunks) => taken = chunks)
  <2>1. New(x) = SubSeq(m.out \o taken, Len(m.out) + 1, Len(m.out \o taken))
    BY <1>6, <1>8
  <2> QED BY <1>5, <2>1, FirstFacts
<1>10. number \in Nat /\ f \in Nat
  <2>1. Plain("IEND") \in ChunkType
    BY PlainFacts DEF PlainTypes, ChunkTypes
  <2>2. x.writer.frame_control.sequence_number \in Nat /\ x.writer.animation_written \in Nat
    BY <1>8 DEF State, WriterType, FrameControl
  <2>3. frames(x) \in {0, 1}
    OBVIOUS
  <2>4. Sequenced(New(x)) \in Nat
    <3> HIDE DEF New, taken
    <3> QED BY <1>9, <2>1, SequencedIs, NumberedAppend
  <2> HIDE DEF frames, New
  <2> QED BY <2>2, <2>3, <2>4
<1>11. y = Counted(x, number, f) /\ Countable(x, number, f)
  BY <1>8, <1>10 DEF Countable
<1>12. s \in IF y.result = "ok" THEN { [y EXCEPT !.writer = increment_images_written(@)] } ELSE {y}
  BY <1>2
<1>13. f = m.writer.animation_written + (IF TakesFrameControl(m.writer) /\ taken # << >> THEN 1 ELSE 0)
  BY <1>8, <1>9
<1> HIDE DEF number, f, count, frames, New, taken, y
<1>14. /\ y \in State /\ y.writer \in WriterType /\ y.out = x.out /\ y.failed = x.failed
       /\ y.result = x.result /\ y.image = x.image
       /\ y.writer.num_frames = m.writer.num_frames
       /\ y.writer.animation_written = f
       /\ y.writer.frame_control.width = m.writer.frame_control.width
       /\ y.writer.sep_def_img = m.writer.sep_def_img
       /\ y.writer.validate_sequence = m.writer.validate_sequence
       /\ y.writer.images_written = m.writer.images_written
  BY <1>8, <1>11, CountedFields, CountedRest
<1>15. s.failed = y.failed
  BY <1>12, <1>14 DEF State
<1>16. n = Len(chunks) /\ taken = chunks /\ y.result = "ok"
  BY <1>8, <1>9, <1>14, <1>15
<1>17. s = [y EXCEPT !.writer = increment_images_written(@)]
  BY <1>12, <1>16
<1>18. s.writer = increment_images_written(y.writer) /\ s.out = m.out \o chunks /\ s.image = m.image + 1
  BY <1>6, <1>8, <1>14, <1>16, <1>17 DEF State
<1>19. f = m.writer.animation_written + (IF TakesFrameControl(m.writer) THEN 1 ELSE 0)
  BY <1>1, <1>5, <1>13, <1>16
<1>20. /\ WriterCounts(s.writer) /\ s.writer.images_written = m.writer.images_written + 1
       /\ s.writer.animation_written = f
  <2>1. m.writer \in WriterType /\ WriterCounts(m.writer)
    BY <1>5 DEF State, Counts
  <2>2. is_some(y.writer.frame_control) <=> is_some(m.writer.frame_control)
    BY <1>14 DEF is_some
  <2> QED BY <1>14, <1>18, <1>19, <2>1, <2>2, CountsGoOn
<1>21. /\ Shaped(s.out)
       /\ Cardinality(Controls(s.out)) =
            Cardinality(Controls(m.out)) + (IF TakesFrameControl(m.writer) THEN 1 ELSE 0)
  <2>1. m.image \in Nat /\ m.image + 1 \in Nat
    BY <1>5 DEF State
  <2>2. \A i \in DOMAIN m.out : m.out[i].image < m.image + 1
    <3>1. \A i \in DOMAIN m.out : m.out[i].image <= m.image /\ m.out[i].image \in Nat
      BY <1>5, ChunkFields DEF Live, Sound
    <3> QED BY <2>1, <3>1
  <2> QED BY <1>1, <1>5, <1>18, <2>1, <2>2, ImageBehind DEF Counts
<1> QED BY <1>18, <1>19, <1>20, <1>21 DEF Counts

------------------------------------------------------------------------------
(* Steps.                                                                       *)

\* The conditions under which a call may end in s and keep the count.
Counting(s, holder, told) ==
  /\ holder \notin {"borrowed", "owned"}
  /\ ~ s.failed => Counts(s)
  /\ ~ s.failed /\ holder = "gone" /\ told = "ok" => validate_sequence_done(s.writer)

LEMMA CountsNext ==
  ASSUME NEW s, Become(s), Counting(s, user', result')
  PROVE  CountInv'
<1>1. /\ Here'.writer = s.writer /\ Here'.out = s.out /\ Here'.image = s.image
      /\ writer' = s.writer /\ failed' = s.failed
  BY DEF Here, Become
<1>2. Counts(s) => Counts(Here)'
  BY <1>1 DEF Counts
<1> QED BY <1>1, <1>2 DEF CountInv, Counting, Streaming

LEMMA CountsReturn ==
  ASSUME NEW S, NEW holder, Return(S, holder), \A s \in S : Counting(s, holder, s.result)
  PROVE  CountInv'
<1>1. PICK s \in S : Become(s) /\ result' = s.result
  BY DEF Return
<1>2. user' = holder
  BY DEF Return
<1> QED BY <1>1, <1>2, CountsNext

LEMMA CountsSet ==
  ASSUME CountInv, streams = 0, NEW holder, holder \in {"encoder", "writer"}, NEW w,
         Set(holder, w),
         ~ failed => /\ WriterCounts(w) /\ w.images_written = writer.images_written
                     /\ w.animation_written = writer.animation_written
  PROVE  CountInv'
<1> DEFINE s == [writer |-> w, out |-> out, failed |-> failed, stream |-> stream, image |-> image]
<1>1. Become(s) /\ user' = holder
  BY DEF Set, Become
<1>2. ~ failed => Counts(s)
  BY HereFields DEF CountInv, Counts
<1>3. Counting(s, user', result')
  BY <1>1, <1>2 DEF Counting
<1> HIDE DEF s
<1> QED BY <1>1, <1>3, CountsNext

LEMMA EncoderCounts ==
  ASSUME IInv, CountInv, streams = 0,
         \/ \E num_frames \in NumFrames : SetAnimated(num_frames)
         \/ \E sep_def_img \in BOOLEAN : SetSepDefImg(sep_def_img)
         \/ \E validate \in BOOLEAN : ValidateSequence(validate)
         \/ \E compression \in {"Flate2", "FDeflate"} : SetDeflateCompression(compression)
  PROVE  CountInv'
<1>1. user = "encoder"
  BY DEF SetAnimated, SetSepDefImg, ValidateSequence, SetDeflateCompression, Set
<1>2. /\ writer \in WriterType /\ ~ failed /\ image = 0 /\ writer.animation_written = 0
      /\ WriterCounts(writer) /\ writer.images_written = 0
  BY <1>1, WriterTyped, HereFields DEF IInv, CountInv, Counts
<1>3. ASSUME NEW num_frames \in NumFrames, SetAnimated(num_frames) PROVE CountInv'
  <2> DEFINE w == [writer EXCEPT !.num_frames = num_frames, !.frame_control = WholeImage]
  <2>1. /\ w.num_frames = num_frames /\ w.frame_control = WholeImage
        /\ w.animation_written = 0 /\ w.images_written = 0
    BY <1>2 DEF WriterType
  <2>2. num_frames > 0 /\ Set("encoder", w)
    BY <1>3 DEF SetAnimated
  <2>3. is_some(WholeImage)
    BY WriterAssumption DEF is_some, WholeImage
  <2> HIDE DEF w
  <2>4. WriterCounts(w)
    BY <2>1, <2>2, <2>3, WriterAssumption
       DEF WriterCounts, FramesLeft, ImagesAreFrames, OneStill, animated
  <2> QED BY <1>2, <2>1, <2>2, <2>4, CountsSet
<1>4. ASSUME NEW sep_def_img \in BOOLEAN, SetSepDefImg(sep_def_img) PROVE CountInv'
  <2> DEFINE w == [writer EXCEPT !.sep_def_img = sep_def_img]
  <2>1. /\ w.num_frames = writer.num_frames /\ w.frame_control = writer.frame_control
        /\ w.animation_written = 0 /\ w.images_written = 0
    BY <1>2 DEF WriterType
  <2>2. animated(writer) /\ Set("encoder", w)
    BY <1>4 DEF SetSepDefImg
  <2> HIDE DEF w
  <2>3. WriterCounts(w)
    BY <1>2, <2>1, <2>2 DEF WriterCounts, FramesLeft, ImagesAreFrames, OneStill, animated
  <2> QED BY <1>2, <2>1, <2>2, <2>3, CountsSet
<1>5. ASSUME NEW validate \in BOOLEAN, ValidateSequence(validate) PROVE CountInv'
  <2> DEFINE w == [writer EXCEPT !.validate_sequence = validate]
  <2>1. /\ w.num_frames = writer.num_frames /\ w.frame_control = writer.frame_control
        /\ w.sep_def_img = writer.sep_def_img
        /\ w.animation_written = 0 /\ w.images_written = 0
    BY <1>2 DEF WriterType
  <2>2. Set("encoder", w)
    BY <1>5 DEF ValidateSequence
  <2> HIDE DEF w
  <2>3. WriterCounts(w)
    BY <1>2, <2>1 DEF WriterCounts, FramesLeft, ImagesAreFrames, OneStill, animated
  <2> QED BY <1>2, <2>1, <2>2, <2>3, CountsSet
<1>6. ASSUME NEW compression \in {"Flate2", "FDeflate"}, SetDeflateCompression(compression)
      PROVE  CountInv'
  <2> DEFINE w == [writer EXCEPT !.compression = compression]
  <2>1. /\ w.num_frames = writer.num_frames /\ w.frame_control = writer.frame_control
        /\ w.sep_def_img = writer.sep_def_img /\ w.validate_sequence = writer.validate_sequence
        /\ w.animation_written = 0 /\ w.images_written = 0
    BY <1>2 DEF WriterType
  <2>2. Set("encoder", w)
    BY <1>6 DEF SetDeflateCompression
  <2> HIDE DEF w
  <2>3. WriterCounts(w)
    BY <1>2, <2>1 DEF WriterCounts, FramesLeft, ImagesAreFrames, OneStill, animated
  <2> QED BY <1>2, <2>1, <2>2, <2>3, CountsSet
<1> QED BY <1>3, <1>4, <1>5, <1>6

\* The setters of the next frame: it stays.
LEMMA FrameCounts ==
  ASSUME IInv, CountInv, streams = 0,
         \/ \E width \in 1 .. Width : SetFrameDimension(width)
         \/ \E x \in 0 .. Width : SetFramePosition(x)
         \/ ResetFrameDimension
         \/ ResetFramePosition
  PROVE  CountInv'
<1> DEFINE fc == writer.frame_control
<1>1. writer \in WriterType /\ fc \in FrameControl /\ Fits(fc)
  BY WriterTyped
<1>2. is_some(fc)
  BY DEF SetFrameDimension, SetFramePosition, ResetFrameDimension, ResetFramePosition
<1>3. ~ failed => WriterCounts(writer)
  BY HereFields DEF CountInv, Counts
<1>4. ASSUME NEW g, g \in FrameControl, is_some(g),
             Set("writer", [writer EXCEPT !.frame_control = g])
      PROVE  CountInv'
  <2> DEFINE w == [writer EXCEPT !.frame_control = g]
  <2>1. /\ w.num_frames = writer.num_frames /\ w.frame_control = g
        /\ w.sep_def_img = writer.sep_def_img /\ w.validate_sequence = writer.validate_sequence
        /\ w.animation_written = writer.animation_written
        /\ w.images_written = writer.images_written
    BY <1>1 DEF WriterType
  <2>2. Set("writer", w)
    BY <1>4
  <2> HIDE DEF w
  <2>3. ~ failed => WriterCounts(w)
    BY <1>2, <1>3, <1>4, <2>1 DEF WriterCounts, FramesLeft, ImagesAreFrames, OneStill, animated
  <2> QED BY <2>1, <2>2, <2>3, CountsSet
<1>5. ASSUME NEW width \in 1 .. Width, SetFrameDimension(width) PROVE CountInv'
  <2> DEFINE g == [fc EXCEPT !.width = width]
  <2>1. g \in FrameControl /\ is_some(g)
    BY <1>1, WriterAssumption DEF FrameControl, is_some
  <2>2. [writer EXCEPT !.frame_control.width = width] = [writer EXCEPT !.frame_control = g]
    BY <1>1 DEF WriterType
  <2>3. Set("writer", [writer EXCEPT !.frame_control = g])
    BY <1>5, <2>2 DEF SetFrameDimension
  <2> HIDE DEF g
  <2> QED BY <1>4, <2>1, <2>3
<1>6. ASSUME NEW x \in 0 .. Width, SetFramePosition(x) PROVE CountInv'
  <2> DEFINE g == [fc EXCEPT !.x_offset = x]
  <2>1. g \in FrameControl /\ is_some(g)
    BY <1>1, <1>2, WriterAssumption DEF FrameControl, is_some
  <2>2. [writer EXCEPT !.frame_control.x_offset = x] = [writer EXCEPT !.frame_control = g]
    BY <1>1 DEF WriterType
  <2>3. Set("writer", [writer EXCEPT !.frame_control = g])
    BY <1>6, <2>2 DEF SetFramePosition
  <2> HIDE DEF g
  <2> QED BY <1>4, <2>1, <2>3
<1>7. ASSUME ResetFrameDimension PROVE CountInv'
  <2> DEFINE g == [fc EXCEPT !.width = Width - fc.x_offset]
  <2>1. Width - fc.x_offset \in Nat \ {0}
    BY <1>1, <1>2, WriterAssumption DEF FrameControl, is_some, Fits
  <2>2. g \in FrameControl /\ is_some(g)
    BY <1>1, <2>1 DEF FrameControl, is_some
  <2>3. [writer EXCEPT !.frame_control = reset_frame_dimension(@)]
          = [writer EXCEPT !.frame_control = g]
    BY <1>1 DEF WriterType, reset_frame_dimension
  <2>4. Set("writer", [writer EXCEPT !.frame_control = g])
    BY <1>7, <2>3 DEF ResetFrameDimension
  <2> HIDE DEF g
  <2> QED BY <1>4, <2>2, <2>4
<1>8. ASSUME ResetFramePosition PROVE CountInv'
  <2> DEFINE g == [fc EXCEPT !.x_offset = 0]
  <2>1. g \in FrameControl /\ is_some(g)
    BY <1>1, <1>2 DEF FrameControl, is_some
  <2>2. [writer EXCEPT !.frame_control.x_offset = 0] = [writer EXCEPT !.frame_control = g]
    BY <1>1 DEF WriterType
  <2>3. Set("writer", [writer EXCEPT !.frame_control = g])
    BY <1>8, <2>2 DEF ResetFramePosition
  <2> HIDE DEF g
  <2> QED BY <1>4, <2>1, <2>3
<1> QED BY <1>5, <1>6, <1>7, <1>8

------------------------------------------------------------------------------
(* What belongs to no image: the header, texts, and the end of the file.        *)

SameCounters(w, v) ==
  /\ v.num_frames = w.num_frames /\ v.sep_def_img = w.sep_def_img
  /\ v.validate_sequence = w.validate_sequence /\ v.images_written = w.images_written
  /\ v.animation_written = w.animation_written /\ v.frame_control = w.frame_control

\* Between m and s no image was written, unless the sink has failed.
NoImage(m, s) ==
  ~ s.failed =>
    /\ ~ m.failed /\ s.image = m.image /\ SameCounters(m.writer, s.writer)
    /\ Controls(s.out) = Controls(m.out) /\ (Shaped(m.out) => Shaped(s.out))

LEMMA NoImageTransitive ==
  ASSUME NEW m, NEW s, NEW t, NoImage(m, s), NoImage(s, t)
  PROVE  NoImage(m, t)
BY DEF NoImage, SameCounters

LEMMA NoImageCounts ==
  ASSUME NEW m, NEW s, NoImage(m, s), ~ m.failed => Counts(m), ~ s.failed
  PROVE  /\ Counts(s)
         /\ validate_sequence_done(s.writer) <=> validate_sequence_done(m.writer)
BY DEF NoImage, SameCounters, Counts, WriterCounts, FramesLeft, ImagesAreFrames, OneStill,
       animated, validate_sequence_done

\* The result of a call is no part of the file.
LEMMA NoImageTwin ==
  ASSUME NEW m, m \in State, NEW r
  PROVE  NoImage(m, [m EXCEPT !.result = r]) /\ [m EXCEPT !.result = r].result = r
<1>1. /\ [m EXCEPT !.result = r].result = r /\ [m EXCEPT !.result = r].failed = m.failed
      /\ [m EXCEPT !.result = r].writer = m.writer /\ [m EXCEPT !.result = r].out = m.out
      /\ [m EXCEPT !.result = r].image = m.image
  BY DEF State
<1> QED BY <1>1 DEF NoImage, SameCounters

LEMMA NoImageError ==
  ASSUME NEW m, m \in State
  PROVE  /\ NoImage(m, m)
         /\ NoImage(m, Err(m)) /\ Err(m).result = "err"
         /\ NoImage(m, Fail(m)) /\ Fail(m).result = "err"
         /\ Fail(m) \in State /\ Fail(m).writer = m.writer
<1>1. /\ Fail(m).failed /\ Fail(m).result = "err" /\ Fail(m) \in State
      /\ Fail(m).writer = m.writer
  BY DEF Fail, State
<1>2. NoImage(m, m) /\ NoImage(m, Fail(m))
  BY <1>1 DEF NoImage, SameCounters
<1>3. NoImage(m, Err(m)) /\ Err(m).result = "err"
  BY NoImageTwin DEF Err
<1> QED BY <1>1, <1>2, <1>3

\* Chunks that belong to no image.
LEMMA NoImageBehind ==
  ASSUME NEW m, m \in State, NEW more \in Seq(ChunkType),
         \A i \in 1 .. Len(more) : more[i].type \notin {"fcTL"} \cup DataTypes,
         NEW s, s.out = m.out \o more, s.failed = m.failed, s.image = m.image,
         SameCounters(m.writer, s.writer)
  PROVE  NoImage(m, s)
<1>1. m.out \in Seq(ChunkType)
  BY DEF State
<1> QED BY <1>1, OthersBehind DEF NoImage

LEMMA NoImageChunk ==
  ASSUME NEW m, m \in State, NEW c \in ChunkType, c.type \notin {"fcTL"} \cup DataTypes,
         NEW s \in WriteChunk(m, c)
  PROVE  NoImage(m, s)
<1>1. CASE s = Fail(m)
  BY <1>1, NoImageError
<1>2. CASE s = Appended(m, c)
  <2>1. /\ m.out \in Seq(ChunkType) /\ s.out = Append(m.out, c) /\ s.failed = m.failed
        /\ s.image = m.image /\ s.writer = m.writer
    BY <1>2 DEF State, Appended
  <2>2. s.out = m.out \o << c >> /\ << c >> \in Seq(ChunkType)
    BY <2>1
  <2>3. \A i \in 1 .. Len(<< c >>) : << c >>[i].type \notin {"fcTL"} \cup DataTypes
    OBVIOUS
  <2> QED BY <2>1, <2>2, <2>3, NoImageBehind DEF SameCounters
<1> QED BY <1>1, <1>2 DEF WriteChunk, Appended

LEMMA NoImageIend ==
  ASSUME NEW m, m \in State, NEW s \in write_iend(m)
  PROVE  NoImage(m, s)
<1> DEFINE e == [m EXCEPT !.writer.iend_written = TRUE]
<1>1. /\ e \in State /\ e.out = m.out /\ e.failed = m.failed /\ e.image = m.image
      /\ SameCounters(m.writer, e.writer)
  <2> DEFINE w == [m.writer EXCEPT !.iend_written = TRUE]
  <2>1. w \in WriterType /\ SameCounters(m.writer, w)
    BY DEF State, WriterType, SameCounters
  <2>2. e = [m EXCEPT !.writer = w]
    BY DEF State, WriterType
  <2> HIDE DEF w, e
  <2> QED BY <2>1, <2>2 DEF State
<1>2. s \in WriteChunk(e, Plain("IEND"))
  BY DEF write_iend
<1> HIDE DEF e
<1>3. NoImage(m, e)
  BY <1>1 DEF NoImage
<1>4. NoImage(e, s)
  <2>1. Plain("IEND") \in ChunkType /\ Plain("IEND").type = "IEND"
    BY PlainFacts DEF PlainTypes, ChunkTypes
  <2> QED BY <1>1, <1>2, <2>1, NoImageChunk DEF DataTypes
<1> QED BY <1>3, <1>4, NoImageTransitive

LEMMA NoImageDropped ==
  ASSUME NEW m, Sound(m), Unclosed(m), m.result = "ok", NEW s \in drop_writer(m)
  PROVE  NoImage(m, s)
<1>1. PICK x \in write_iend(m) : s = [x EXCEPT !.result = "ok"]
  BY IendWritten DEF drop_writer, Ignore, Unclosed
<1>2. x \in State /\ m \in State
  BY <1>1, IendWritten DEF Closes, Sound
<1>3. NoImage(m, x) /\ NoImage(x, s)
  BY <1>1, <1>2, NoImageIend, NoImageTwin
<1> QED BY <1>3, NoImageTransitive

LEMMA NoImageHeader ==
  ASSUME NEW m, Blank(m), NEW info, NEW s \in init(m, info)
  PROVE  NoImage(m, s)
<1> DEFINE chunks == encode_header(info, animated(m.writer))
<1>1. m \in State /\ m.out \in Seq(ChunkType) /\ m.result = "ok"
  BY DEF Blank, Sound, State
<1>2. CASE "invalid" \in info
  BY <1>1, <1>2, NoImageError DEF init
<1>3. CASE "invalid" \notin info
  <2>1. PICK x \in WriteChunks(m, chunks) :
          s \in IF x.result = "ok" THEN (IF "unencodable" \in info THEN {Err(x)} ELSE {x})
                ELSE {x}
    BY <1>3 DEF init, Then
  <2>2. /\ chunks \in Seq(ChunkType)
        /\ \A i \in 1 .. Len(chunks) : chunks[i].type \notin {"fcTL"} \cup DataTypes
    <3>1. Heading(chunks)
      BY HeaderHeads
    <3> HIDE DEF chunks
    <3>2. Plain("IHDR").type = "IHDR"
      BY PlainFacts DEF PlainTypes, ChunkTypes
    <3>3. \A c \in OtherPlains : c.type \notin {"fcTL"} \cup DataTypes
      BY PlainFacts DEF OtherPlains, PlainTypes, DataTypes
    <3>4. ASSUME NEW i \in 1 .. Len(chunks) PROVE chunks[i].type \notin {"fcTL"} \cup DataTypes
      <4>1. CASE i = 1
        BY <3>1, <3>2, <4>1 DEF Heading, DataTypes
      <4>2. CASE i > 1
        BY <3>1, <3>3, <4>2 DEF Heading
      <4> QED BY <4>1, <4>2
    <3> QED BY <3>1, <3>4 DEF Heading
  <2> HIDE DEF chunks
  <2>3. PICK n \in 0 .. Len(chunks) :
          x = IF n = Len(chunks) THEN Behind(m, chunks, n) ELSE Fail(Behind(m, chunks, n))
    BY <2>1 DEF WriteChunks, Behind, First
  <2> DEFINE b == Behind(m, chunks, n)
             more == First(chunks, n)
  <2>4. /\ m.out \o more \in Seq(ChunkType) /\ more \in Seq(ChunkType) /\ Len(more) = n
        /\ \A i \in 1 .. n : more[i] = chunks[i]
    BY <1>1, <2>2, FirstFacts DEF First
  <2>5. b = [m EXCEPT !.out = m.out \o more]
    BY DEF Behind
  <2> HIDE DEF b, more
  <2>6. /\ b \in State /\ b.out = m.out \o more /\ b.failed = m.failed /\ b.image = m.image
        /\ b.writer = m.writer /\ b.result = "ok"
    BY <1>1, <2>4, <2>5 DEF State
  <2>7. NoImage(m, b)
    <3>1. \A i \in 1 .. Len(more) : more[i].type \notin {"fcTL"} \cup DataTypes
      BY <2>2, <2>4
    <3>2. SameCounters(m.writer, b.writer)
      BY <2>6 DEF SameCounters
    <3> QED BY <1>1, <2>4, <2>6, <3>1, <3>2, NoImageBehind
  <2>8. x = b \/ x = Fail(b)
    BY <2>3 DEF b
  <2>9. s = b \/ s = Fail(b) \/ s = Err(b)
    BY <2>1, <2>6, <2>8, NoImageError
  <2>10. NoImage(b, s)
    BY <2>6, <2>9, NoImageError
  <2> QED BY <2>7, <2>10, NoImageTransitive
<1> QED BY <1>2, <1>3

\* finish tells that it went well only if nothing is missing.
LEMMA NoImageFinish ==
  ASSUME NEW m, Live(m), m.result = "ok", NEW x \in finish_writer(m),
         NEW d \in drop_writer([x EXCEPT !.result = "ok"])
  PROVE  LET s == [d EXCEPT !.result = x.result] IN
         NoImage(m, s) /\ (s.result = "ok" => validate_sequence_done(m.writer))
<1> DEFINE o == [x EXCEPT !.result = "ok"]
           s == [d EXCEPT !.result = x.result]
<1>1. m \in State /\ Sound(m) /\ Unclosed(m)
  BY LiveUnclosed DEF Live, Sound
<1>2. CASE ~ validate_sequence_done(m.writer)
  <2>1. x = Err(m)
    BY <1>2 DEF finish_writer
  <2>2. Twins(m, x) /\ x.result = "err"
    BY <2>1, ErrSteps
  <2>3. Twins(x, o) /\ o.result = "ok"
    BY <2>2, ResultTwins DEF Twins
  <2>4. Sound(o) /\ Unclosed(o) /\ o \in State
    <3>1. Twins(m, o)
      BY <2>2, <2>3 DEF Twins
    <3> QED BY <1>1, <3>1, TwinFacts DEF Unclosed, Twins
  <2>5. NoImage(m, x) /\ NoImage(x, o)
    BY <1>1, <2>1, <2>2, NoImageError, NoImageTwin DEF Twins
  <2> HIDE DEF o
  <2>6. NoImage(o, d) /\ d \in State
    BY <2>3, <2>4, NoImageDropped, WriterDropped DEF Closes, Sound, o
  <2>7. NoImage(d, s) /\ s.result = "err"
    BY <2>2, <2>6, NoImageTwin
  <2> HIDE DEF s
  <2>8. NoImage(m, s)
    BY <2>5, <2>6, <2>7, NoImageTransitive
  <2> QED BY <2>7, <2>8 DEF s
<1>3. CASE validate_sequence_done(m.writer)
  <2>1. PICK i \in write_iend(m) : x \in IF i.result = "ok" THEN {i, Fail(i)} ELSE {i}
    BY <1>3 DEF finish_writer, Then
  <2>2. i \in State /\ i.writer.iend_written
    BY <1>1, <2>1, IendWritten DEF Closes, Sound
  <2>3. NoImage(m, i) /\ (x = i \/ x = Fail(i))
    BY <1>1, <2>1, NoImageIend
  <2>4. NoImage(i, x) /\ x \in State /\ x.writer = i.writer
    BY <2>2, <2>3, NoImageError
  <2>5. o.writer = x.writer /\ o \in State
    BY <2>4 DEF State
  <2>6. NoImage(x, o)
    BY <2>4, NoImageTwin
  <2> HIDE DEF o
  <2>7. d = o
    BY <2>2, <2>4, <2>5 DEF drop_writer, o
  <2>8. NoImage(d, s)
    BY <2>5, <2>7, NoImageTwin
  <2> HIDE DEF s
  <2>9. NoImage(m, s)
    BY <2>3, <2>4, <2>6, <2>7, <2>8, NoImageTransitive
  <2> QED BY <1>3, <2>9 DEF s
<1> QED BY <1>2, <1>3

------------------------------------------------------------------------------
(* The calls that write.                                                        *)

LEMMA WriteHeaderCounts ==
  ASSUME IInv, CountInv, streams = 0, NEW info, WriteHeader(info)
  PROVE  CountInv'
<1>1. user = "encoder" /\ ~ failed /\ Counts(Here) /\ Here.failed = failed
  BY HereFields DEF WriteHeader, IInv, CountInv
<1>2. Blank(Here)
  <2>1. Here.out = << >> /\ ~ Here.failed /\ ~ Here.writer.iend_written /\ Sound(Here)
    BY <1>1, HereFields DEF IInv
  <2>2. File!Types(<< >>) = {}
    BY DEF File!Types
  <2> QED BY <2>1, <2>2, HereFields DEF Blank, Unclosed
<1>3. PICK m \in init(Here, info) :
        IF m.result = "ok" THEN Return({m}, "writer")
        ELSE Return({ [d EXCEPT !.result = "err"] : d \in drop_writer([m EXCEPT !.result = "ok"]) },
                    "gone")
  BY DEF WriteHeader
<1>4. NoImage(Here, m) /\ Sound(m) /\ Unclosed(m) /\ m \in State
  BY <1>2, NoImageHeader, HeaderInit DEF Sound
<1>5. CASE m.result = "ok"
  <2>1. Counting(m, "writer", m.result)
    BY <1>1, <1>4, NoImageCounts DEF Counting
  <2>2. Return({m}, "writer")
    BY <1>3, <1>5
  <2> QED BY <2>1, <2>2, CountsReturn
<1>6. CASE m.result # "ok"
  <2> DEFINE o == [m EXCEPT !.result = "ok"]
             S == { [d EXCEPT !.result = "err"] : d \in drop_writer(o) }
  <2>1. Return(S, "gone")
    BY <1>3, <1>6
  <2>2. NoImage(m, o) /\ Sound(o) /\ Unclosed(o) /\ o.result = "ok"
    <3>1. Twins(m, o) /\ o.result = "ok"
      BY <1>4, ResultTwins
    <3>2. NoImage(m, o)
      BY <1>4, NoImageTwin
    <3> HIDE DEF o
    <3> QED BY <1>4, <3>1, <3>2, TwinFacts DEF Unclosed, Twins
  <2> HIDE DEF o
  <2>3. ASSUME NEW d \in drop_writer(o)
        PROVE  Counting([d EXCEPT !.result = "err"], "gone", [d EXCEPT !.result = "err"].result)
    <3> DEFINE s == [d EXCEPT !.result = "err"]
    <3>1. NoImage(o, d) /\ d \in State
      BY <2>2, NoImageDropped, WriterDropped DEF Closes, Sound
    <3>2. NoImage(d, s) /\ s.result = "err"
      BY <3>1, NoImageTwin
    <3> HIDE DEF s
    <3>3. NoImage(Here, s)
      BY <1>4, <2>2, <3>1, <3>2, NoImageTransitive
    <3>4. Counting(s, "gone", s.result)
      BY <1>1, <3>2, <3>3, NoImageCounts DEF Counting
    <3> QED BY <3>4 DEF s
  <2>4. \A s \in S : Counting(s, "gone", s.result)
    BY <2>3
  <2> HIDE DEF S
  <2> QED BY <2>1, <2>4, CountsReturn
<1> QED BY <1>5, <1>6

LEMMA WriteImageDataCounts ==
  ASSUME IInv, CountInv, streams = 0, NEW size \in CompressedSizes, WriteImageData(size)
  PROVE  CountInv'
<1> DEFINE S == IF validate_new_image(writer) THEN write_image_data(Here, size) ELSE {Err(Here)}
<1>1. user = "writer" /\ Return(S, "writer")
  BY DEF WriteImageData
<1>2. /\ Live(Here) /\ Here.stream = NoStream /\ Here.result = "ok" /\ Here \in State
      /\ Here.writer = writer /\ Here.failed = failed /\ Here.out \in Seq(ChunkType)
  BY <1>1, HeldWriter, HereFields, WriterTyped
<1>3. ~ Here.failed => Counts(Here)
  BY <1>2 DEF CountInv
<1>4. ASSUME NEW s \in S PROVE Counting(s, "writer", s.result)
  <2>1. CASE validate_new_image(writer)
    <3>1. s \in write_image_data(Here, size)
      BY <2>1
    <3>2. Here.failed => s.failed
      BY <1>2, <3>1, ImageWritten DEF Grown
    <3>3. ~ s.failed => Counts(s)
      BY <1>2, <1>3, <2>1, <3>1, <3>2, ImageCounts
    <3> QED BY <3>3 DEF Counting
  <2>2. CASE ~ validate_new_image(writer)
    <3>1. NoImage(Here, s)
      BY <1>2, <2>2, NoImageError
    <3> QED BY <1>3, <3>1, NoImageCounts DEF Counting
  <2> QED BY <2>1, <2>2
<1> HIDE DEF S
<1> QED BY <1>1, <1>4, CountsReturn

LEMMA WriteTextChunkCounts ==
  ASSUME IInv, CountInv, streams = 0, NEW text \in Encoded, WriteTextChunk(text)
  PROVE  CountInv'
<1> DEFINE c == TextChunk(text.given, text.data.value)
           S == IF text.data.ok THEN WriteChunk(Here, c) ELSE {Err(Here)}
<1>1. user = "writer" /\ Return(S, "writer")
  BY DEF WriteTextChunk
<1>2. Here \in State /\ (~ Here.failed => Counts(Here))
  BY HereFields, WriterTyped DEF CountInv
<1>3. text.data.ok => c \in ChunkType /\ c.type \notin {"fcTL"} \cup DataTypes
  <2>1. text.given.type \in {"tEXt", "zTXt", "iTXt"} /\ c.type = text.given.type
    BY WriterAssumption DEF Encoded, TextChunk, TextType
  <2>2. text.data.ok => c \in ChunkType
    BY DEF ChunkType, WrittenTexts
  <2> QED BY <2>1, <2>2 DEF DataTypes
<1> HIDE DEF c
<1>4. ASSUME NEW s \in S PROVE Counting(s, "writer", s.result)
  <2>1. CASE text.data.ok
    <3>1. NoImage(Here, s)
      BY <1>2, <1>3, <2>1, NoImageChunk
    <3> QED BY <1>2, <3>1, NoImageCounts DEF Counting
  <2>2. CASE ~ text.data.ok
    <3>1. NoImage(Here, s)
      BY <1>2, <2>2, NoImageError
    <3> QED BY <1>2, <3>1, NoImageCounts DEF Counting
  <2> QED BY <2>1, <2>2
<1> HIDE DEF S
<1> QED BY <1>1, <1>4, CountsReturn

LEMMA FinishCounts ==
  ASSUME IInv, CountInv, streams = 0, Finish
  PROVE  CountInv'
<1>1. user = "writer" /\ Live(Here) /\ Here.result = "ok"
  BY HeldWriter DEF Finish
<1>2. ~ Here.failed => Counts(Here)
  BY HereFields DEF CountInv
<1>3. PICK m \in finish_writer(Here) :
        Return({ [d EXCEPT !.result = m.result] : d \in drop_writer([m EXCEPT !.result = "ok"]) },
               "gone")
  BY DEF Finish
<1> DEFINE S == { [d EXCEPT !.result = m.result] : d \in drop_writer([m EXCEPT !.result = "ok"]) }
<1>4. ASSUME NEW d \in drop_writer([m EXCEPT !.result = "ok"])
      PROVE  Counting([d EXCEPT !.result = m.result], "gone", [d EXCEPT !.result = m.result].result)
  <2> DEFINE s == [d EXCEPT !.result = m.result]
  <2>1. NoImage(Here, s) /\ (s.result = "ok" => validate_sequence_done(Here.writer))
    BY <1>1, NoImageFinish
  <2> HIDE DEF s
  <2>2. Counting(s, "gone", s.result)
    BY <1>2, <2>1, NoImageCounts DEF Counting
  <2> QED BY <2>2 DEF s
<1>5. \A s \in S : Counting(s, "gone", s.result)
  BY <1>4
<1>6. Return(S, "gone")
  BY <1>3
<1> HIDE DEF S
<1> QED BY <1>5, <1>6, CountsReturn

LEMMA DropCounts ==
  ASSUME IInv, CountInv, streams = 0, Drop
  PROVE  CountInv'
<1> DEFINE S == { [d EXCEPT !.result = "none"] : d \in drop_writer(Here) }
<1>1. user = "writer" /\ Return(S, "gone")
  BY DEF Drop
<1>2. /\ Live(Here) /\ Here.result = "ok" /\ (~ Here.failed => Counts(Here))
  BY <1>1, HeldWriter, HereFields DEF CountInv
<1>3. ASSUME NEW d \in drop_writer(Here)
      PROVE  Counting([d EXCEPT !.result = "none"], "gone", [d EXCEPT !.result = "none"].result)
  <2> DEFINE s == [d EXCEPT !.result = "none"]
  <2>1. NoImage(Here, d) /\ d \in State
    BY <1>2, LiveUnclosed, NoImageDropped, WriterDropped DEF Closes, Sound
  <2>2. NoImage(d, s) /\ s.result = "none"
    BY <2>1, NoImageTwin
  <2> HIDE DEF s
  <2>3. NoImage(Here, s)
    BY <2>1, <2>2, NoImageTransitive
  <2>4. Counting(s, "gone", s.result)
    BY <1>2, <2>2, <2>3, NoImageCounts DEF Counting
  <2> QED BY <2>4 DEF s
<1>4. \A s \in S : Counting(s, "gone", s.result)
  BY <1>3
<1> HIDE DEF S
<1> QED BY <1>1, <1>4, CountsReturn

------------------------------------------------------------------------------
(* The theorems.                                                                *)

LEMMA CountsInitially == Init => CountInv
<1> SUFFICES ASSUME Init PROVE CountInv
  OBVIOUS
<1>1. /\ out = << >> /\ failed = FALSE /\ user = "encoder" /\ image = 0 /\ streams = 0
      /\ writer = [num_frames |-> 0, sep_def_img |-> FALSE, validate_sequence |-> FALSE,
                   compression |-> "Flate2", frame_control |-> NoFrameControl,
                   images_written |-> 0, animation_written |-> 0, iend_written |-> FALSE]
  BY DEF Init, WriterInit
<1>2. WriterCounts(writer)
  BY <1>1 DEF WriterCounts, FramesLeft, ImagesAreFrames, OneStill, animated, is_some,
              NoFrameControl
<1>3. Controls(<< >>) = {} /\ Shaped(<< >>)
  BY DEF Controls, Shaped
<1>4. Counts(Here)
  <2>1. Cardinality(Controls(out)) = 0 /\ Shaped(out)
    BY <1>1, <1>3, FS_EmptySet
  <2>2. writer.images_written = 0 /\ writer.animation_written = 0
    BY <1>1
  <2> QED BY <1>1, <1>2, <2>1, <2>2, HereFields DEF Counts
<1> QED BY <1>1, <1>4 DEF CountInv, Streaming

LEMMA CountsKept ==
  ASSUME IInv, CountInv, [Next]_vars
  PROVE  CountInv'
<1>1. CASE UNCHANGED vars
  <2>1. /\ writer' = writer /\ out' = out /\ failed' = failed /\ result' = result
        /\ user' = user /\ stream' = stream /\ image' = image /\ streams' = streams
    BY <1>1 DEF vars
  <2> QED BY <2>1 DEF CountInv, Here, Streaming
<1>2. CASE streams' # 0
  BY <1>2 DEF CountInv
<1>3. CASE Next /\ streams' = 0
  <2>1. CASE WriterNext
    <3>1. streams = 0
      BY <1>3, <2>1 DEF WriterNext, SetAnimated, SetSepDefImg, ValidateSequence,
           SetDeflateCompression, SetFrameDimension, SetFramePosition, ResetFrameDimension,
           ResetFramePosition, Set, WriteHeader, WriteImageData, WriteTextChunk, Finish, Drop,
           Return
    <3> QED BY <2>1, <3>1, EncoderCounts, FrameCounts, WriteHeaderCounts, WriteImageDataCounts,
               WriteTextChunkCounts, FinishCounts, DropCounts DEF WriterNext
  <2>2. CASE \E size \in BufLens, owned \in BOOLEAN : OpenStream(size, owned)
    <3>1. streams \in Nat /\ streams' = streams + 1
      BY <2>2 DEF OpenStream, IInv
    <3> QED BY <1>3, <3>1
  <2>3. CASE /\ ~ WriterNext
             /\ ~ \E size \in BufLens, owned \in BOOLEAN : OpenStream(size, owned)
    <3>1. Streaming /\ streams' = streams
      BY <1>3, <2>3 DEF Next, Write, Flush, FinishStream, DropStream, SetStreamedDimension,
           SetStreamedPosition, ResetStreamedDimension, ResetStreamedPosition, SetStreamed
    <3> QED BY <1>3, <3>1 DEF CountInv
  <2> QED BY <2>1, <2>2, <2>3
<1> QED BY <1>1, <1>2, <1>3

(* As long as no stream was used and the sink refused nothing, what images_written,      *)
(* animation_written and the remaining frames say agrees with the chunks in the sink,     *)
(* after every call of Encoder and Writer.                                               *)
THEOREM CountsAlways == BuffersHoldData /\ Spec => []CountInv
<1>1. Init => CountInv
  BY CountsInitially
<1>2. IInv /\ CountInv /\ [Next]_vars => CountInv'
  BY CountsKept
<1> QED BY <1>1, <1>2, Invariance, PTL DEF Spec

\* Whatever sequence of write_image_data, setters and texts: as long as no stream was used and the
\* sink has refused nothing, the data of every frame stands behind its frame control and is in
\* IDAT chunks if it is the first image, in fdAT chunks with sequence numbers otherwise.
THEOREM FramesAreWellFormed == BuffersHoldData /\ Spec => []FramesWellFormed
<1>1. CountInv => FramesWellFormed
  <2> SUFFICES ASSUME CountInv, streams = 0, ~ failed, NEW img \in 1 .. image,
                      NEW i \in Positions(DataTypes), out[i].image = img, FrameOf(img) # {}
               PROVE  /\ \A f \in FrameOf(img) : f < i
                      /\ IF img = 1 THEN out[i].type = "IDAT" /\ out[i].seq = NoSeq
                         ELSE out[i].type = "fdAT" /\ out[i].seq # NoSeq
    BY DEF FramesWellFormed, FrameDataIn, DataTypes
  <2>1. Shaped(out)
    BY HereFields DEF CountInv, Counts
  <2>2. i \in DOMAIN out /\ out[i].type \in DataTypes
    BY DEF Positions
  <2>3. \A f \in FrameOf(img) : f \in Controls(out) /\ out[f].image = img
    BY DEF FrameOf, Positions, Controls
  <2> QED BY <2>1, <2>2, <2>3 DEF Shaped
<1> QED BY <1>1, CountsAlways, PTL

\* If validate_sequence is set, no stream was used and Writer::finish returns Ok, for any number of
\* frames announced and any calls before, the file has exactly that many frame controls and
\* images, the default image apart.  Nothing is said of a file with a stream: StreamWriter::finish
\* does not look at the sequence when a compressor is open, and so returns Ok with frames missing.
THEOREM ValidatedFilesAreComplete == BuffersHoldData /\ Spec => []ValidatedCount
<1>1. IInv /\ CountInv => ValidatedCount
  <2> SUFFICES ASSUME IInv, CountInv, user = "gone", result = "ok", writer.validate_sequence,
                      streams = 0, ~ failed
               PROVE  /\ Cardinality(Positions({"fcTL"})) = writer.num_frames
                      /\ image = writer.num_frames +
                           (IF animated(writer) /\ ~ writer.sep_def_img THEN 0 ELSE 1)
    BY DEF ValidatedCount
  <2>1. /\ WriterCounts(writer) /\ image = writer.images_written
        /\ Cardinality(Controls(out)) = writer.animation_written
        /\ validate_sequence_done(writer)
    BY HereFields DEF CountInv, Counts
  <2>2. Positions({"fcTL"}) = Controls(out)
    BY DEF Positions, Controls
  <2>3. /\ writer.num_frames \in Nat /\ writer.images_written \in Nat
        /\ writer.animation_written \in Nat /\ writer.sep_def_img \in BOOLEAN
    BY WriterTyped DEF WriterType
  <2>4. writer.images_written > 0 /\ ~ (animated(writer) /\ is_some(writer.frame_control))
    BY <2>1 DEF validate_sequence_done
  <2>5. CASE animated(writer)
    BY <2>1, <2>2, <2>3, <2>4, <2>5 DEF WriterCounts, FramesLeft, ImagesAreFrames
  <2>6. CASE ~ animated(writer)
    <3>1. writer.num_frames = 0
      BY <2>3, <2>6 DEF animated
    <3> QED BY <2>1, <2>2, <2>3, <2>4, <2>6, <3>1 DEF WriterCounts, FramesLeft, OneStill
  <2> QED BY <2>5, <2>6
<1> QED BY <1>1, Invariance, CountsAlways, PTL

------------------------------------------------------------------------------
(* Strings and bytes: what is decoded after some bytes is the last value of a   *)
(* run, one value for each byte; so decoding what was encoded, character by     *)
(* character, gives the string again.                                           *)

IsRun(a, N, S, first, step) ==
  /\ a \in [0 .. N -> S]
  /\ a[0] = first /\ \A n \in 1 .. N : a[n] = step[<<a[n - 1], n>>]

LEMMA RunExists ==
  ASSUME NEW N \in Nat, NEW S, NEW first \in S, NEW step \in [S \X (1 .. N) -> S]
  PROVE  \E a : IsRun(a, N, S, first, step)
<1> DEFINE Upto(n, a) == a[0] = first /\ \A i \in 1 .. n : a[i] = step[<<a[i - 1], i>>]
           K == { n \in 0 .. N : \E a \in [0 .. N -> S] : Upto(n, a) }
<1>1. 0 \in K
  <2>1. [n \in 0 .. N |-> first] \in [0 .. N -> S] /\ Upto(0, [n \in 0 .. N |-> first])
    OBVIOUS
  <2>2. 0 \in 0 .. N
    OBVIOUS
  <2> QED BY <2>1, <2>2
<1>2. ASSUME NEW n \in 1 .. N, n - 1 \in K PROVE n \in K
  <2>1. PICK a \in [0 .. N -> S] : Upto(n - 1, a)
    BY <1>2
  <2>2. a[n - 1] \in S /\ step[<<a[n - 1], n>>] \in S
    OBVIOUS
  <2> DEFINE h == [a EXCEPT ![n] = step[<<a[n - 1], n>>]]
  <2>3. h \in [0 .. N -> S]
    BY <2>2
  <2>4. /\ h[0] = a[0] /\ h[n] = step[<<a[n - 1], n>>]
        /\ \A i \in 0 .. N : i # n => h[i] = a[i]
    OBVIOUS
  <2> HIDE DEF h
  <2>5. ASSUME NEW i \in 1 .. n PROVE h[i] = step[<<h[i - 1], i>>]
    <3>1. h[i - 1] = a[i - 1]
      BY <2>4
    <3>2. CASE i = n
      BY <2>4, <3>1, <3>2
    <3>3. CASE i # n
      <4>1. i \in 1 .. n - 1
        BY <3>3
      <4> QED BY <2>1, <2>4, <3>1, <3>3, <4>1
    <3> QED BY <3>2, <3>3
  <2>6. Upto(n, h)
    BY <2>1, <2>4, <2>5
  <2> QED BY <2>3, <2>6
<1> HIDE DEF K
<1>3. 0 .. N \subseteq K
  BY <1>1, <1>2, Induction
<1>4. N \in K
  BY <1>3
<1> QED BY <1>4 DEF K, IsRun

DecodeState ==
  { s \in [ok : BOOLEAN, lead : TextByte, text : Seq(Int)] :
      s.ok => s.text \in Seq(Character) /\ s.lead \in {0} \cup 194 .. 223 }

LEMMA DecodeByteType ==
  ASSUME NEW s \in DecodeState, NEW b \in TextByte
  PROVE  DecodeByte(s, b) \in DecodeState
<1> DEFINE char == (s.lead - 192) * 64 + b - 128
<1>1. s \in [ok : BOOLEAN, lead : TextByte, text : Seq(Int)]
      /\ (s.ok => s.text \in Seq(Character) /\ s.lead \in {0} \cup 194 .. 223)
  BY DEF DecodeState
<1>2. b \in Int /\ s.lead \in Int /\ char \in Int
  <2>1. s.lead \in TextByte
    BY <1>1
  <2>2. b \in Int /\ s.lead \in Int
    BY <2>1 DEF TextByte
  <2> QED BY <2>2
<1>3. CASE s.lead # 0
  <2>1. PICK longer : longer = Append(s.text, char)
    OBVIOUS
  <2>2. DecodeByte(s, b) = [ok |-> s.ok /\ b \in 128 .. 191, lead |-> 0, text |-> longer]
    BY <1>3, <2>1 DEF DecodeByte
  <2>3. longer \in Seq(Int) /\ 0 \in TextByte
    BY <1>1, <1>2, <2>1 DEF TextByte
  <2>4. ASSUME s.ok, b \in 128 .. 191 PROVE longer \in Seq(Character)
    <3>1. s.lead \in 194 .. 223
      BY <1>1, <1>3, <2>4
    <3>2. char \in Character
      BY <2>4, <3>1 DEF Character
    <3> HIDE DEF char
    <3> QED BY <1>1, <2>1, <2>4, <3>2
  <2>5. DecodeByte(s, b) \in [ok : BOOLEAN, lead : TextByte, text : Seq(Int)]
    BY <1>1, <2>2, <2>3
  <2>6. DecodeByte(s, b).ok = (s.ok /\ b \in 128 .. 191)
    BY <2>2, SMT
  <2>7. DecodeByte(s, b).lead = 0 /\ DecodeByte(s, b).text = longer
    BY <2>2
  <2> QED BY <2>4, <2>5, <2>6, <2>7 DEF DecodeState
<1>4. CASE s.lead = 0 /\ b < 128
  <2>1. DecodeByte(s, b) = [s EXCEPT !.text = Append(@, b)]
    BY <1>2, <1>4 DEF DecodeByte
  <2>2. Append(s.text, b) \in Seq(Int) /\ (s.ok => Append(s.text, b) \in Seq(Character))
    <3>1. b \in Character
      BY <1>4 DEF TextByte, Character
    <3> QED BY <1>1, <1>2, <3>1
  <2> QED BY <1>1, <2>1, <2>2 DEF DecodeState
<1>5. CASE s.lead = 0 /\ b >= 128
  <2>1. DecodeByte(s, b) = [s EXCEPT !.ok = @ /\ b \in 194 .. 223, !.lead = b]
    BY <1>2, <1>5 DEF DecodeByte
  <2> QED BY <1>1, <2>1 DEF DecodeState
<1> QED BY <1>2, <1>3, <1>4, <1>5

LEMMA NothingType == NothingDecoded \in DecodeState
<1>1. << >> \in Seq(Int) /\ << >> \in Seq(Character) /\ 0 \in TextByte
  BY DEF TextByte
<1> QED BY <1>1 DEF NothingDecoded, DecodeState

LEMMA DecodedRun ==
  ASSUME NEW bytes \in Seq(TextByte)
  PROVE  \E a \in [0 .. Len(bytes) -> DecodeState] :
           /\ a[0] = NothingDecoded
           /\ \A n \in 1 .. Len(bytes) : a[n] = DecodeByte(a[n - 1], bytes[n])
           /\ Decoded(bytes) = a[Len(bytes)]
<1>1. PICK N \in Nat : N = Len(bytes) /\ DOMAIN bytes = 1 .. N
                       /\ \A n \in 1 .. N : bytes[n] \in TextByte
  OBVIOUS
<1> DEFINE step == [p \in DecodeState \X (1 .. N) |-> DecodeByte(p[1], bytes[p[2]])]
<1>2. NothingDecoded \in DecodeState
  BY NothingType
<1>3. step \in [DecodeState \X (1 .. N) -> DecodeState]
  BY <1>1, DecodeByteType
<1>4. \A s \in DecodeState, n \in 1 .. N : step[<<s, n>>] = DecodeByte(s, bytes[n])
  OBVIOUS
<1> HIDE DEF step
<1>5. PICK a : IsRun(a, N, DecodeState, NothingDecoded, step)
  BY <1>1, <1>2, <1>3, RunExists
<1>6. \A n \in 1 .. N : a[n] = DecodeByte(a[n - 1], bytes[n])
  <2> TAKE n \in 1 .. N
  <2>1. a[n - 1] \in DecodeState /\ a[n] = step[<<a[n - 1], n>>]
    BY <1>5 DEF IsRun
  <2> QED BY <1>4, <2>1
<1>7. a = [n \in 0 .. N |-> IF n = 0 THEN NothingDecoded ELSE DecodeByte(a[n - 1], bytes[n])]
  BY <1>5, <1>6 DEF IsRun
<1>8. PICK b : /\ b = [n \in 0 .. N |->
                         IF n = 0 THEN NothingDecoded ELSE DecodeByte(b[n - 1], bytes[n])]
               /\ Decoded(bytes) = b[N]
  BY <1>1, <1>7 DEF Decoded
<1>9. /\ b[0] = a[0]
      /\ \A n \in 1 .. N : b[n] = DecodeByte(b[n - 1], bytes[n])
  <2> HIDE DEF NothingDecoded
  <2>1. \A n \in 0 .. N : b[n] = IF n = 0 THEN NothingDecoded ELSE DecodeByte(b[n - 1], bytes[n])
    BY <1>8
  <2> QED BY <1>5, <2>1 DEF IsRun
<1> DEFINE SameText == { n \in 0 .. N : b[n] = a[n] }
<1>10. 0 \in SameText /\ \A n \in 1 .. N : n - 1 \in SameText => n \in SameText
  BY <1>6, <1>9
<1>11. N \in SameText
  <2> HIDE DEF SameText
  <2>1. 0 .. N \subseteq SameText
    BY <1>1, <1>10, Induction
  <2> QED BY <1>1, <2>1
<1> QED BY <1>1, <1>5, <1>6, <1>8, <1>11 DEF IsRun

LEMMA DecodedEmpty == Decoded(<< >>) = NothingDecoded
<1>1. << >> \in Seq(TextByte) /\ Len(<< >>) = 0
  OBVIOUS
<1> QED BY <1>1, DecodedRun

LEMMA DecodedAppend ==
  ASSUME NEW bytes \in Seq(TextByte), NEW b \in TextByte
  PROVE  Decoded(Append(bytes, b)) = DecodeByte(Decoded(bytes), b)
<1> DEFINE more == Append(bytes, b)
<1>1. PICK N \in Nat : N = Len(bytes)
  OBVIOUS
<1>2. /\ more \in Seq(TextByte) /\ Len(more) = N + 1 /\ more[N + 1] = b
      /\ \A n \in 1 .. N : more[n] = bytes[n]
  BY <1>1
<1> HIDE DEF more
<1>3. PICK s \in [0 .. N -> DecodeState] :
        /\ s[0] = NothingDecoded
        /\ \A n \in 1 .. N : s[n] = DecodeByte(s[n - 1], bytes[n])
        /\ Decoded(bytes) = s[N]
  BY <1>1, DecodedRun
<1>4. PICK t \in [0 .. N + 1 -> DecodeState] :
        /\ t[0] = NothingDecoded
        /\ \A n \in 1 .. N + 1 : t[n] = DecodeByte(t[n - 1], more[n])
        /\ Decoded(more) = t[N + 1]
  BY <1>2, DecodedRun
<1> DEFINE SameText == { n \in 0 .. N : s[n] = t[n] }
<1>5. 0 \in SameText /\ \A n \in 1 .. N : n - 1 \in SameText => n \in SameText
  BY <1>2, <1>3, <1>4
<1>6. N \in SameText
  <2> HIDE DEF SameText
  <2>1. 0 .. N \subseteq SameText
    BY <1>1, <1>5, Induction
  <2> QED BY <1>1, <2>1
<1>7. t[N + 1] = DecodeByte(t[N], b)
  BY <1>2, <1>4
<1> QED BY <1>3, <1>4, <1>6, <1>7 DEF more

LEMMA Utf8Ascii ==
  ASSUME NEW char \in Character, char < 128
  PROVE  char \in TextByte /\ Utf8(char) = <<char>>
BY DEF Utf8, Character, TextByte

LEMMA Utf8Two ==
  ASSUME NEW char \in Character, char >= 128
  PROVE  \E lead \in 194 .. 223, next \in 128 .. 191 :
           /\ Utf8(char) = <<lead, next>> /\ lead \in TextByte /\ next \in TextByte
           /\ (lead - 192) * 64 + next - 128 = char
<1>1. 192 + (char \div 64) \in 194 .. 223 /\ 128 + (char % 64) \in 128 .. 191
  BY DEF Character
<1>2. PICK l \in 194 .. 223, n \in 128 .. 191 :
        192 + (char \div 64) = l /\ 128 + (char % 64) = n
  BY <1>1
<1>3. (l - 192) * 64 + n - 128 = char
  BY <1>2 DEF Character
<1>4. Utf8(char) = <<l, n>>
  BY <1>2 DEF Utf8, Character
<1>5. l \in TextByte /\ n \in TextByte
  BY DEF TextByte
<1> QED BY <1>3, <1>4, <1>5

LEMMA Utf8Bytes ==
  ASSUME NEW char \in Character
  PROVE  Utf8(char) \in Seq(TextByte)
<1>1. CASE char < 128
  <2>1. char \in TextByte /\ Utf8(char) = <<char>>
    BY <1>1, Utf8Ascii
  <2>2. <<char>> \in Seq(TextByte)
    BY <2>1
  <2> QED BY <2>1, <2>2
<1>2. CASE char >= 128
  <2>1. PICK lead \in TextByte, next \in TextByte : Utf8(char) = <<lead, next>>
    BY <1>2, Utf8Two
  <2> QED BY <2>1
<1>3. char < 128 \/ char >= 128
  BY DEF Character
<1> QED BY <1>1, <1>2, <1>3

\* The bytes s with a character behind them.
Longer(s, char) == s \o Utf8(char)

LEMMA EncodedRun ==
  ASSUME NEW text \in Seq(Character)
  PROVE  \E a \in [0 .. Len(text) -> Seq(TextByte)] :
           /\ a[0] = << >>
           /\ \A n \in 1 .. Len(text) : a[n] = Longer(a[n - 1], text[n])
           /\ encode_utf8(text) = a[Len(text)]
<1>1. PICK N \in Nat : N = Len(text) /\ DOMAIN text = 1 .. N
                       /\ \A n \in 1 .. N : text[n] \in Character
  OBVIOUS
<1> DEFINE step == [p \in Seq(TextByte) \X (1 .. N) |-> Longer(p[1], text[p[2]])]
<1>2. << >> \in Seq(TextByte)
  OBVIOUS
<1>3. step \in [Seq(TextByte) \X (1 .. N) -> Seq(TextByte)]
  <2> SUFFICES ASSUME NEW s \in Seq(TextByte), NEW n \in 1 .. N
               PROVE  Longer(s, text[n]) \in Seq(TextByte)
    OBVIOUS
  <2>1. Utf8(text[n]) \in Seq(TextByte)
    BY <1>1, Utf8Bytes
  <2> QED BY <2>1, ConcatProperties DEF Longer
<1>4. \A s \in Seq(TextByte), n \in 1 .. N : step[<<s, n>>] = Longer(s, text[n])
  OBVIOUS
<1> HIDE DEF step
<1>5. PICK a : IsRun(a, N, Seq(TextByte), << >>, step)
  BY <1>1, <1>2, <1>3, RunExists
<1>6. \A n \in 1 .. N : a[n] = Longer(a[n - 1], text[n])
  <2> TAKE n \in 1 .. N
  <2>1. a[n - 1] \in Seq(TextByte) /\ a[n] = step[<<a[n - 1], n>>]
    BY <1>5 DEF IsRun
  <2> QED BY <1>4, <2>1
<1>7. a = [n \in 0 .. N |-> IF n = 0 THEN << >> ELSE Longer(a[n - 1], text[n])]
  BY <1>5, <1>6 DEF IsRun
<1>8. PICK b : /\ b = [n \in 0 .. N |-> IF n = 0 THEN << >> ELSE Longer(b[n - 1], text[n])]
               /\ encode_utf8(text) = b[N]
  BY <1>1, <1>7 DEF encode_utf8, Longer
<1>9. /\ b[0] = a[0]
      /\ \A n \in 1 .. N : b[n] = Longer(b[n - 1], text[n])
  <2>1. \A n \in 0 .. N : b[n] = IF n = 0 THEN << >> ELSE Longer(b[n - 1], text[n])
    BY <1>8
  <2> QED BY <1>5, <2>1 DEF IsRun
<1> DEFINE SameText == { n \in 0 .. N : b[n] = a[n] }
<1>10. 0 \in SameText /\ \A n \in 1 .. N : n - 1 \in SameText => n \in SameText
  BY <1>6, <1>9
<1>11. N \in SameText
  <2> HIDE DEF SameText
  <2>1. 0 .. N \subseteq SameText
    BY <1>1, <1>10, Induction
  <2> QED BY <1>1, <2>1
<1> QED BY <1>1, <1>5, <1>6, <1>8, <1>11 DEF IsRun

LEMMA EncodedType ==
  ASSUME NEW text \in Seq(Character)
  PROVE  encode_utf8(text) \in Seq(TextByte)
<1>1. Len(text) \in 0 .. Len(text)
  OBVIOUS
<1> QED BY <1>1, EncodedRun

LEMMA EncodedEmpty == encode_utf8(<< >>) = << >>
<1>1. << >> \in Seq(Character) /\ Len(<< >>) = 0
  OBVIOUS
<1> QED BY <1>1, EncodedRun

LEMMA EncodedAppend ==
  ASSUME NEW text \in Seq(Character), NEW char \in Character
  PROVE  encode_utf8(Append(text, char)) = Longer(encode_utf8(text), char)
<1> DEFINE more == Append(text, char)
<1>1. PICK N \in Nat : N = Len(text)
  OBVIOUS
<1>2. /\ more \in Seq(Character) /\ Len(more) = N + 1 /\ more[N + 1] = char
      /\ \A n \in 1 .. N : more[n] = text[n]
  BY <1>1
<1> HIDE DEF more
<1>3. PICK s \in [0 .. N -> Seq(TextByte)] :
        /\ s[0] = << >>
        /\ \A n \in 1 .. N : s[n] = Longer(s[n - 1], text[n])
        /\ encode_utf8(text) = s[N]
  BY <1>1, EncodedRun
<1>4. PICK t \in [0 .. N + 1 -> Seq(TextByte)] :
        /\ t[0] = << >>
        /\ \A n \in 1 .. N + 1 : t[n] = Longer(t[n - 1], more[n])
        /\ encode_utf8(more) = t[N + 1]
  BY <1>2, EncodedRun
<1> DEFINE SameText == { n \in 0 .. N : s[n] = t[n] }
<1>5. 0 \in SameText /\ \A n \in 1 .. N : n - 1 \in SameText => n \in SameText
  BY <1>2, <1>3, <1>4
<1>6. N \in SameText
  <2> HIDE DEF SameText
  <2>1. 0 .. N \subseteq SameText
    BY <1>1, <1>5, Induction
  <2> QED BY <1>1, <2>1
<1>7. t[N + 1] = Longer(t[N], char)
  BY <1>2, <1>4
<1> QED BY <1>3, <1>4, <1>6, <1>7 DEF more

\* The decoder goes on where it was.
Holds(d, text, lead) == d \in DecodeState /\ d.ok /\ d.text = text /\ d.lead = lead

LEMMA DecodeAscii ==
  ASSUME NEW d, NEW text, Holds(d, text, 0), NEW b \in TextByte, b < 128
  PROVE  Holds(DecodeByte(d, b), Append(text, b), 0)
<1>1. PICK longer : longer = Append(text, b)
  OBVIOUS
<1>2. d \in [ok : BOOLEAN, lead : TextByte, text : Seq(Int)] /\ d.lead = 0 /\ b \in Int
  BY DEF Holds, DecodeState, TextByte
<1>3. DecodeByte(d, b) = [d EXCEPT !.text = longer]
  BY <1>1, <1>2 DEF DecodeByte, Holds
<1>4. DecodeByte(d, b).ok = d.ok /\ DecodeByte(d, b).lead = d.lead /\ DecodeByte(d, b).text = longer
  BY <1>2, <1>3
<1> QED BY <1>1, <1>4, DecodeByteType DEF Holds

LEMMA DecodeLead ==
  ASSUME NEW d, NEW text, Holds(d, text, 0), NEW b \in TextByte, b \in 194 .. 223
  PROVE  Holds(DecodeByte(d, b), text, b)
<1>1. d \in [ok : BOOLEAN, lead : TextByte, text : Seq(Int)] /\ d.lead = 0 /\ d.ok = TRUE
  BY DEF Holds, DecodeState
<1>2. (d.ok /\ b \in 194 .. 223) = TRUE
  BY <1>1
<1>3. DecodeByte(d, b) = [d EXCEPT !.ok = TRUE, !.lead = b]
  <2>1. DecodeByte(d, b) = [d EXCEPT !.ok = d.ok /\ b \in 194 .. 223, !.lead = b]
    <3>1. b >= 128 /\ ~ (b < 128)
      OBVIOUS
    <3> QED BY <1>1, <3>1 DEF DecodeByte
  <2> QED BY <1>2, <2>1
<1>4. DecodeByte(d, b).ok = TRUE /\ DecodeByte(d, b).lead = b /\ DecodeByte(d, b).text = d.text
  BY <1>1, <1>3
<1> QED BY <1>4, DecodeByteType DEF Holds

LEMMA DecodeSecond ==
  ASSUME NEW d, NEW text, NEW lead, lead # 0, Holds(d, text, lead), NEW b \in TextByte, b \in 128 .. 191
  PROVE  Holds(DecodeByte(d, b), Append(text, (lead - 192) * 64 + b - 128), 0)
<1>1. PICK longer : longer = Append(text, (lead - 192) * 64 + b - 128)
  OBVIOUS
<1>2. d \in [ok : BOOLEAN, lead : TextByte, text : Seq(Int)] /\ d.lead # 0 /\ d.ok = TRUE
  BY DEF Holds, DecodeState
<1>3. (d.ok /\ b \in 128 .. 191) = TRUE
  BY <1>2
<1>4. DecodeByte(d, b) = [ok |-> d.ok /\ b \in 128 .. 191, lead |-> 0, text |-> longer]
  BY <1>1, <1>2 DEF DecodeByte, Holds
<1>5. DecodeByte(d, b) = [ok |-> TRUE, lead |-> 0, text |-> longer]
  BY <1>3, <1>4
<1>6. DecodeByte(d, b).ok = TRUE /\ DecodeByte(d, b).lead = 0 /\ DecodeByte(d, b).text = longer
  BY <1>5
<1> QED BY <1>1, <1>6, DecodeByteType DEF Holds

LEMMA DecodedChar ==
  ASSUME NEW bytes \in Seq(TextByte), NEW text \in Seq(Character), NEW char \in Character,
         Holds(Decoded(bytes), text, 0)
  PROVE  Holds(Decoded(Longer(bytes, char)), Append(text, char), 0)
<1>1. CASE char < 128
  <2>1. char \in TextByte /\ Utf8(char) = <<char>>
    BY <1>1, Utf8Ascii
  <2>2. Longer(bytes, char) = Append(bytes, char)
    BY <2>1 DEF Longer
  <2> QED BY <1>1, <2>1, <2>2, DecodedAppend, DecodeAscii
<1>2. CASE char >= 128
  <2>1. PICK lead \in 194 .. 223, next \in 128 .. 191 :
          /\ Utf8(char) = <<lead, next>> /\ lead \in TextByte /\ next \in TextByte
          /\ (lead - 192) * 64 + next - 128 = char
    BY <1>2, Utf8Two
  <2>2. PICK more : more = Append(bytes, lead)
    OBVIOUS
  <2>3. more \in Seq(TextByte) /\ Longer(bytes, char) = Append(more, next)
    BY <2>1, <2>2 DEF Longer
  <2>4. Holds(Decoded(more), text, lead)
    BY <2>1, <2>2, DecodedAppend, DecodeLead
  <2>5. Holds(DecodeByte(Decoded(more), next), Append(text, (lead - 192) * 64 + next - 128), 0)
    <3>1. lead # 0
      OBVIOUS
    <3> QED BY <2>1, <2>4, <3>1, DecodeSecond
  <2> QED BY <2>1, <2>3, <2>5, DecodedAppend
<1> QED BY <1>1, <1>2 DEF Character

LEMMA LastCharacter ==
  ASSUME NEW S, NEW text \in Seq(S), NEW n \in Nat, Len(text) = n, n > 0
  PROVE  \E front \in Seq(S), last \in S : text = Append(front, last) /\ Len(front) = n - 1
<1>1. SubSeq(text, 1, n - 1) \in Seq(S) /\ text[n] \in S
  OBVIOUS
<1>2. text = Append(SubSeq(text, 1, n - 1), text[n]) /\ Len(SubSeq(text, 1, n - 1)) = n - 1
  OBVIOUS
<1> QED BY <1>1, <1>2

\* What is encoded is decoded as it was, however long it is.
LEMMA RoundTrip ==
  ASSUME NEW text \in Seq(Character)
  PROVE  Holds(Decoded(encode_utf8(text)), text, 0)
<1> DEFINE Survives(t) == Holds(Decoded(encode_utf8(t)), t, 0)
           K == { n \in 0 .. Len(text) : \A t \in Seq(Character) : Len(t) = n => Survives(t) }
<1>0. Len(text) \in Nat
  OBVIOUS
<1>1. 0 \in K
  <2>1. Survives(<< >>)
    <3>1. NothingDecoded.ok /\ NothingDecoded.lead = 0 /\ NothingDecoded.text = << >>
      BY DEF NothingDecoded
    <3> QED BY <3>1, EncodedEmpty, DecodedEmpty, NothingType DEF Holds
  <2>2. \A t \in Seq(Character) : Len(t) = 0 => t = << >>
    OBVIOUS
  <2> QED BY <1>0, <2>1, <2>2
<1>2. ASSUME NEW n \in 1 .. Len(text), n - 1 \in K PROVE n \in K
  <2> SUFFICES ASSUME NEW t \in Seq(Character), Len(t) = n PROVE Survives(t)
    OBVIOUS
  <2>1. PICK front \in Seq(Character), last \in Character :
          t = Append(front, last) /\ Len(front) = n - 1
    <3>1. n \in Nat /\ n > 0
      BY <1>0
    <3> QED BY <3>1, LastCharacter
  <2>2. Survives(front)
    BY <1>2, <2>1
  <2>3. encode_utf8(t) = Longer(encode_utf8(front), last)
    BY <2>1, EncodedAppend
  <2>4. encode_utf8(front) \in Seq(TextByte)
    BY EncodedType
  <2> QED BY <2>1, <2>2, <2>3, <2>4, DecodedChar
<1> HIDE DEF K
<1>3. 0 .. Len(text) \subseteq K
  BY <1>0, <1>1, <1>2, Induction
<1>4. Len(text) \in K
  BY <1>0, <1>3
<1> QED BY <1>4 DEF K

NoNull(s) == \A i \in DOMAIN s : s[i] # 0

LEMMA NoNullJoined ==
  ASSUME NEW S, NEW s \in Seq(S), NEW t \in Seq(S), NoNull(s), NoNull(t)
  PROVE  NoNull(s \o t)
<1>1. /\ DOMAIN s = 1 .. Len(s) /\ DOMAIN t = 1 .. Len(t)
      /\ Len(s) \in Nat /\ Len(t) \in Nat /\ DOMAIN (s \o t) = 1 .. Len(s) + Len(t)
  OBVIOUS
<1>2. ASSUME NEW i \in 1 .. Len(s) + Len(t) PROVE (s \o t)[i] # 0
  <2>1. (s \o t)[i] = IF i <= Len(s) THEN s[i] ELSE t[i - Len(s)]
    BY ConcatProperties
  <2>2. i <= Len(s) => i \in DOMAIN s
    BY <1>1
  <2>3. ~ (i <= Len(s)) => i - Len(s) \in DOMAIN t
    BY <1>1
  <2> QED BY <2>1, <2>2, <2>3 DEF NoNull
<1> QED BY <1>1, <1>2 DEF NoNull

LEMMA Utf8NoNull ==
  ASSUME NEW char \in Character, char # 0
  PROVE  NoNull(Utf8(char))
<1>1. CASE char < 128
  <2>1. Utf8(char) = <<char>>
    BY <1>1, Utf8Ascii
  <2> QED BY <2>1 DEF NoNull
<1>2. CASE char >= 128
  <2>1. PICK lead \in 194 .. 223, next \in 128 .. 191 :
          /\ Utf8(char) = <<lead, next>> /\ lead \in TextByte /\ next \in TextByte
          /\ (lead - 192) * 64 + next - 128 = char
    BY <1>2, Utf8Two
  <2> QED BY <2>1 DEF NoNull
<1> QED BY <1>1, <1>2 DEF Character

\* UTF-8 has a null only where the text has one.
LEMMA EncodedNulls ==
  ASSUME NEW text \in Seq(Character), NoNull(text)
  PROVE  NoNull(encode_utf8(text))
<1>1. PICK a \in [0 .. Len(text) -> Seq(TextByte)] :
        /\ a[0] = << >>
        /\ \A n \in 1 .. Len(text) : a[n] = Longer(a[n - 1], text[n])
        /\ encode_utf8(text) = a[Len(text)]
  BY EncodedRun
<1> DEFINE K == { n \in 0 .. Len(text) : NoNull(a[n]) }
<1>2. Len(text) \in Nat /\ DOMAIN text = 1 .. Len(text)
  OBVIOUS
<1>3. 0 \in K
  BY <1>1, <1>2 DEF NoNull
<1>4. ASSUME NEW n \in 1 .. Len(text), n - 1 \in K PROVE n \in K
  <2>1. text[n] \in Character /\ text[n] # 0
    BY <1>2 DEF NoNull
  <2>2. NoNull(Utf8(text[n])) /\ Utf8(text[n]) \in Seq(TextByte)
    BY <2>1, Utf8NoNull, Utf8Bytes
  <2>3. a[n - 1] \in Seq(TextByte) /\ NoNull(a[n - 1]) /\ a[n] = Longer(a[n - 1], text[n])
    BY <1>1, <1>4
  <2> HIDE DEF NoNull
  <2>4. NoNull(a[n])
    BY <2>2, <2>3, NoNullJoined DEF Longer
  <2> QED BY <2>4
<1> HIDE DEF K
<1>5. 0 .. Len(text) \subseteq K
  BY <1>2, <1>3, <1>4, Induction
<1>6. Len(text) \in K
  BY <1>2, <1>5
<1> QED BY <1>1, <1>6 DEF K

\* Read back what encode_utf8 wrote; whatever is read is a string.
LEMMA Utf8RoundTrip ==
  ASSUME NEW text \in Seq(Character)
  PROVE  decode_utf8(encode_utf8(text)) = Ok(text) /\ encode_utf8(text) \in Seq(TextByte)
<1>1. Holds(Decoded(encode_utf8(text)), text, 0)
  BY RoundTrip
<1>2. LET end == Decoded(encode_utf8(text)) IN end.ok /\ end.text = text /\ end.lead = 0
  BY <1>1 DEF Holds
<1> QED BY <1>2, EncodedType DEF decode_utf8

LEMMA Utf8Reads ==
  ASSUME NEW bytes \in Seq(TextByte)
  PROVE  decode_utf8(bytes) = Refused
         \/ \E text \in Seq(Character) : decode_utf8(bytes) = Ok(text)
<1>1. Len(bytes) \in 0 .. Len(bytes)
  OBVIOUS
<1>2. Decoded(bytes) \in DecodeState
  BY <1>1, DecodedRun
<1>3. Decoded(bytes).ok => Decoded(bytes).text \in Seq(Character)
  BY <1>2 DEF DecodeState
<1> QED BY <1>3 DEF decode_utf8

LEMMA OkFields ==
  /\ \A value : Ok(value).ok /\ Ok(value).value = value
  /\ ~ Refused.ok
BY DEF Ok, Refused

LEMMA OkInjective ==
  ASSUME NEW u, NEW v, Ok(u) = Ok(v)
  PROVE  u = v
BY DEF Ok

\* The parts of a sequence put together.
LEMMA Parts ==
  ASSUME NEW S, NEW x \in Seq(S), NEW y \in Seq(S)
  PROVE  /\ x \o y \in Seq(S) /\ Len(x \o y) = Len(x) + Len(y)
         /\ SubSeq(x \o y, 1, Len(x)) = x
         /\ SubSeq(x \o y, Len(x) + 1, Len(x \o y)) = y
<1>1. PICK k \in Nat, m \in Nat : k = Len(x) /\ m = Len(y)
  BY LenProperties
<1>2. PICK z \in Seq(S) : z = x \o y
  BY ConcatProperties
<1>3. /\ Len(z) = k + m
      /\ \A i \in 1 .. k + m : z[i] = IF i <= k THEN x[i] ELSE y[i - k]
  BY <1>1, <1>2, ConcatProperties
<1>4. \A i \in 1 .. k + m : z[i] \in S
  BY <1>3, ElementOfSeq
<1>5. SubSeq(z, 1, k) = x
  <2>1. /\ SubSeq(z, 1, k) \in Seq(S) /\ Len(SubSeq(z, 1, k)) = k
        /\ \A i \in 1 .. k : SubSeq(z, 1, k)[i] = z[i]
    <3>1. \A i \in 1 .. k : z[i] \in S /\ 1 + i - 1 = i
      BY <1>4
    <3>2. k \in Int /\ 1 \in Int /\ (1 <= k \/ k = 0) /\ k - 1 + 1 = k
      OBVIOUS
    <3> QED BY <3>1, <3>2, SubSeqProperties
  <2>2. \A i \in 1 .. k : SubSeq(z, 1, k)[i] = x[i]
    BY <1>3, <2>1
  <2> QED BY <1>1, <2>1, <2>2, SeqEqual
<1>6. SubSeq(z, k + 1, k + m) = y
  <2>1. /\ SubSeq(z, k + 1, k + m) \in Seq(S) /\ Len(SubSeq(z, k + 1, k + m)) = m
        /\ \A i \in 1 .. m : SubSeq(z, k + 1, k + m)[i] = z[k + i]
    <3>1. \A i \in k + 1 .. k + m : z[i] \in S
      BY <1>4
    <3>2. k + 1 \in Int /\ k + m \in Int /\ (k + 1 <= k + m \/ m = 0)
          /\ k + m - (k + 1) + 1 = m /\ \A i \in 1 .. m : k + 1 + i - 1 = k + i
      OBVIOUS
    <3>3. /\ SubSeq(z, k + 1, k + m) \in Seq(S)
          /\ Len(SubSeq(z, k + 1, k + m)) = IF k + 1 <= k + m THEN k + m - (k + 1) + 1 ELSE 0
          /\ \A i \in 1 .. k + m - (k + 1) + 1 : SubSeq(z, k + 1, k + m)[i] = z[k + 1 + i - 1]
      BY <3>1, <3>2, SubSeqProperties
    <3> QED BY <3>2, <3>3
  <2>2. \A i \in 1 .. m : SubSeq(z, k + 1, k + m)[i] = y[i]
    <3> TAKE i \in 1 .. m
    <3>1. k + i \in 1 .. k + m /\ ~ (k + i <= k) /\ k + i - k = i
      OBVIOUS
    <3>2. z[k + i] = y[k + i - k]
      BY <1>3, <3>1
    <3> QED BY <2>1, <3>1, <3>2
  <2> QED BY <1>1, <2>1, <2>2, SeqEqual
<1> QED BY <1>1, <1>2, <1>3, <1>5, <1>6

Join(x, y) == x \o y

LEMMA JoinedType ==
  ASSUME NEW x \in Seq(TextByte), NEW y \in Seq(TextByte)
  PROVE  Join(x, y) \in Seq(TextByte)
BY ConcatProperties DEF Join

LEMMA Grouped ==
  ASSUME NEW x \in Seq(TextByte), NEW y \in Seq(TextByte), NEW w \in Seq(TextByte)
  PROVE  Join(Join(x, y), w) = Join(x, Join(y, w))
BY ConcatAssociative DEF Join

LEMMA NullType == Null \in Seq(TextByte) /\ Len(Null) = 1 /\ Null[1] = 0
BY DEF Null, TextByte

\* The part in front of the first null, and the part behind it.
LEMMA SplitJoined ==
  ASSUME NEW x \in Seq(TextByte), NoNull(x), NEW y \in Seq(TextByte)
  PROVE  SplitAtNull(Join(Join(x, Null), y)) = Ok([head |-> x, tail |-> y])
<1>1. PICK k \in Nat, m \in Nat : k = Len(x) /\ m = Len(y) /\ DOMAIN x = 1 .. k
  BY LenProperties
<1>2. Null \in Seq(TextByte) /\ Len(Null) = 1 /\ Null[1] = 0
  BY DEF Null, TextByte
<1>3. PICK front \in Seq(TextByte) : front = x \o Null
  BY <1>2, ConcatProperties
<1>4. Len(front) = k + 1 /\ \A i \in 1 .. k + 1 : front[i] = IF i <= k THEN x[i] ELSE Null[i - k]
  <2>1. /\ Len(x \o Null) = Len(x) + Len(Null)
        /\ \A i \in 1 .. Len(x) + Len(Null) :
             (x \o Null)[i] = IF i <= Len(x) THEN x[i] ELSE Null[i - Len(x)]
    BY <1>2, ConcatProperties
  <2> QED BY <1>1, <1>2, <1>3, <2>1
<1>5. PICK data \in Seq(TextByte) : data = front \o y
  BY ConcatProperties
<1>6. /\ Len(data) = k + 1 + m /\ DOMAIN data = 1 .. k + 1 + m
      /\ \A i \in 1 .. k + 1 + m : data[i] = IF i <= k + 1 THEN front[i] ELSE y[i - (k + 1)]
  <2>1. /\ Len(front \o y) = Len(front) + Len(y)
        /\ \A i \in 1 .. Len(front) + Len(y) :
             (front \o y)[i] = IF i <= Len(front) THEN front[i] ELSE y[i - Len(front)]
    BY ConcatProperties
  <2>2. DOMAIN data = 1 .. Len(data)
    BY LenProperties
  <2> QED BY <1>1, <1>4, <1>5, <2>1, <2>2
<1>7. /\ \A i \in 1 .. k : data[i] # 0
      /\ data[k + 1] = 0
  <2>1. \A i \in 1 .. k : x[i] # 0
    BY <1>1 DEF NoNull
  <2>2. k + 1 - k = 1
    OBVIOUS
  <2> QED BY <1>2, <1>4, <1>6, <2>1, <2>2
<1> DEFINE nulls == { i \in DOMAIN data : data[i] = 0 }
<1>8. k + 1 \in nulls /\ \A j \in nulls : j \in Nat /\ k + 1 <= j
  BY <1>6, <1>7
<1>9. (CHOOSE i \in nulls : \A j \in nulls : i <= j) = k + 1
  <2> HIDE DEF nulls
  <2>1. \A i \in nulls : (\A j \in nulls : i <= j) => i = k + 1
    BY <1>8
  <2> QED BY <1>8, <2>1
<1>10. SubSeq(data, 1, k + 1 - 1) = x
  <2>1. Null \o y \in Seq(TextByte) /\ data = x \o (Null \o y)
    BY <1>2, <1>3, <1>5, ConcatProperties, ConcatAssociative
  <2>2. SubSeq(data, 1, k) = x
    BY <1>1, <2>1, Parts
  <2>3. k + 1 - 1 = k
    OBVIOUS
  <2> QED BY <2>2, <2>3
<1>11. SubSeq(data, k + 1 + 1, Len(data)) = y
  BY <1>4, <1>5, Parts
<1>12. SplitAtNull(data) = Ok([head |-> SubSeq(data, 1, k + 1 - 1),
                               tail |-> SubSeq(data, k + 1 + 1, Len(data))])
  <2>1. nulls # {}
    BY <1>8
  <2>2. PICK null : null = CHOOSE i \in nulls : \A j \in nulls : i <= j
    OBVIOUS
  <2>3. SplitAtNull(data) =
          Ok([head |-> SubSeq(data, 1, null - 1), tail |-> SubSeq(data, null + 1, Len(data))])
    BY <2>1, <2>2 DEF SplitAtNull
  <2> HIDE DEF nulls
  <2>4. null = k + 1
    BY <1>9, <2>2
  <2> QED BY <2>3, <2>4
<1>13. Join(Join(x, Null), y) = data
  BY <1>3, <1>5 DEF Join
<1> QED BY <1>10, <1>11, <1>12, <1>13

LEMMA KeywordFound ==
  ASSUME NEW x \in Seq(TextByte), NoNull(x), NEW y \in Seq(TextByte), Len(x) \in 1 .. MaxKeyword
  PROVE  split_keyword(Join(Join(x, Null), y)) = Ok([head |-> x, tail |-> y])
<1>1. SplitAtNull(Join(Join(x, Null), y)) = Ok([head |-> x, tail |-> y])
  BY SplitJoined
<1>2. PICK s : s = [head |-> x, tail |-> y]
  OBVIOUS
<1>3. s.head = x
  BY <1>2
<1>4. SplitAtNull(Join(Join(x, Null), y)) = Ok(s) /\ Ok(s).ok /\ Ok(s).value = s
  BY <1>1, <1>2, OkFields
<1> QED BY <1>2, <1>3, <1>4 DEF split_keyword, AndThen

LEMMA Bytes256 ==
  ASSUME NEW text \in Seq(Character), AllBelow(text, 256)
  PROVE  text \in Seq(TextByte)
<1>1. PICK n \in Nat : n = Len(text) /\ DOMAIN text = 1 .. n /\ text \in [1 .. n -> Character]
  BY LenProperties
<1>2. \A i \in 1 .. n : text[i] \in TextByte
  <2> TAKE i \in 1 .. n
  <2>1. text[i] \in Character /\ text[i] < 256
    BY <1>1 DEF AllBelow
  <2>2. \A c \in Character : c < 256 => c \in TextByte
    BY DEF Character, TextByte
  <2> QED BY <2>1, <2>2
<1> QED BY <1>1, <1>2

LEMMA AnyBytesAreCharacters ==
  ASSUME NEW bytes \in Seq(TextByte)
  PROVE  bytes \in Seq(Character)
<1>1. TextByte \subseteq Character
  BY DEF Character, TextByte
<1> QED BY <1>1

LEMMA Inflated ==
  ASSUME NEW bytes \in Seq(TextByte)
  PROVE  compress(bytes) \in Seq(TextByte) /\ decompress_to_vec(compress(bytes)) = Ok(bytes)
<1>1. PICK header \in Seq(TextByte) : header = ZlibHeader /\ Len(header) = 2
  <2>1. 120 \in TextByte /\ 255 \in TextByte
    BY DEF TextByte
  <2>2. <<120, 255>> \in Seq(TextByte) /\ Len(<<120, 255>>) = 2
    BY <2>1
  <2> QED BY <2>2 DEF ZlibHeader
<1>2. PICK z \in Seq(TextByte) : z = header \o bytes
  BY ConcatProperties
<1>3. /\ Len(z) = 2 + Len(bytes) /\ Len(bytes) \in Nat
      /\ SubSeq(z, 1, 2) = ZlibHeader /\ SubSeq(z, 2 + 1, Len(z)) = bytes
  <2>1. /\ Len(header \o bytes) = Len(header) + Len(bytes)
        /\ SubSeq(header \o bytes, 1, Len(header)) = header
        /\ SubSeq(header \o bytes, Len(header) + 1, Len(header \o bytes)) = bytes
    BY Parts
  <2>2. Len(bytes) \in Nat
    BY LenProperties
  <2> QED BY <1>1, <1>2, <2>1, <2>2
<1>4. compress(bytes) = z
  BY <1>1, <1>2 DEF compress
<1>5. decompress_to_vec(z) = Ok(SubSeq(z, 3, Len(z)))
  <2>1. Len(z) >= 2
    BY <1>3
  <2> QED BY <1>3, <2>1 DEF decompress_to_vec
<1>6. 2 + 1 = 3
  OBVIOUS
<1> QED BY <1>3, <1>4, <1>5, <1>6

LEMMA InflatesTo ==
  ASSUME NEW bytes \in Seq(TextByte)
  PROVE  decompress_to_vec(bytes) = Refused
         \/ \E raw \in Seq(TextByte) : decompress_to_vec(bytes) = Ok(raw)
<1>1. ASSUME Len(bytes) >= 2 PROVE SubSeq(bytes, 3, Len(bytes)) \in Seq(TextByte)
  BY <1>1
<1> QED BY <1>1 DEF decompress_to_vec

------------------------------------------------------------------------------
(* What encode writes the parsers read.                                         *)

TextOf(type, text) ==
  IF text.compressed
  THEN AndThen(decompress_to_vec(text.value), LAMBDA raw : TextString(type, raw))
  ELSE Ok(text.value)

LEMMA TextOfChunk ==
  ASSUME NEW c
  PROVE  get_text(c) = TextOf(c.type, c.text)
BY DEF get_text, TextOf

LEMMA TextFields ==
  ASSUME NEW c \in TextType
  PROVE  /\ c.type \in {"tEXt", "zTXt", "iTXt"} /\ c.compressed \in BOOLEAN
         /\ c.keyword \in Seq(Character) /\ c.language_tag \in Seq(Character)
         /\ c.translated_keyword \in Seq(Character) /\ c.text.compressed \in BOOLEAN
         /\ c.text.compressed => c.text.value \in Seq(TextByte)
         /\ ~ c.text.compressed => c.text.value \in Seq(Character)
         /\ c.type # "iTXt" =>
              ~ c.compressed /\ c.language_tag = << >> /\ c.translated_keyword = << >>
         /\ c.type = "tEXt" => ~ c.text.compressed
<1>1. c.text \in Optional
  BY DEF TextType
<1>2. CASE c.text \in [compressed : {FALSE}, value : Seq(Character)]
  BY <1>2 DEF TextType
<1>3. CASE c.text \in [compressed : {TRUE}, value : Seq(TextByte)]
  BY <1>3 DEF TextType
<1> QED BY <1>1, <1>2, <1>3 DEF Optional

LEMMA TextWhole ==
  ASSUME NEW type, NEW value \in Seq(Character)
  PROVE  TextOf(type, Uncompressed(value)) = Ok(value)
         /\ Uncompressed(value) \in Optional /\ ~ Uncompressed(value).compressed
BY DEF TextOf, Uncompressed, Optional

LEMMA TextDeflated ==
  ASSUME NEW type, NEW bytes \in Seq(TextByte)
  PROVE  /\ TextOf(type, Compressed(compress(bytes))) = TextString(type, bytes)
         /\ compress(bytes) \in Seq(TextByte)
<1>1. compress(bytes) \in Seq(TextByte) /\ decompress_to_vec(compress(bytes)) = Ok(bytes)
  BY Inflated
<1>2. Compressed(compress(bytes)).compressed /\ Compressed(compress(bytes)).value = compress(bytes)
  BY DEF Compressed
<1> QED BY <1>1, <1>2, OkFields DEF TextOf, AndThen

LEMMA TextBytesRead ==
  ASSUME NEW type, NEW value \in Seq(Character), NEW r, r = TextBytes(type, value), r.ok
  PROVE  r.value \in Seq(TextByte) /\ TextString(type, r.value) = Ok(value)
<1>1. CASE type = "iTXt"
  <2>1. r = Ok(encode_utf8(value)) /\ r.value = encode_utf8(value)
    BY <1>1, OkFields DEF TextBytes
  <2> QED BY <1>1, <2>1, Utf8RoundTrip DEF TextString
<1>2. CASE type # "iTXt"
  <2>1. r = encode_iso_8859_1(value)
    BY <1>2 DEF TextBytes
  <2>2. AllBelow(value, 256) /\ r = Ok(value) /\ r.value = value
    BY <2>1, OkFields DEF encode_iso_8859_1
  <2> QED BY <1>2, <2>2, Bytes256 DEF TextString
<1> QED BY <1>1, <1>2

LEMMA CompressedTextRead ==
  ASSUME NEW c \in TextType, NEW r, r = CompressedText(c), r.ok
  PROVE  r.value \in Seq(TextByte) /\ TextOf(c.type, Compressed(r.value)) = get_text(c)
<1>1. CASE c.text.compressed
  <2>1. r = Ok(c.text.value) /\ r.value = c.text.value
    BY <1>1, OkFields DEF CompressedText
  <2>2. Compressed(r.value).compressed /\ Compressed(r.value).value = c.text.value
    BY <2>1 DEF Compressed
  <2>3. TextOf(c.type, Compressed(r.value)) = TextOf(c.type, c.text)
    BY <1>1, <2>2 DEF TextOf
  <2> QED BY <1>1, <2>1, <2>3, TextFields, TextOfChunk
<1>2. CASE ~ c.text.compressed
  <2>1. PICK b : b = TextBytes(c.type, c.text.value)
    OBVIOUS
  <2>2. r = AndThen(b, LAMBDA raw : Ok(compress(raw)))
    BY <1>2, <2>1 DEF CompressedText
  <2>3. b.ok /\ r = Ok(compress(b.value)) /\ r.value = compress(b.value)
    BY <2>2, OkFields DEF AndThen
  <2>4. b.value \in Seq(TextByte) /\ TextString(c.type, b.value) = Ok(c.text.value)
    BY <1>2, <2>1, <2>3, TextFields, TextBytesRead
  <2>5. get_text(c) = Ok(c.text.value)
    BY <1>2 DEF get_text
  <2> QED BY <2>3, <2>4, <2>5, TextDeflated
<1> QED BY <1>1, <1>2

LEMMA PlainTextRead ==
  ASSUME NEW c \in TextType, c.type = "iTXt", NEW r, r = PlainText(c), r.ok
  PROVE  r.value \in Seq(TextByte) /\ decode_utf8(r.value) = get_text(c)
<1>1. CASE c.text.compressed
  <2>1. r = decompress_to_vec(c.text.value)
    BY <1>1 DEF PlainText
  <2>2. c.text.value \in Seq(TextByte)
    BY <1>1, TextFields
  <2>3. PICK raw \in Seq(TextByte) : r = Ok(raw) /\ r.value = raw
    BY <2>1, <2>2, InflatesTo, OkFields
  <2>4. get_text(c) = TextString(c.type, raw)
    BY <1>1, <2>1, <2>3 DEF get_text, AndThen
  <2> QED BY <2>3, <2>4 DEF TextString
<1>2. CASE ~ c.text.compressed
  <2>1. r = TextBytes(c.type, c.text.value)
    BY <1>2 DEF PlainText
  <2>2. r.value \in Seq(TextByte) /\ TextString(c.type, r.value) = Ok(c.text.value)
    BY <1>2, <2>1, TextFields, TextBytesRead
  <2>3. get_text(c) = Ok(c.text.value)
    BY <1>2 DEF get_text
  <2> QED BY <2>2, <2>3 DEF TextString
<1> QED BY <1>1, <1>2

\* What Assemble puts in front of the text begins with the keyword and a null.
LEMMA Assembled ==
  ASSUME NEW c \in TextType, NEW header \in Seq(TextByte), NEW text, NEW e,
         text.ok => text.value \in Seq(TextByte), e = Assemble(c, header, text), e.ok
  PROVE  /\ text.ok /\ c.keyword \in Seq(TextByte) /\ Len(c.keyword) \in 1 .. MaxKeyword
         /\ e.value = Join(Join(c.keyword, Null), Join(header, text.value))
<1>1. PICK k : k = KeywordData(c)
  OBVIOUS
<1>2. e = IF k.ok THEN IF text.ok THEN Ok((k.value \o header) \o text.value) ELSE Refused ELSE Refused
  BY <1>1 DEF Assemble, AndThen
<1>3. k.ok /\ text.ok /\ e.value = (k.value \o header) \o text.value
  BY <1>2, OkFields
<1>4. PICK i : i = encode_iso_8859_1(c.keyword)
  OBVIOUS
<1>5. k = IF i.ok THEN IF Len(i.value) \in 1 .. MaxKeyword THEN Ok(i.value \o Null) ELSE Refused
          ELSE Refused
  BY <1>1, <1>4 DEF KeywordData, AndThen
<1>6. i.ok /\ Len(i.value) \in 1 .. MaxKeyword /\ k.value = i.value \o Null
  BY <1>3, <1>5, OkFields
<1>7. AllBelow(c.keyword, 256) /\ i = Ok(c.keyword) /\ i.value = c.keyword
  BY <1>4, <1>6, OkFields DEF encode_iso_8859_1
<1>8. c.keyword \in Seq(TextByte)
  BY <1>7, TextFields, Bytes256
<1>9. e.value = Join(Join(Join(c.keyword, Null), header), text.value)
  BY <1>3, <1>6, <1>7 DEF Join
<1>10. Join(c.keyword, Null) \in Seq(TextByte) /\ text.value \in Seq(TextByte)
  BY <1>3, <1>8, JoinedType, NullType
<1>11. e.value = Join(Join(c.keyword, Null), Join(header, text.value))
  BY <1>9, <1>10, Grouped
<1> QED BY <1>3, <1>6, <1>7, <1>8, <1>11

\* The same text with the same fields, whether compressed or not.
SameText(c, d) ==
  /\ d \in TextType
  /\ d.type = c.type /\ d.keyword = c.keyword /\ d.language_tag = c.language_tag
  /\ d.translated_keyword = c.translated_keyword
  /\ get_text(d) = get_text(c)

ReadsAs(c, r) == (get_text(c).ok => r.ok) /\ (r.ok => SameText(c, r.value))

LEMMA Rebuilt ==
  ASSUME NEW c \in TextType, NEW flag \in BOOLEAN, c.type # "iTXt" => ~ flag,
         NEW text \in Optional, c.type = "tEXt" => ~ text.compressed,
         TextOf(c.type, text) = get_text(c), NEW d,
         d = [type |-> c.type, keyword |-> c.keyword, compressed |-> flag,
              language_tag |-> c.language_tag, translated_keyword |-> c.translated_keyword,
              text |-> text]
  PROVE  SameText(c, d)
<1>1. /\ d.type = c.type /\ d.keyword = c.keyword /\ d.language_tag = c.language_tag
      /\ d.translated_keyword = c.translated_keyword /\ d.compressed = flag /\ d.text = text
  OBVIOUS
<1>2. d \in [type : {"tEXt", "zTXt", "iTXt"}, keyword : Seq(Character), compressed : BOOLEAN,
             language_tag : Seq(Character), translated_keyword : Seq(Character), text : Optional]
  BY TextFields
<1>3. d \in TextType
  <2>1. c.type # "iTXt" => c.language_tag = << >> /\ c.translated_keyword = << >>
    BY TextFields
  <2> QED BY <1>1, <1>2, <2>1 DEF TextType
<1>4. get_text(d) = TextOf(c.type, text)
  BY <1>1, TextOfChunk
<1> QED BY <1>1, <1>3, <1>4 DEF SameText

LEMMA SameAgain ==
  ASSUME NEW c, NEW d, NEW e, SameText(c, d), SameText(d, e)
  PROVE  SameText(c, e)
BY DEF SameText

LEMMA CompressedOptional ==
  ASSUME NEW bytes \in Seq(TextByte)
  PROVE  Compressed(bytes) \in Optional /\ Compressed(bytes).compressed
BY DEF Compressed, Optional

LEMMA PlainReads ==
  ASSUME NEW c \in TextType, c.type = "tEXt", Separable(c), NEW e, e = encode(c), e.ok
  PROVE  ReadsAs(c, parse(c.type, e.value))
<1>1. PICK b : b = TextBytes(c.type, c.text.value)
  OBVIOUS
<1>2. ~ c.text.compressed /\ c.text.value \in Seq(Character)
  BY TextFields
<1>3. b.ok => b = Ok(c.text.value) /\ b.value = c.text.value /\ b.value \in Seq(TextByte)
  <2>1. b = encode_iso_8859_1(c.text.value)
    BY <1>1 DEF TextBytes
  <2> QED BY <1>2, <2>1, Bytes256, OkFields DEF encode_iso_8859_1
<1>4. e = Assemble(c, << >>, b)
  BY <1>1 DEF encode
<1>5. /\ b.ok /\ c.keyword \in Seq(TextByte) /\ Len(c.keyword) \in 1 .. MaxKeyword
      /\ e.value = Join(Join(c.keyword, Null), Join(<< >>, b.value))
  <2>0. << >> \in Seq(TextByte)
    OBVIOUS
  <2>1. PICK header \in Seq(TextByte) : header = << >>
    BY <2>0
  <2>2. e = Assemble(c, header, b)
    BY <1>4, <2>1
  <2>3. /\ b.ok /\ c.keyword \in Seq(TextByte) /\ Len(c.keyword) \in 1 .. MaxKeyword
        /\ e.value = Join(Join(c.keyword, Null), Join(header, b.value))
    <3>1. b.ok => b.value \in Seq(TextByte)
      BY <1>3
    <3>2. header \in Seq(TextByte)
      BY <2>1
    <3> QED BY <2>2, <3>1, <3>2, Assembled
  <2> QED BY <2>1, <2>3
<1>6. Join(<< >>, b.value) = b.value
  BY <1>3, <1>5 DEF Join
<1>7. split_keyword(e.value) = Ok([head |-> c.keyword, tail |-> b.value])
  <2>1. NoNull(c.keyword)
    BY DEF Separable, NoNull
  <2> QED BY <1>3, <1>5, <1>6, <2>1, KeywordFound
<1>8. parse(c.type, e.value) = Ok(new_text("tEXt", c.keyword, c.text.value))
  <2>0. PICK s : s = [head |-> c.keyword, tail |-> b.value]
    OBVIOUS
  <2>1. s.head = c.keyword /\ s.tail = b.value
    BY <2>0
  <2>2. split_keyword(e.value) = Ok(s) /\ Ok(s).ok /\ Ok(s).value = s
    BY <1>7, <2>0, OkFields
  <2> QED BY <1>3, <1>5, <2>1, <2>2 DEF parse, AndThen
<1>9. SameText(c, new_text("tEXt", c.keyword, c.text.value))
  <2>1. PICK text : text = Uncompressed(c.text.value)
    OBVIOUS
  <2>2. text \in Optional /\ ~ text.compressed /\ TextOf(c.type, text) = Ok(c.text.value)
    BY <1>2, <2>1, TextWhole
  <2>3. get_text(c) = Ok(c.text.value)
    BY <1>2 DEF get_text
  <2>4. c.language_tag = << >> /\ c.translated_keyword = << >>
    BY TextFields
  <2>5. new_text("tEXt", c.keyword, c.text.value) =
          [type |-> c.type, keyword |-> c.keyword, compressed |-> FALSE,
           language_tag |-> c.language_tag, translated_keyword |-> c.translated_keyword,
           text |-> text]
    BY <2>1, <2>4 DEF new_text
  <2> QED BY <2>2, <2>3, <2>5, Rebuilt
<1> QED BY <1>8, <1>9, OkFields DEF ReadsAs

LEMMA ZeroBefore ==
  ASSUME NEW bytes \in Seq(TextByte)
  PROVE  LET z == Join(<<0>>, bytes) IN z # << >> /\ z[1] = 0 /\ Tail(z) = bytes /\ z \in Seq(TextByte)
<1>1. PICK n \in Nat : n = Len(bytes) /\ DOMAIN bytes = 1 .. n
  BY LenProperties
<1>2. <<0>> \in Seq(TextByte) /\ Len(<<0>>) = 1 /\ <<0>>[1] = 0
  BY DEF TextByte
<1>3. PICK one \in Seq(TextByte) : one = <<0>> /\ Len(one) = 1 /\ one[1] = 0
  BY <1>2
<1>4. PICK z \in Seq(TextByte) : z = one \o bytes
  BY ConcatProperties
<1>5. Len(z) = 1 + n /\ \A i \in 1 .. 1 + n : z[i] = IF i <= 1 THEN one[i] ELSE bytes[i - 1]
  BY <1>1, <1>3, <1>4, ConcatProperties
<1>6. z # << >> /\ z[1] = 0
  BY <1>3, <1>5
<1>7. Tail(z) = bytes
  <2>1. Tail(z) \in Seq(TextByte) /\ Len(Tail(z)) = n /\ \A i \in 1 .. n : Tail(z)[i] = z[i + 1]
    BY <1>5, <1>6, HeadTailProperties
  <2>2. \A i \in 1 .. n : Tail(z)[i] = bytes[i]
    <3> TAKE i \in 1 .. n
    <3>1. i + 1 \in 1 .. 1 + n /\ ~ (i + 1 <= 1) /\ i + 1 - 1 = i
      OBVIOUS
    <3>2. z[i + 1] = bytes[i + 1 - 1]
      BY <1>5, <3>1
    <3> QED BY <2>1, <3>1, <3>2
  <2> QED BY <1>1, <2>1, <2>2, SeqEqual
<1>8. Join(<<0>>, bytes) = z
  BY <1>3, <1>4 DEF Join
<1> QED BY <1>6, <1>7, <1>8

LEMMA DeflatedReads ==
  ASSUME NEW c \in TextType, c.type = "zTXt", Separable(c), NEW e, e = encode(c), e.ok
  PROVE  ReadsAs(c, parse(c.type, e.value))
<1>1. PICK b : b = CompressedText(c)
  OBVIOUS
<1>2. b.ok => b.value \in Seq(TextByte) /\ TextOf(c.type, Compressed(b.value)) = get_text(c)
  BY <1>1, CompressedTextRead
<1>3. e = Assemble(c, <<0>>, b)
  BY <1>1 DEF encode
<1>4. /\ b.ok /\ c.keyword \in Seq(TextByte) /\ Len(c.keyword) \in 1 .. MaxKeyword
      /\ e.value = Join(Join(c.keyword, Null), Join(<<0>>, b.value))
  <2>1. <<0>> \in Seq(TextByte)
    BY DEF TextByte
  <2>2. PICK header \in Seq(TextByte) : header = <<0>>
    BY <2>1
  <2>3. e = Assemble(c, header, b)
    BY <1>3, <2>2
  <2>4. /\ b.ok /\ c.keyword \in Seq(TextByte) /\ Len(c.keyword) \in 1 .. MaxKeyword
        /\ e.value = Join(Join(c.keyword, Null), Join(header, b.value))
    <3>1. b.ok => b.value \in Seq(TextByte)
      BY <1>2
    <3>2. header \in Seq(TextByte)
      BY <2>2
    <3> QED BY <2>3, <3>1, <3>2, Assembled
  <2> QED BY <2>2, <2>4
<1>5. PICK z \in Seq(TextByte) : /\ z = Join(<<0>>, b.value) /\ z # << >> /\ z[1] = 0
                                 /\ Tail(z) = b.value
  BY <1>2, <1>4, ZeroBefore
<1>6. split_keyword(e.value) = Ok([head |-> c.keyword, tail |-> z])
  <2>1. NoNull(c.keyword)
    BY DEF Separable, NoNull
  <2> QED BY <1>4, <1>5, <2>1, KeywordFound
<1> DEFINE d == [new_text("zTXt", c.keyword, << >>) EXCEPT !.text = Compressed(b.value)]
<1>7. parse(c.type, e.value) = Ok(d)
  <2>0. PICK s : s = [head |-> c.keyword, tail |-> z]
    OBVIOUS
  <2>1. s.head = c.keyword /\ s.tail = z
    BY <2>0
  <2>2. split_keyword(e.value) = Ok(s) /\ Ok(s).ok /\ Ok(s).value = s
    BY <1>6, <2>0, OkFields
  <2>3. parse(c.type, e.value) = decode_ztxt(c.keyword, z)
    BY <2>1, <2>2 DEF parse, AndThen
  <2> QED BY <1>5, <2>3 DEF decode_ztxt
<1>8. SameText(c, d)
  <2>1. PICK text : text = Compressed(b.value)
    OBVIOUS
  <2>2. text \in Optional /\ TextOf(c.type, text) = get_text(c)
    BY <1>2, <1>4, <2>1, CompressedOptional
  <2>3. c.language_tag = << >> /\ c.translated_keyword = << >>
    BY TextFields
  <2>4. d = [type |-> c.type, keyword |-> c.keyword, compressed |-> FALSE,
             language_tag |-> c.language_tag, translated_keyword |-> c.translated_keyword,
             text |-> text]
    <3>1. PICK n : n = new_text("zTXt", c.keyword, << >>)
      OBVIOUS
    <3>2. n = [type |-> c.type, keyword |-> c.keyword, compressed |-> FALSE,
               language_tag |-> << >>, translated_keyword |-> << >>,
               text |-> Uncompressed(<< >>)]
      BY <3>1 DEF new_text
    <3>3. d = [n EXCEPT !.text = text]
      BY <2>1, <3>1
    <3> HIDE DEF d
    <3> QED BY <2>3, <3>2, <3>3
  <2> QED BY <2>2, <2>4, Rebuilt
<1> HIDE DEF d
<1> QED BY <1>7, <1>8, OkFields DEF ReadsAs

\* Two bytes and the rest.
TwoBefore(whole, f, g, rest) ==
  /\ whole \in Seq(TextByte) /\ Len(whole) >= 2 /\ whole[1] = f /\ whole[2] = g
  /\ SubSeq(whole, 3, Len(whole)) = rest

LEMMA FirstTwo ==
  ASSUME NEW f \in TextByte, NEW g \in TextByte, NEW rest \in Seq(TextByte)
  PROVE  TwoBefore(Join(<<f, g>>, rest), f, g, rest)
<1>1. PICK n \in Nat : n = Len(rest)
  BY LenProperties
<1>2. <<f, g>> \in Seq(TextByte) /\ Len(<<f, g>>) = 2 /\ <<f, g>>[1] = f /\ <<f, g>>[2] = g
  OBVIOUS
<1>3. PICK two \in Seq(TextByte) : two = <<f, g>> /\ Len(two) = 2 /\ two[1] = f /\ two[2] = g
  BY <1>2
<1>4. PICK z \in Seq(TextByte) : z = two \o rest
  BY ConcatProperties
<1>5. Len(z) = 2 + n /\ \A i \in 1 .. 2 + n : z[i] = IF i <= 2 THEN two[i] ELSE rest[i - 2]
  BY <1>1, <1>3, <1>4, ConcatProperties
<1>6. Len(z) >= 2 /\ z[1] = f /\ z[2] = g
  BY <1>3, <1>5
<1>7. SubSeq(z, 2 + 1, Len(z)) = rest
  BY <1>3, <1>4, Parts
<1>8. 2 + 1 = 3
  OBVIOUS
<1>9. TwoBefore(z, f, g, rest)
  BY <1>6, <1>7, <1>8 DEF TwoBefore
<1>10. z = Join(<<f, g>>, rest)
  BY <1>3, <1>4 DEF Join
<1> QED BY <1>9, <1>10

LEMMA Regrouped ==
  ASSUME NEW two \in Seq(TextByte), NEW tag \in Seq(TextByte), NEW null \in Seq(TextByte),
         NEW translated \in Seq(TextByte), NEW bytes \in Seq(TextByte)
  PROVE  Join(Join(Join(Join(Join(two, tag), null), translated), null), bytes) =
           Join(two, Join(Join(tag, null), Join(Join(translated, null), bytes)))
<1> DEFINE d == Join(tag, null)
           b == Join(two, d)
           c == Join(translated, null)
<1>1. d \in Seq(TextByte) /\ c \in Seq(TextByte)
  BY JoinedType
<1>2. b \in Seq(TextByte) /\ Join(c, bytes) \in Seq(TextByte)
  BY <1>1, JoinedType
<1>3. Join(Join(two, tag), null) = b
  BY Grouped
<1> HIDE DEF b, c, d
<1>4. Join(Join(b, translated), null) = Join(b, c)
  BY <1>2, Grouped DEF c
<1>5. Join(Join(b, c), bytes) = Join(b, Join(c, bytes))
  BY <1>1, <1>2, Grouped
<1>6. Join(b, Join(c, bytes)) = Join(two, Join(d, Join(c, bytes)))
  BY <1>1, <1>2, Grouped DEF b
<1> QED BY <1>3, <1>4, <1>5, <1>6 DEF c, d

HeaderOf(two, tag, translated) == two \o tag \o Null \o translated \o Null

LEMMA HeaderJoined ==
  ASSUME NEW two \in Seq(TextByte), NEW tag \in Seq(TextByte), NEW translated \in Seq(TextByte),
         NEW bytes \in Seq(TextByte)
  PROVE  Join(HeaderOf(two, tag, translated), bytes) =
           Join(two, Join(Join(tag, Null), Join(Join(translated, Null), bytes)))
<1>1. HeaderOf(two, tag, translated) = Join(Join(Join(Join(two, tag), Null), translated), Null)
  BY DEF HeaderOf, Join
<1>2. Null \in Seq(TextByte)
  BY NullType
<1> QED BY <1>1, <1>2, Regrouped

\* The data of iTXt behind the keyword, taken apart at its nulls.
Splits(z, f, g, tag, translated, bytes) ==
  /\ Len(z) >= 2 /\ z[1] = f /\ z[2] = g
  /\ \E tail :
       /\ SplitAtNull(SubSeq(z, 3, Len(z))) = Ok([head |-> tag, tail |-> tail])
       /\ SplitAtNull(tail) = Ok([head |-> translated, tail |-> bytes])

LEMMA HeaderParts ==
  ASSUME NEW f \in TextByte, NEW g \in TextByte, NEW tag \in Seq(TextByte),
         NEW translated \in Seq(TextByte), NEW bytes \in Seq(TextByte),
         NoNull(tag), NoNull(translated), NEW z,
         z = Join(<<f, g>>, Join(Join(tag, Null), Join(Join(translated, Null), bytes)))
  PROVE  Splits(z, f, g, tag, translated, bytes)
<1>1. Null \in Seq(TextByte)
  BY NullType
<1> DEFINE tail == Join(Join(translated, Null), bytes)
           rest == Join(Join(tag, Null), tail)
<1>2. tail \in Seq(TextByte)
  BY <1>1, JoinedType
<1>3. rest \in Seq(TextByte)
  BY <1>1, <1>2, JoinedType
<1>4. z = Join(<<f, g>>, rest)
  OBVIOUS
<1>6. SplitAtNull(rest) = Ok([head |-> tag, tail |-> tail])
  <2> HIDE DEF tail
  <2> QED BY <1>2, SplitJoined
<1>7. SplitAtNull(tail) = Ok([head |-> translated, tail |-> bytes])
  BY SplitJoined
<1> HIDE DEF rest, tail
<1>5. TwoBefore(z, f, g, rest)
  BY <1>3, <1>4, FirstTwo
<1>8. /\ z \in Seq(TextByte) /\ Len(z) >= 2 /\ z[1] = f /\ z[2] = g
      /\ SubSeq(z, 3, Len(z)) = rest
  BY <1>5 DEF TwoBefore
<1> QED BY <1>6, <1>7, <1>8 DEF Splits

\* The text behind the header of iTXt, by flag.
ItxtText(flag, bytes) ==
  IF flag = 1 THEN Ok(Compressed(bytes))
  ELSE AndThen(decode_utf8(bytes), LAMBDA text : Ok(Uncompressed(text)))

LEMMA ItxtDecoded ==
  ASSUME NEW keyword, NEW z, NEW tag, NEW translated, NEW bytes, NEW tail, NEW second,
         SplitAtNull(SubSeq(z, 3, Len(z))) = Ok([head |-> tag, tail |-> tail]),
         SplitAtNull(tail) = Ok([head |-> translated, tail |-> bytes]),
         AllBelow(tag, 128), decode_utf8(translated) = Ok(second), NEW r,
         r = ItxtText(z[1], bytes)
  PROVE  decode_itxt(keyword, z) =
           IF r.ok
           THEN Ok([type |-> "iTXt", keyword |-> keyword, compressed |-> z[1] = 1,
                    language_tag |-> tag, translated_keyword |-> second, text |-> r.value])
           ELSE Refused
<1>1. PICK s : s = [head |-> tag, tail |-> tail]
  OBVIOUS
<1>2. PICK t : t = [head |-> translated, tail |-> bytes]
  OBVIOUS
<1>3. s.head = tag /\ s.tail = tail /\ t.head = translated /\ t.tail = bytes
  BY <1>1, <1>2
<1>4. SplitAtNull(SubSeq(z, 3, Len(z))) = Ok(s) /\ SplitAtNull(s.tail) = Ok(t)
  BY <1>1, <1>2, <1>3
<1>5. decode_ascii(s.head) = Ok(tag) /\ decode_utf8(t.head) = Ok(second)
  BY <1>3 DEF decode_ascii
<1>6. r = IF z[1] = 1 THEN Ok(Compressed(t.tail))
          ELSE AndThen(decode_utf8(t.tail), LAMBDA text : Ok(Uncompressed(text)))
  BY <1>3 DEF ItxtText
<1>7. \A v : Ok(v).ok /\ Ok(v).value = v
  BY OkFields
<1> QED BY <1>4, <1>5, <1>6, <1>7 DEF decode_itxt, AndThen

\* The text that the parser makes of the bytes of an iTXt chunk.
LEMMA ItxtTextRead ==
  ASSUME NEW c \in TextType, c.type = "iTXt", NEW flag, flag = IF c.compressed THEN 1 ELSE 0,
         NEW b, b = IF c.compressed THEN CompressedText(c) ELSE PlainText(c), b.ok, NEW r,
         r = ItxtText(flag, b.value)
  PROVE  /\ get_text(c).ok => r.ok
         /\ r.ok => r.value \in Optional /\ TextOf(c.type, r.value) = get_text(c)
<1>1. CASE c.compressed
  <2>1. b.value \in Seq(TextByte) /\ TextOf(c.type, Compressed(b.value)) = get_text(c)
    BY <1>1, CompressedTextRead
  <2>2. r = Ok(Compressed(b.value))
    BY <1>1 DEF ItxtText
  <2>3. r.ok /\ r.value = Compressed(b.value)
    BY <2>2, OkFields
  <2>4. Compressed(b.value) \in Optional
    BY <2>1, CompressedOptional
  <2> QED BY <2>1, <2>3, <2>4
<1>2. CASE ~ c.compressed
  <2>1. b.value \in Seq(TextByte) /\ decode_utf8(b.value) = get_text(c)
    BY <1>2, PlainTextRead
  <2>2. r = AndThen(get_text(c), LAMBDA text : Ok(Uncompressed(text)))
    <3>1. flag = 0
      BY <1>2
    <3> QED BY <2>1, <3>1 DEF ItxtText
  <2>3. CASE get_text(c) = Refused
    BY <2>2, <2>3, OkFields DEF AndThen
  <2>4. ASSUME NEW text \in Seq(Character), get_text(c) = Ok(text) PROVE r = Ok(Uncompressed(text))
    BY <2>2, <2>4, OkFields DEF AndThen
  <2>5. ASSUME NEW text \in Seq(Character), get_text(c) = Ok(text)
        PROVE  r.ok /\ r.value \in Optional /\ TextOf(c.type, r.value) = get_text(c)
    <3>1. r = Ok(Uncompressed(text))
      BY <2>4, <2>5
    <3>2. r.ok /\ r.value = Uncompressed(text)
      BY <3>1, OkFields
    <3> QED BY <2>5, <3>2, TextWhole
  <2>6. get_text(c) = Refused \/ \E text \in Seq(Character) : get_text(c) = Ok(text)
    BY <2>1, Utf8Reads
  <2> QED BY <2>3, <2>5, <2>6
<1> QED BY <1>1, <1>2

\* Keyword, header and text of an encoded iTXt chunk.
LEMMA InternationalParts ==
  ASSUME NEW c \in TextType, c.type = "iTXt", Separable(c), NEW e, e = encode(c), e.ok, NEW b,
         b = IF c.compressed THEN CompressedText(c) ELSE PlainText(c), NEW flag \in TextByte,
         flag = IF c.compressed THEN 1 ELSE 0
  PROVE  \E z, translated :
           /\ b.ok /\ AllBelow(c.language_tag, 128)
           /\ decode_utf8(translated) = Ok(c.translated_keyword)
           /\ split_keyword(e.value) = Ok([head |-> c.keyword, tail |-> z])
           /\ Splits(z, flag, 0, c.language_tag, translated, b.value)
<1> DEFINE translated == encode_utf8(c.translated_keyword)
           tag == c.language_tag
           header == InternationalHeader(c)
           z == Join(header, b.value)
<1>1. translated \in Seq(TextByte) /\ decode_utf8(translated) = Ok(c.translated_keyword)
  BY TextFields, Utf8RoundTrip
<1>2. NoNull(translated) /\ NoNull(tag) /\ NoNull(c.keyword)
  <2>1. NoNull(tag) /\ NoNull(c.keyword) /\ NoNull(c.translated_keyword)
    BY DEF Separable, NoNull
  <2> QED BY <2>1, TextFields, EncodedNulls
<1>3. AllBelow(tag, 128) /\ e = Assemble(c, header, b)
  <2>1. encode(c) = IF AllBelow(tag, 128) THEN Assemble(c, header, b) ELSE Refused
    BY DEF encode
  <2> QED BY <2>1, OkFields
<1>4. tag \in Seq(TextByte)
  <2>1. AllBelow(tag, 256)
    <3>1. DOMAIN tag = 1 .. Len(tag) /\ tag \in Seq(Character)
      BY TextFields
    <3>2. \A i \in DOMAIN tag : tag[i] \in Character
      BY <3>1
    <3>3. \A k \in Character : k < 128 => k < 256
      BY DEF Character
    <3> QED BY <1>3, <3>2, <3>3 DEF AllBelow
  <2> QED BY <2>1, TextFields, Bytes256
<1>5. 0 \in TextByte /\ Null \in Seq(TextByte)
  BY NullType DEF TextByte
<1>6. PICK two \in Seq(TextByte) : two = <<flag, 0>>
  <2>1. <<flag, 0>> \in Seq(TextByte)
    BY <1>5
  <2> QED BY <2>1
<1>7. header = HeaderOf(two, tag, translated)
  BY <1>6 DEF InternationalHeader, HeaderOf
<1>8. header \in Seq(TextByte)
  <2>1. Join(two, tag) \in Seq(TextByte)
    BY <1>4, <1>6, JoinedType
  <2>2. Join(Join(two, tag), Null) \in Seq(TextByte)
    BY <1>5, <2>1, JoinedType
  <2>3. Join(Join(Join(two, tag), Null), translated) \in Seq(TextByte)
    BY <1>1, <2>2, JoinedType
  <2>4. Join(Join(Join(Join(two, tag), Null), translated), Null) \in Seq(TextByte)
    BY <1>5, <2>3, JoinedType
  <2> QED BY <1>7, <2>4 DEF HeaderOf, Join
<1>9. b.ok => b.value \in Seq(TextByte)
  BY CompressedTextRead, PlainTextRead
<1> HIDE DEF translated, tag, header
<1>10. /\ b.ok /\ c.keyword \in Seq(TextByte) /\ Len(c.keyword) \in 1 .. MaxKeyword
       /\ e.value = Join(Join(c.keyword, Null), z)
  BY <1>3, <1>8, <1>9, Assembled
<1>11. z \in Seq(TextByte)
  BY <1>8, <1>9, <1>10, JoinedType
<1>12. z = Join(<<flag, 0>>, Join(Join(tag, Null), Join(Join(translated, Null), b.value)))
  <2>1. two \in Seq(TextByte) /\ b.value \in Seq(TextByte)
    BY <1>6, <1>9, <1>10
  <2>2. Join(HeaderOf(two, tag, translated), b.value) =
          Join(two, Join(Join(tag, Null), Join(Join(translated, Null), b.value)))
    BY <1>1, <1>4, <2>1, HeaderJoined
  <2> QED BY <1>6, <1>7, <2>2 DEF z
<1> HIDE DEF z
<1>13. split_keyword(e.value) = Ok([head |-> c.keyword, tail |-> z])
  BY <1>2, <1>10, <1>11, KeywordFound
<1>14. Splits(z, flag, 0, tag, translated, b.value)
  <2>1. PICK g : g = 0
    OBVIOUS
  <2>2. g \in TextByte /\ b.value \in Seq(TextByte)
    BY <1>5, <1>9, <1>10, <2>1
  <2>3. z = Join(<<flag, g>>, Join(Join(tag, Null), Join(Join(translated, Null), b.value)))
    BY <1>12, <2>1
  <2>4. Splits(z, flag, g, tag, translated, b.value)
    BY <1>1, <1>2, <1>4, <2>2, <2>3, HeaderParts
  <2> QED BY <2>1, <2>4
<1>15. Splits(z, flag, 0, c.language_tag, translated, b.value) /\ AllBelow(c.language_tag, 128)
  BY <1>3, <1>14 DEF tag
<1> QED BY <1>1, <1>10, <1>13, <1>15

LEMMA InternationalReads ==
  ASSUME NEW c \in TextType, c.type = "iTXt", Separable(c), NEW e, e = encode(c), e.ok
  PROVE  ReadsAs(c, parse(c.type, e.value))
<1>1. PICK flag \in TextByte : flag = IF c.compressed THEN 1 ELSE 0
  <2>1. 0 \in TextByte /\ 1 \in TextByte
    BY DEF TextByte
  <2> QED BY <2>1
<1>2. PICK b : b = IF c.compressed THEN CompressedText(c) ELSE PlainText(c)
  OBVIOUS
<1>0. PICK z, translated :
        /\ b.ok /\ AllBelow(c.language_tag, 128)
        /\ decode_utf8(translated) = Ok(c.translated_keyword)
        /\ split_keyword(e.value) = Ok([head |-> c.keyword, tail |-> z])
        /\ Splits(z, flag, 0, c.language_tag, translated, b.value)
  BY <1>1, <1>2, InternationalParts
<1>3. PICK tail :
        /\ Len(z) >= 2 /\ z[1] = flag /\ z[2] = 0
        /\ SplitAtNull(SubSeq(z, 3, Len(z))) = Ok([head |-> c.language_tag, tail |-> tail])
        /\ SplitAtNull(tail) = Ok([head |-> translated, tail |-> b.value])
  BY <1>0 DEF Splits
<1>4. PICK r : r = ItxtText(flag, b.value)
  OBVIOUS
<1>5. /\ get_text(c).ok => r.ok
      /\ r.ok => r.value \in Optional /\ TextOf(c.type, r.value) = get_text(c)
  BY <1>0, <1>1, <1>2, <1>4, ItxtTextRead
<1> DEFINE d == [type |-> c.type, keyword |-> c.keyword, compressed |-> c.compressed,
                 language_tag |-> c.language_tag, translated_keyword |-> c.translated_keyword,
                 text |-> r.value]
<1>6. parse(c.type, e.value) = IF r.ok THEN Ok(d) ELSE Refused
  <2>1. PICK s : s = [head |-> c.keyword, tail |-> z]
    OBVIOUS
  <2>2. s.head = c.keyword /\ s.tail = z
    BY <2>1
  <2>3. split_keyword(e.value) = Ok(s) /\ Ok(s).ok /\ Ok(s).value = s
    BY <1>0, <2>1, OkFields
  <2>4. Len(z) >= 2 /\ z[1] \in {0, 1} /\ (z[1] = 1 => z[2] = 0) /\ (z[1] = 1) = c.compressed
    <3>1. c.compressed \in BOOLEAN
      BY TextFields
    <3> QED BY <1>1, <1>3, <3>1
  <2>5. parse(c.type, e.value) = decode_itxt(c.keyword, z)
    BY <2>2, <2>3, <2>4 DEF parse, AndThen
  <2>6. r = ItxtText(z[1], b.value)
    BY <1>3, <1>4
  <2>7. decode_itxt(c.keyword, z) =
          IF r.ok
          THEN Ok([type |-> "iTXt", keyword |-> c.keyword, compressed |-> z[1] = 1,
                   language_tag |-> c.language_tag, translated_keyword |-> c.translated_keyword,
                   text |-> r.value])
          ELSE Refused
    BY <1>0, <1>3, <2>6, ItxtDecoded
  <2> QED BY <2>4, <2>5, <2>7
<1>7. r.ok => SameText(c, d)
  BY <1>5, TextFields, Rebuilt
<1> HIDE DEF d
<1> QED BY <1>5, <1>6, <1>7, OkFields DEF ReadsAs

LEMMA EncodedReads ==
  ASSUME NEW c \in TextType, Separable(c), NEW e, e = encode(c), e.ok
  PROVE  ReadsAs(c, parse(c.type, e.value))
BY PlainReads, DeflatedReads, InternationalReads, TextFields

LEMMA SameSeparable ==
  ASSUME NEW c, NEW d, SameText(c, d), Separable(c)
  PROVE  Separable(d)
BY DEF SameText, Separable

\* The same fields around another form of the text.
LEMMA OtherText ==
  ASSUME NEW c \in TextType, NEW text \in Optional, c.type = "tEXt" => ~ text.compressed,
         TextOf(c.type, text) = get_text(c)
  PROVE  SameText(c, [c EXCEPT !.text = text])
<1>1. c.compressed \in BOOLEAN /\ (c.type # "iTXt" => ~ c.compressed)
  BY TextFields
<1>2. [c EXCEPT !.text = text] =
        [type |-> c.type, keyword |-> c.keyword, compressed |-> c.compressed,
         language_tag |-> c.language_tag, translated_keyword |-> c.translated_keyword,
         text |-> text]
  BY DEF TextType
<1> QED BY <1>1, <1>2, Rebuilt

LEMMA CompressSame ==
  ASSUME NEW c \in TextType, c.type # "tEXt", NEW r, r = compress_text(c), r.ok
  PROVE  SameText(c, r.value)
<1>1. PICK b : b = CompressedText(c)
  OBVIOUS
<1>2. r = IF b.ok THEN Ok([c EXCEPT !.text = Compressed(b.value)]) ELSE Refused
  BY <1>1 DEF compress_text, AndThen
<1>3. b.ok /\ r.value = [c EXCEPT !.text = Compressed(b.value)]
  BY <1>2, OkFields
<1>4. b.value \in Seq(TextByte) /\ TextOf(c.type, Compressed(b.value)) = get_text(c)
  BY <1>1, <1>3, CompressedTextRead
<1>5. Compressed(b.value) \in Optional
  BY <1>4, CompressedOptional
<1> QED BY <1>3, <1>4, <1>5, OtherText

LEMMA DecompressSame ==
  ASSUME NEW c \in TextType, NEW limit, NEW r, r = decompress_text_with_limit(c, limit), r.ok
  PROVE  SameText(c, r.value)
<1>1. CASE ~ c.text.compressed
  <2>1. r.value = c
    BY <1>1, OkFields DEF decompress_text_with_limit
  <2> QED BY <2>1 DEF SameText
<1>2. CASE c.text.compressed
  <2>1. c.text.value \in Seq(TextByte)
    BY <1>2, TextFields
  <2>2. PICK i : i = decompress_to_vec(c.text.value)
    OBVIOUS
  <2>3. PICK t : t = TextString(c.type, i.value)
    OBVIOUS
  <2>4. r = IF i.ok
            THEN IF Len(i.value) > limit THEN Refused
                 ELSE IF t.ok THEN Ok([c EXCEPT !.text = Uncompressed(t.value)]) ELSE Refused
            ELSE Refused
    BY <1>2, <2>2, <2>3 DEF decompress_text_with_limit, AndThen
  <2>5. i.ok /\ t.ok /\ r.value = [c EXCEPT !.text = Uncompressed(t.value)]
    BY <2>4, OkFields
  <2>6. i.value \in Seq(TextByte)
    BY <2>1, <2>2, <2>5, InflatesTo, OkFields
  <2>7. PICK text \in Seq(Character) : t = Ok(text) /\ t.value = text
    <3>1. CASE c.type = "iTXt"
      <4>1. t = decode_utf8(i.value)
        BY <2>3, <3>1 DEF TextString
      <4>2. \E text \in Seq(Character) : t = Ok(text)
        BY <2>5, <2>6, <4>1, Utf8Reads, OkFields
      <4> QED BY <4>2, OkFields
    <3>2. CASE c.type # "iTXt"
      <4>1. t = Ok(i.value)
        BY <2>3, <3>2 DEF TextString
      <4> QED BY <2>6, <4>1, AnyBytesAreCharacters, OkFields
    <3> QED BY <3>1, <3>2
  <2>8. get_text(c) = t
    BY <1>2, <2>2, <2>3, <2>5 DEF get_text, AndThen
  <2>9. /\ TextOf(c.type, Uncompressed(text)) = Ok(text)
        /\ Uncompressed(text) \in Optional /\ ~ Uncompressed(text).compressed
    BY <2>7, TextWhole
  <2>10. SameText(c, [c EXCEPT !.text = Uncompressed(text)])
    BY <2>7, <2>8, <2>9, OtherText
  <2> QED BY <2>5, <2>7, <2>10
<1> QED BY <1>1, <1>2

\* One call on the chunk, or one assignment, leaves its text and the other fields as they are.
LEMMA WorkedSame ==
  ASSUME NEW c \in TextType, Separable(c), NEW limits, NEW d \in Worked(c, limits)
  PROVE  SameText(c, d)
<1> DEFINE e == encode(c)
<1>1. \/ d = c
      \/ c.type = "iTXt" /\ d = [c EXCEPT !.compressed = ~ @]
      \/ c.type # "tEXt" /\ \E r : /\ r.ok /\ d = r.value
                                   /\ \/ r = compress_text(c)
                                      \/ \E l \in limits : r = decompress_text_with_limit(c, l)
                                      \/ e.ok /\ r = parse(c.type, e.value)
  BY DEF Worked
<1>2. CASE d = c
  BY <1>2 DEF SameText
<1>3. CASE c.type = "iTXt" /\ d = [c EXCEPT !.compressed = ~ @]
  <2>1. PICK flag \in BOOLEAN : flag = ~ c.compressed
    OBVIOUS
  <2>2. d = [type |-> c.type, keyword |-> c.keyword, compressed |-> flag,
             language_tag |-> c.language_tag, translated_keyword |-> c.translated_keyword,
             text |-> c.text]
    BY <1>3, <2>1 DEF TextType
  <2>3. c.text \in Optional /\ TextOf(c.type, c.text) = get_text(c)
    BY TextOfChunk DEF TextType
  <2> QED BY <1>3, <2>1, <2>2, <2>3, Rebuilt
<1>4. ASSUME c.type # "tEXt", NEW r, r.ok, d = r.value,
             \/ r = compress_text(c)
             \/ \E l \in limits : r = decompress_text_with_limit(c, l)
             \/ e.ok /\ r = parse(c.type, e.value)
      PROVE  SameText(c, d)
  <2>1. CASE r = compress_text(c)
    BY <1>4, <2>1, CompressSame
  <2>2. CASE \E l \in limits : r = decompress_text_with_limit(c, l)
    BY <1>4, <2>2, DecompressSame
  <2>3. CASE e.ok /\ r = parse(c.type, e.value)
    BY <1>4, <2>3, EncodedReads DEF ReadsAs
  <2> QED BY <1>4, <2>1, <2>2, <2>3
<1> QED BY <1>1, <1>2, <1>3, <1>4

LEMMA PreparedSame ==
  ASSUME NEW c \in TextType, Separable(c), NEW limits, NEW d \in Prepared(c, limits)
  PROVE  SameText(c, d) /\ Separable(d) /\ d \in TextType
<1>1. PICK b \in Worked(c, limits) : d \in Worked(b, limits)
  BY DEF Prepared
<1>2. SameText(c, b)
  BY <1>1, WorkedSame
<1>3. b \in TextType /\ Separable(b)
  BY <1>2, SameSeparable DEF SameText
<1>4. SameText(b, d)
  BY <1>1, <1>3, WorkedSame
<1>5. SameText(c, d)
  BY <1>2, <1>4, SameAgain
<1> QED BY <1>5, SameSeparable DEF SameText

\* Whatever was made of a chunk, what is written is read as the chunk was given.
LEMMA PreparedReads ==
  ASSUME NEW given \in TextType, Separable(given), NEW limits, NEW c \in Prepared(given, limits),
         NEW e, e = encode(c), e.ok
  PROVE  ReadsAs(given, parse(given.type, e.value))
<1>1. SameText(given, c) /\ Separable(c) /\ c \in TextType
  BY PreparedSame
<1>2. PICK r : r = parse(given.type, e.value)
  OBVIOUS
<1>3. ReadsAs(c, r)
  BY <1>1, <1>2, EncodedReads DEF SameText
<1>4. get_text(c) = get_text(given)
  BY <1>1 DEF SameText
<1>5. r.ok => SameText(given, r.value)
  BY <1>1, <1>3, SameAgain DEF ReadsAs
<1> QED BY <1>2, <1>3, <1>4, <1>5 DEF ReadsAs

LEMMA TextWritten ==
  ASSUME NEW c \in ChunkType, IsText(c)
  PROVE  \E given \in Texts : \E form \in Prepared(given, TextLimits) :
           /\ c.given = given /\ c.type = given.type
           /\ encode(form).ok /\ c.text = encode(form).value
<1>1. c \in WrittenTexts
  <2>1. CASE c \in [type : ChunkTypes, image : Nat, seq : Nat \cup {NoSeq}, frame : FrameControl,
                    data : Seq(Nat)]
    <3>1. "given" \notin DOMAIN c
      BY <2>1
    <3> QED BY <3>1 DEF IsText
  <2> QED BY <2>1 DEF ChunkType
<1>2. PICK text \in Encoded : text.data.ok /\ c = TextChunk(text.given, text.data.value)
  BY <1>1 DEF WrittenTexts
<1>3. PICK given \in Texts : \E form \in Prepared(given, TextLimits) :
        text = [given |-> given, data |-> encode(form)]
  BY <1>2 DEF Encoded
<1>6. PICK form \in Prepared(given, TextLimits) : text = [given |-> given, data |-> encode(form)]
  BY <1>3
<1>4. c.given = text.given /\ c.type = text.given.type /\ c.text = text.data.value
  BY <1>2 DEF TextChunk
<1>5. text.given = given /\ text.data = encode(form)
  BY <1>6
<1> QED BY <1>2, <1>3, <1>4, <1>5, <1>6

\* Whatever the strings, and whatever a program makes of a text chunk before it writes it: the
\* parser gives the fields and the text back, and refuses no chunk whose text could be read.
THEOREM TextsAreRecovered == BuffersHoldData /\ Spec => []TextsRecovered
<1>1. IInv => TextsRecovered
  <2> SUFFICES ASSUME IInv, NEW i \in DOMAIN out, IsText(out[i]), Separable(out[i].given), NEW read,
                      read = parse(out[i].type, out[i].text)
               PROVE  /\ get_text(out[i].given).ok => read.ok
                      /\ read.ok =>
                           /\ read.value.keyword = out[i].given.keyword
                           /\ read.value.language_tag = out[i].given.language_tag
                           /\ read.value.translated_keyword = out[i].given.translated_keyword
                           /\ get_text(read.value) = get_text(out[i].given)
    BY DEF TextsRecovered
  <2>1. PICK c \in ChunkType : c = out[i]
    BY WriterTyped
  <2>0. PICK given \in Texts : \E form \in Prepared(given, TextLimits) :
          /\ c.given = given /\ c.type = given.type
          /\ encode(form).ok /\ c.text = encode(form).value
    BY <2>1, TextWritten
  <2>2. PICK form \in Prepared(given, TextLimits) :
          /\ c.given = given /\ c.type = given.type
          /\ encode(form).ok /\ c.text = encode(form).value
    BY <2>0
  <2>3. given \in TextType /\ Separable(given)
    BY <2>0, <2>1, <2>2, WriterAssumption
  <2>4. PICK e : e = encode(form)
    OBVIOUS
  <2>5. e.ok /\ read = parse(given.type, e.value)
    BY <2>1, <2>2, <2>4
  <2>6. ReadsAs(given, read)
    BY <2>2, <2>3, <2>4, <2>5, PreparedReads
  <2> QED BY <2>1, <2>2, <2>6 DEF ReadsAs, SameText
<1> QED BY <1>1, Invariance, PTL

------------------------------------------------------------------------------
(* The header.  The encoder writes its chunks in the order of Place, whatever is *)
(* left out; no two have the same place.                                         *)

Place ==
  [IHDR |-> 0, pHYs |-> 1, sRGB |-> 2, gAMA |-> 3, cHRM |-> 4, iCCP |-> 5, eXIf |-> 6,
   acTL |-> 7, PLTE |-> 8, tRNS |-> 9, tEXt |-> 10, zTXt |-> 10, iTXt |-> 10]

InPlace(file) ==
  /\ file \in Seq(ChunkType)
  /\ \A i \in 1 .. Len(file) : file[i].type \in DOMAIN Place
  /\ \A i, j \in 1 .. Len(file) : i < j => Place[file[i].type] < Place[file[j].type]

IsHeader(file) == InPlace(file) /\ Len(file) > 0 /\ file[1].type = "IHDR"

\* Before the first image the file is such a header.
HeaderInv == user = "writer" /\ image = 0 => IsHeader(out)

LEMMA Places ==
  /\ DOMAIN Place = {"IHDR", "pHYs", "sRGB", "gAMA", "cHRM", "iCCP", "eXIf", "acTL", "PLTE",
                     "tRNS"} \cup Decoder!TextTypes
  /\ Place["IHDR"] = 0 /\ Place["pHYs"] = 1 /\ Place["sRGB"] = 2 /\ Place["gAMA"] = 3
  /\ Place["cHRM"] = 4 /\ Place["iCCP"] = 5 /\ Place["eXIf"] = 6 /\ Place["acTL"] = 7
  /\ Place["PLTE"] = 8 /\ Place["tRNS"] = 9
  /\ \A type \in Decoder!TextTypes : Place[type] = 10
  /\ \A type \in DOMAIN Place : Place[type] \in Nat
BY DEF Place, Decoder!TextTypes

\* All chunks of the file have their place in front of that of a type.
Before(file, type) ==
  InPlace(file) /\ \A i \in 1 .. Len(file) : Place[file[i].type] < Place[type]

LEMMA PlacedNext ==
  ASSUME NEW file, NEW c \in ChunkType, c.type \in DOMAIN Place, Before(file, c.type)
  PROVE  InPlace(Append(file, c))
<1> DEFINE longer == Append(file, c)
           N == Len(file)
<1>1. /\ file \in Seq(ChunkType) /\ N \in Nat /\ longer \in Seq(ChunkType)
      /\ Len(longer) = N + 1 /\ longer[N + 1] = c
      /\ \A i \in 1 .. N : longer[i] = file[i]
  BY DEF Before, InPlace
<1> HIDE DEF longer, N
<1>2. /\ \A i \in 1 .. N : /\ file[i].type \in DOMAIN Place
                           /\ Place[file[i].type] < Place[c.type]
      /\ \A i, j \in 1 .. N : i < j => Place[file[i].type] < Place[file[j].type]
  BY DEF Before, InPlace, N
<1>3. ASSUME NEW i \in 1 .. N + 1 PROVE longer[i].type \in DOMAIN Place
  <2>1. CASE i = N + 1
    BY <1>1, <2>1
  <2>2. CASE i # N + 1
    <3>1. i \in 1 .. N
      BY <1>1, <2>2
    <3> QED BY <1>1, <1>2, <3>1
  <2> QED BY <2>1, <2>2
<1>4. ASSUME NEW i \in 1 .. N + 1, NEW j \in 1 .. N + 1, i < j
      PROVE  Place[longer[i].type] < Place[longer[j].type]
  <2>1. i \in 1 .. N
    BY <1>1, <1>4
  <2>2. CASE j = N + 1
    BY <1>1, <1>2, <2>1, <2>2
  <2>3. CASE j # N + 1
    <3>1. j \in 1 .. N
      BY <1>1, <2>3
    <3> QED BY <1>1, <1>2, <1>4, <2>1, <3>1
  <2> QED BY <2>2, <2>3
<1> QED BY <1>1, <1>3, <1>4 DEF InPlace, longer

LEMMA PlainPlaced ==
  ASSUME NEW type \in {"IHDR", "pHYs", "sRGB", "gAMA", "cHRM", "iCCP", "eXIf", "acTL", "PLTE",
                       "tRNS", "tEXt"}
  PROVE  Plain(type) \in ChunkType /\ Plain(type).type = type /\ type \in DOMAIN Place
<1>1. type \in PlainTypes
  BY DEF PlainTypes, ChunkTypes
<1>2. type \in DOMAIN Place
  BY Places DEF Decoder!TextTypes
<1> QED BY <1>1, <1>2, PlainFacts

LEMMA OneTyped ==
  ASSUME NEW type \in {"IHDR", "pHYs", "sRGB", "gAMA", "cHRM", "iCCP", "eXIf", "acTL", "PLTE",
                       "tRNS", "tEXt"},
         NEW rest, rest = << >> \/ rest = << Plain(type) >>
  PROVE  rest \in Seq(ChunkType)
<1>1. PICK c \in ChunkType : c = Plain(type)
  BY PlainPlaced
<1>2. rest = << >> \/ rest = << c >>
  BY <1>1
<1>3. << >> \in Seq(ChunkType) /\ << c >> \in Seq(ChunkType)
  OBVIOUS
<1> QED BY <1>2, <1>3

LEMMA ChunksJoined ==
  ASSUME NEW x \in Seq(ChunkType), NEW y \in Seq(ChunkType)
  PROVE  Join(x, y) \in Seq(ChunkType)
BY ConcatProperties DEF Join

LEMMA ChunksGrouped ==
  ASSUME NEW x \in Seq(ChunkType), NEW y \in Seq(ChunkType), NEW w \in Seq(ChunkType)
  PROVE  Join(Join(x, y), w) = Join(x, Join(y, w))
BY ConcatAssociative DEF Join

\* A chunk that may be left out.
LEMMA MaybePlaced ==
  ASSUME NEW file, NEW type \in {"pHYs", "sRGB", "gAMA", "cHRM", "iCCP", "eXIf", "acTL", "PLTE",
                                 "tRNS", "tEXt"},
         IsHeader(file), Before(file, type),
         NEW rest, rest = << >> \/ rest = << Plain(type) >>
  PROVE  /\ IsHeader(Join(file, rest))
         /\ \A other \in DOMAIN Place :
               Place[type] < Place[other] => Before(Join(file, rest), other)
<1> DEFINE longer == Join(file, rest)
           c == Plain(type)
<1>1. c \in ChunkType /\ c.type = type /\ type \in DOMAIN Place
  BY PlainPlaced
<1>2. /\ file \in Seq(ChunkType) /\ Len(file) \in Nat
      /\ Len(file) > 0 /\ file[1].type = "IHDR"
  BY DEF IsHeader, InPlace
<1>3. rest = << >> \/ rest = << c >>
  OBVIOUS
<1> HIDE DEF c
<1>4. longer = file \/ longer = Append(file, c)
  <2>1. file \o << >> = file
    BY <1>2, ConcatEmptySeq
  <2>2. file \o << c >> = Append(file, c)
    BY <1>1, <1>2, AppendIsConcat
  <2> QED BY <1>3, <2>1, <2>2 DEF Join
<1> HIDE DEF longer
<1>5. ASSUME NEW other \in DOMAIN Place, Place[type] < Place[other]
      PROVE  \A i \in 1 .. Len(file) : Place[file[i].type] < Place[other]
  <2> TAKE i \in 1 .. Len(file)
  <2>1. Place[file[i].type] < Place[type] /\ file[i].type \in DOMAIN Place
    BY DEF Before, InPlace
  <2>2. Place[file[i].type] \in Nat /\ Place[type] \in Nat /\ Place[other] \in Nat
    BY <1>1, <2>1, Places
  <2> QED BY <1>5, <2>1, <2>2
<1>6. CASE longer = file
  <2>1. \A other \in DOMAIN Place : Place[type] < Place[other] => Before(file, other)
    BY <1>5 DEF Before
  <2> QED BY <1>6, <2>1 DEF longer
<1>7. CASE longer = Append(file, c)
  <2>1. /\ Len(longer) = Len(file) + 1 /\ longer[Len(file) + 1] = c
        /\ \A i \in 1 .. Len(file) : longer[i] = file[i]
    BY <1>1, <1>2, <1>7
  <2>2. InPlace(longer)
    BY <1>1, <1>7, PlacedNext
  <2>3. IsHeader(longer)
    BY <1>2, <2>1, <2>2 DEF IsHeader
  <2>4. ASSUME NEW other \in DOMAIN Place, Place[type] < Place[other]
        PROVE  Before(longer, other)
    <3>1. ASSUME NEW i \in 1 .. Len(longer) PROVE Place[longer[i].type] < Place[other]
      <4>1. CASE i = Len(file) + 1
        BY <1>1, <2>1, <2>4, <4>1
      <4>2. CASE i # Len(file) + 1
        <5>1. i \in 1 .. Len(file)
          BY <1>2, <2>1, <4>2
        <5> QED BY <1>5, <2>1, <2>4, <5>1
      <4> QED BY <4>1, <4>2
    <3> QED BY <2>2, <3>1 DEF Before
  <2> QED BY <2>3, <2>4 DEF longer
<1> QED BY <1>4, <1>6, <1>7 DEF longer

\* The colour chunks: the three of sRGB, or those of a profile.
LEMMA ColorsPlaced ==
  ASSUME NEW file, NEW info, IsHeader(file), Before(file, "sRGB")
  PROVE  /\ IsHeader(Join(file, ColorChunks(info)))
         /\ Before(Join(file, ColorChunks(info)), "eXIf")
<1> DEFINE One(rest, type) == rest = << >> \/ rest = << Plain(type) >>
<1>1. /\ "gAMA" \in DOMAIN Place /\ "cHRM" \in DOMAIN Place /\ "iCCP" \in DOMAIN Place
      /\ "eXIf" \in DOMAIN Place /\ "sRGB" \in DOMAIN Place
      /\ Place["sRGB"] < Place["gAMA"] /\ Place["gAMA"] < Place["cHRM"]
      /\ Place["cHRM"] < Place["iCCP"] /\ Place["iCCP"] < Place["eXIf"]
      /\ Place["cHRM"] < Place["eXIf"]
  BY Places
<1>2. Before(file, "gAMA")
  <2>1. /\ InPlace(file)
        /\ \A i \in 1 .. Len(file) : /\ file[i].type \in DOMAIN Place
                                     /\ Place[file[i].type] < Place["sRGB"]
    BY DEF Before, InPlace
  <2>2. \A type \in DOMAIN Place : Place[type] \in Nat
    BY Places
  <2>3. \A i \in 1 .. Len(file) : Place[file[i].type] < Place["gAMA"]
    BY <1>1, <2>1, <2>2
  <2> QED BY <2>1, <2>3 DEF Before
<1>3. ASSUME NEW a, One(a, "sRGB"), NEW b, One(b, "gAMA"), NEW c, One(c, "cHRM"),
             NEW d, One(d, "iCCP"), a = << >> \/ d = << >>
      PROVE  /\ IsHeader(Join(Join(Join(Join(file, a), b), c), d))
             /\ Before(Join(Join(Join(Join(file, a), b), c), d), "eXIf")
  <2> DEFINE f1 == Join(file, a)
             f2 == Join(f1, b)
             f3 == Join(f2, c)
  <2>1. IsHeader(f1) /\ Before(f1, "gAMA")
    BY <1>1, <1>3, MaybePlaced
  <2> HIDE DEF f1
  <2>2. IsHeader(f2) /\ Before(f2, "cHRM")
    BY <1>1, <1>3, <2>1, MaybePlaced
  <2> HIDE DEF f2
  <2>3. IsHeader(f3) /\ Before(f3, "iCCP")
    BY <1>1, <1>3, <2>2, MaybePlaced
  <2> HIDE DEF f3
  <2>4. IsHeader(Join(f3, d)) /\ Before(Join(f3, d), "eXIf")
    BY <1>1, <1>3, <2>3, MaybePlaced
  <2> QED BY <2>4 DEF f1, f2, f3
<1>4. file \in Seq(ChunkType)
  BY DEF IsHeader, InPlace
<1>5. \E a, b, c, d : /\ One(a, "sRGB") /\ One(b, "gAMA") /\ One(c, "cHRM") /\ One(d, "iCCP")
                      /\ a = << >> \/ d = << >>
                      /\ ColorChunks(info) = a \o b \o c \o d
  <2>1. CASE "sRGB" \in info
    <3> DEFINE a == << Plain("sRGB") >>
               b == If("gAMA" \in info /\ "substitutes" \in info, "gAMA")
               c == If("cHRM" \in info /\ "substitutes" \in info, "cHRM")
    <3>1. One(a, "sRGB") /\ One(b, "gAMA") /\ One(c, "cHRM")
      <4>1. One(a, "sRGB")
        OBVIOUS
      <4>2. One(b, "gAMA")
        BY DEF If
      <4>3. One(c, "cHRM")
        BY DEF If
      <4> QED BY <4>1, <4>2, <4>3
    <3>2. ColorChunks(info) = a \o b \o c
      BY <2>1 DEF ColorChunks
    <3>3. a \o b \o c = a \o b \o c \o << >>
      <4> HIDE DEF a, b, c
      <4>1. a \in Seq(ChunkType) /\ b \in Seq(ChunkType) /\ c \in Seq(ChunkType)
        BY <3>1, OneTyped
      <4>2. a \o b \o c \in Seq(ChunkType)
        BY <4>1
      <4> QED BY <4>2, ConcatEmptySeq
    <3>4. One(<< >>, "iCCP") /\ << >> = << >>
      OBVIOUS
    <3> HIDE DEF a, b, c
    <3> QED BY <3>1, <3>2, <3>3, <3>4
  <2>2. CASE "sRGB" \notin info
    <3> DEFINE b == If("gAMA" \in info, "gAMA")
               c == If("cHRM" \in info, "cHRM")
               d == If("iCCP" \in info, "iCCP")
    <3>1. One(b, "gAMA") /\ One(c, "cHRM") /\ One(d, "iCCP")
      <4>1. One(b, "gAMA")
        BY DEF If
      <4>2. One(c, "cHRM")
        BY DEF If
      <4>3. One(d, "iCCP")
        BY DEF If
      <4> QED BY <4>1, <4>2, <4>3
    <3>2. ColorChunks(info) = b \o c \o d
      BY <2>2 DEF ColorChunks
    <3>3. b \o c \o d = << >> \o b \o c \o d
      <4> HIDE DEF b, c, d
      <4>1. b \in Seq(ChunkType)
        BY <3>1, OneTyped
      <4>2. << >> \o b = b
        BY <4>1, ConcatEmptySeq
      <4> QED BY <4>2
    <3>4. One(<< >>, "sRGB") /\ << >> = << >>
      OBVIOUS
    <3> HIDE DEF b, c, d
    <3> QED BY <3>1, <3>2, <3>3, <3>4
  <2> QED BY <2>1, <2>2
<1>6. PICK a, b, c, d : /\ One(a, "sRGB") /\ One(b, "gAMA") /\ One(c, "cHRM") /\ One(d, "iCCP")
                        /\ a = << >> \/ d = << >>
                        /\ ColorChunks(info) = a \o b \o c \o d
  BY <1>5
<1>7. /\ a \in Seq(ChunkType) /\ b \in Seq(ChunkType) /\ c \in Seq(ChunkType)
      /\ d \in Seq(ChunkType)
  BY <1>6, OneTyped
<1>8. Join(file, ColorChunks(info)) = Join(Join(Join(Join(file, a), b), c), d)
  <2>1. ColorChunks(info) = Join(Join(Join(a, b), c), d)
    BY <1>6 DEF Join
  <2>2. PICK ab \in Seq(ChunkType) : ab = Join(a, b)
    BY <1>7, ChunksJoined
  <2>3. PICK abc \in Seq(ChunkType) : abc = Join(ab, c)
    BY <1>7, ChunksJoined
  <2>4. /\ Join(Join(file, abc), d) = Join(file, Join(abc, d))
        /\ Join(Join(file, ab), c) = Join(file, Join(ab, c))
        /\ Join(Join(file, a), b) = Join(file, Join(a, b))
    BY <1>4, <1>7, ChunksGrouped
  <2> QED BY <2>1, <2>2, <2>3, <2>4
<1> QED BY <1>3, <1>6, <1>8

LEMMA HeaderInOrder ==
  ASSUME NEW info, NEW w
  PROVE  IsHeader(encode_header(info, animated(w)))
<1> DEFINE One(rest, type) == rest = << >> \/ rest = << Plain(type) >>
           first == << Plain("IHDR") >>
           f1 == Join(first, If("pHYs" \in info, "pHYs"))
           f2 == Join(f1, ColorChunks(info))
           f3 == Join(f2, If("eXIf" \in info, "eXIf"))
           f4 == Join(f3, If(animated(w), "acTL"))
           f5 == Join(f4, If("PLTE" \in info, "PLTE"))
           f6 == Join(f5, If("tRNS" \in info, "tRNS"))
           f7 == Join(f6, If("tEXt" \in info, "tEXt"))
<1>1. encode_header(info, animated(w)) = f7
  BY DEF encode_header, Join
<1>2. {"pHYs", "sRGB", "eXIf", "acTL", "PLTE", "tRNS", "tEXt"} \subseteq DOMAIN Place
  BY Places DEF Decoder!TextTypes
<1>3. /\ Place["IHDR"] < Place["pHYs"] /\ Place["pHYs"] < Place["sRGB"]
      /\ Place["eXIf"] < Place["acTL"] /\ Place["acTL"] < Place["PLTE"]
      /\ Place["PLTE"] < Place["tRNS"] /\ Place["tRNS"] < Place["tEXt"]
  BY Places DEF Decoder!TextTypes
<1>4. IsHeader(first) /\ Before(first, "pHYs")
  <2>1. /\ Plain("IHDR") \in ChunkType /\ Plain("IHDR").type = "IHDR"
        /\ "IHDR" \in DOMAIN Place
    BY PlainPlaced
  <2>2. first \in Seq(ChunkType) /\ Len(first) = 1 /\ first[1] = Plain("IHDR")
    BY <2>1
  <2> HIDE DEF first
  <2>3. \A i \in 1 .. Len(first) : first[i].type = "IHDR" /\ i = 1
    BY <2>1, <2>2
  <2> QED BY <1>3, <2>1, <2>2, <2>3 DEF IsHeader, InPlace, Before
<1> HIDE DEF first
<1>5. IsHeader(f1) /\ Before(f1, "sRGB")
  <2>1. One(If("pHYs" \in info, "pHYs"), "pHYs")
    BY DEF If
  <2> QED BY <1>2, <1>3, <1>4, <2>1, MaybePlaced
<1> HIDE DEF f1
<1>6. IsHeader(f2) /\ Before(f2, "eXIf")
  BY <1>5, ColorsPlaced
<1> HIDE DEF f2
<1>7. IsHeader(f3) /\ Before(f3, "acTL")
  <2>1. One(If("eXIf" \in info, "eXIf"), "eXIf")
    BY DEF If
  <2> QED BY <1>2, <1>3, <1>6, <2>1, MaybePlaced
<1> HIDE DEF f3
<1>8. IsHeader(f4) /\ Before(f4, "PLTE")
  <2>1. One(If(animated(w), "acTL"), "acTL")
    BY DEF If
  <2> QED BY <1>2, <1>3, <1>7, <2>1, MaybePlaced
<1> HIDE DEF f4
<1>9. IsHeader(f5) /\ Before(f5, "tRNS")
  <2>1. One(If("PLTE" \in info, "PLTE"), "PLTE")
    BY DEF If
  <2> QED BY <1>2, <1>3, <1>8, <2>1, MaybePlaced
<1> HIDE DEF f5
<1>10. IsHeader(f6) /\ Before(f6, "tEXt")
  <2>1. One(If("tRNS" \in info, "tRNS"), "tRNS")
    BY DEF If
  <2> QED BY <1>2, <1>3, <1>9, <2>1, MaybePlaced
<1> HIDE DEF f6
<1>11. IsHeader(f7)
  <2>1. One(If("tEXt" \in info, "tEXt"), "tEXt")
    BY DEF If
  <2> QED BY <1>10, <2>1, MaybePlaced
<1> QED BY <1>1, <1>11

\* What is left of a call is the state s.
LEMMA HeaderNext ==
  ASSUME NEW s, Become(s), user' = "writer" /\ s.image = 0 => IsHeader(s.out)
  PROVE  HeaderInv'
BY DEF HeaderInv, Become

LEMMA HeaderReturn ==
  ASSUME NEW S, NEW holder, Return(S, holder),
         \A s \in S : holder = "writer" /\ s.image = 0 => IsHeader(s.out)
  PROVE  HeaderInv'
<1>1. PICK s \in S : Become(s) /\ result' = s.result
  BY DEF Return
<1>2. user' = holder
  BY DEF Return
<1> QED BY <1>1, <1>2, HeaderNext

LEMMA ErrorFields ==
  ASSUME NEW m, m \in State
  PROVE  /\ Err(m).result = "err" /\ Err(m).out = m.out /\ Err(m).image = m.image
         /\ Fail(m).result = "err" /\ Fail(m).out = m.out /\ Fail(m).image = m.image
BY DEF Err, Fail, State

LEMMA WriteHeaderInOrder ==
  ASSUME IInv, NEW info, WriteHeader(info)
  PROVE  HeaderInv'
<1> DEFINE chunks == encode_header(info, animated(Here.writer))
<1>1. user = "encoder" /\ Here.out = << >> /\ Here \in State /\ Here.result = "ok"
  BY HereFields DEF WriteHeader, IInv, Sound
<1>2. PICK m \in init(Here, info) :
        IF m.result = "ok" THEN Return({m}, "writer")
        ELSE Return({ [d EXCEPT !.result = "err"] : d \in drop_writer([m EXCEPT !.result = "ok"]) },
                    "gone")
  BY DEF WriteHeader
<1>3. CASE m.result = "ok"
  <2>1. m # Err(Here)
    BY <1>1, <1>3, ErrorFields
  <2>2. PICK x \in WriteChunks(Here, chunks) :
          m \in IF x.result = "ok" THEN (IF "unencodable" \in info THEN {Err(x)} ELSE {x})
                ELSE {x}
    BY <1>2, <2>1 DEF init, Then
  <2>3. IsHeader(chunks) /\ chunks \in Seq(ChunkType)
    BY HeaderInOrder DEF IsHeader, InPlace
  <2> HIDE DEF chunks
  <2>4. PICK n \in 0 .. Len(chunks) :
          x = IF n = Len(chunks) THEN Behind(Here, chunks, n)
              ELSE Fail(Behind(Here, chunks, n))
    BY <2>2 DEF WriteChunks, Behind, First
  <2> DEFINE b == Behind(Here, chunks, n)
  <2>5. b = [Here EXCEPT !.out = Here.out \o First(chunks, n)]
    BY DEF Behind
  <2>6. First(chunks, n) \in Seq(ChunkType)
    BY <2>3, FirstFacts DEF First
  <2>7. Here.out \o First(chunks, n) = First(chunks, n)
    BY <1>1, <2>6, ConcatEmptySeq
  <2> HIDE DEF b
  <2>8. b \in State /\ b.out = First(chunks, n)
    BY <1>1, <2>5, <2>6, <2>7 DEF State
  <2>9. m = b /\ n = Len(chunks)
    <3>1. x = b \/ x = Fail(b)
      BY <2>4 DEF b
    <3>2. (x = b /\ n = Len(chunks)) \/ (x = Fail(b) /\ x.result = "err")
      BY <2>4, <2>8, <3>1, ErrorFields DEF b
    <3>3. x = b => Err(x).result = "err"
      BY <2>8, ErrorFields
    <3> QED BY <1>3, <2>2, <3>2, <3>3
  <2>10. First(chunks, Len(chunks)) = chunks
    BY <2>3, FirstFacts
  <2>11. IsHeader(m.out)
    BY <2>3, <2>8, <2>9, <2>10
  <2> QED BY <1>2, <1>3, <2>11, HeaderReturn
<1>4. CASE m.result # "ok"
  <2> DEFINE S == { [d EXCEPT !.result = "err"] : d \in drop_writer([m EXCEPT !.result = "ok"]) }
  <2>1. Return(S, "gone")
    BY <1>2, <1>4
  <2> HIDE DEF S
  <2> QED BY <2>1, HeaderReturn
<1> QED BY <1>3, <1>4

LEMMA WriteImageDataInOrder ==
  ASSUME IInv, HeaderInv, NEW size \in CompressedSizes, WriteImageData(size)
  PROVE  HeaderInv'
<1> DEFINE S == IF validate_new_image(writer) THEN write_image_data(Here, size) ELSE {Err(Here)}
<1>1. user = "writer" /\ Return(S, "writer")
  BY DEF WriteImageData
<1>2. /\ Live(Here) /\ Here.stream = NoStream /\ Here.result = "ok" /\ Here \in State
      /\ Here.out = out /\ Here.image = image
  BY <1>1, HeldWriter, HereFields, WriterTyped
<1>3. ASSUME NEW s \in S PROVE s.image = 0 => IsHeader(s.out)
  <2>1. CASE validate_new_image(writer)
    <3>1. s \in write_image_data(Here, size)
      BY <2>1
    <3> QED BY <1>2, <3>1, ImageWritten
  <2>2. CASE ~ validate_new_image(writer)
    <3>1. s = Err(Here)
      BY <2>2
    <3>2. s.out = out /\ s.image = image
      BY <1>2, <3>1, ErrorFields
    <3> QED BY <1>1, <3>2 DEF HeaderInv
  <2> QED BY <2>1, <2>2
<1> HIDE DEF S
<1> QED BY <1>1, <1>3, HeaderReturn

\* A text goes behind IHDR.
LEMMA WriteTextChunkInOrder ==
  ASSUME IInv, HeaderInv, NEW text \in Encoded, WriteTextChunk(text)
  PROVE  HeaderInv'
<1> DEFINE c == TextChunk(text.given, text.data.value)
           S == IF text.data.ok THEN WriteChunk(Here, c) ELSE {Err(Here)}
<1>1. user = "writer" /\ Return(S, "writer") /\ Len(out) = 1
  BY DEF WriteTextChunk
<1>2. Here \in State /\ Here.out = out /\ Here.image = image
  BY HereFields, WriterTyped
<1>3. text.data.ok => c \in ChunkType /\ c.type \in Decoder!TextTypes
  <2>1. text.given.type \in {"tEXt", "zTXt", "iTXt"} /\ c.type = text.given.type
    BY WriterAssumption DEF Encoded, TextChunk, TextType
  <2>2. text.data.ok => c \in ChunkType
    BY DEF ChunkType, WrittenTexts
  <2> QED BY <2>1, <2>2 DEF Decoder!TextTypes
<1> HIDE DEF c
<1>4. image = 0 => IsHeader(out)
  BY <1>1 DEF HeaderInv
<1>5. ASSUME image = 0, text.data.ok PROVE IsHeader(Append(out, c))
  <2>1. out \in Seq(ChunkType) /\ InPlace(out) /\ out[1].type = "IHDR"
    BY <1>4, <1>5 DEF IsHeader, InPlace
  <2>2. c \in ChunkType /\ c.type \in DOMAIN Place /\ Place[c.type] = 10 /\ Place["IHDR"] = 0
    BY <1>3, <1>5, Places
  <2>3. Before(out, c.type)
    BY <1>1, <2>1, <2>2 DEF Before
  <2>4. InPlace(Append(out, c))
    BY <2>2, <2>3, PlacedNext
  <2>5. Len(Append(out, c)) = 2 /\ Append(out, c)[1] = out[1]
    <3>1. PICK k \in ChunkType : k = c
      BY <2>2
    <3>2. Len(out) = 1
      BY <1>1
    <3>3. Len(Append(out, k)) = 2 /\ Append(out, k)[1] = out[1]
      <4>1. out \in Seq(ChunkType) /\ k \in ChunkType
        BY <2>1, <3>1
      <4>2. /\ Len(Append(out, k)) = Len(out) + 1
            /\ \A i \in 1 .. Len(out) : Append(out, k)[i] = out[i]
        BY <4>1, AppendProperties
      <4> QED BY <3>2, <4>2
    <3> QED BY <3>1, <3>3
  <2> QED BY <2>1, <2>4, <2>5 DEF IsHeader
<1>6. ASSUME NEW s \in S PROVE s.image = 0 => IsHeader(s.out)
  <2>1. CASE text.data.ok
    <3>1. s = Appended(Here, c) \/ s = Fail(Here)
      BY <2>1 DEF WriteChunk, Appended
    <3>2. s.image = image /\ (s.out = Append(out, c) \/ s.out = out)
      BY <1>2, <3>1 DEF Appended, Fail, State
    <3> QED BY <1>4, <1>5, <2>1, <3>2
  <2>2. CASE ~ text.data.ok
    <3>1. s = Err(Here)
      BY <2>2
    <3>2. s.out = out /\ s.image = image
      BY <1>2, <3>1, ErrorFields
    <3> QED BY <1>4, <3>2
  <2> QED BY <2>1, <2>2
<1> HIDE DEF S
<1> QED BY <1>1, <1>6, HeaderReturn

\* A stream that could not be opened leaves its image begun.
LEMMA OpenStreamInOrder ==
  ASSUME IInv, NEW size \in BufLens, NEW owned \in BOOLEAN, OpenStream(size, owned)
  PROVE  HeaderInv'
<1>1. user = "writer"
  BY DEF OpenStream
<1>2. Live(Here) /\ Here.stream = NoStream /\ Here.result = "ok"
  BY <1>1, HeldWriter
<1>3. PICK x \in new(Here, size) :
        IF x.result # "err" THEN ReturnStreaming({x}, IF owned THEN "owned" ELSE "borrowed")
        ELSE \E d \in drop_chunk_writer({x}) :
               LET left == [d EXCEPT !.stream = NoStream] IN
               ReturnStreaming({ [e EXCEPT !.result = "err"] :
                                   e \in IF owned THEN drop_writer(left) ELSE {left} },
                               IF owned THEN "gone" ELSE "writer")
  BY DEF OpenStream
<1>a. BuffersHoldData /\ Ends(x)
  <2>1. BuffersHoldData
    BY DEF IInv
  <2> QED BY <1>2, <1>3, <2>1, StreamBegun
<1>4. CASE x.result = "ok"
  <2>1. user' \in {"owned", "borrowed", "gone"}
    BY <1>3, <1>4 DEF ReturnStreaming
  <2> QED BY <2>1 DEF HeaderInv
<1>5. CASE x.result # "ok"
  <2>1. PICK d \in drop_chunk_writer({x}) :
          ReturnStreaming({ [e EXCEPT !.result = "err"] :
                              e \in IF owned THEN drop_writer([d EXCEPT !.stream = NoStream])
                                    ELSE {[d EXCEPT !.stream = NoStream]} },
                          IF owned THEN "gone" ELSE "writer")
    BY <1>a, <1>3, <1>5 DEF Ends
  <2> DEFINE left == [d EXCEPT !.stream = NoStream]
  <2>2. CASE owned
    <3>1. user' = "gone"
      BY <2>1, <2>2 DEF ReturnStreaming
    <3> QED BY <3>1 DEF HeaderInv
  <2>3. CASE ~ owned
    <3>1. Live(left) /\ left.image # 0
      BY <1>a, <1>2, StreamNotBegun
    <3>2. ReturnStreaming({[left EXCEPT !.result = "err"]}, "writer")
      BY <2>1, <2>3
    <3> HIDE DEF left
    <3>3. image' = left.image
      <4>1. [left EXCEPT !.result = "err"].image = left.image
        BY <3>1 DEF Live, Sound, State
      <4> QED BY <3>2, <4>1 DEF ReturnStreaming, Become
    <3> QED BY <3>1, <3>3 DEF HeaderInv
  <2> QED BY <2>2, <2>3
<1> QED BY <1>4, <1>5

LEMMA HeaderKept ==
  ASSUME IInv, HeaderInv, [Next]_vars
  PROVE  HeaderInv'
<1>1. CASE UNCHANGED vars
  BY <1>1 DEF vars, HeaderInv
<1>2. CASE image # 0
  <2>1. image' # 0
    BY <1>1, <1>2, EveryStep DEF Advances, vars
  <2> QED BY <2>1 DEF HeaderInv
<1>3. CASE Streaming
  BY <1>2, <1>3 DEF IInv
<1>4. CASE Next /\ ~ Streaming
  <2>1. CASE \E size \in BufLens, owned \in BOOLEAN : OpenStream(size, owned)
    BY <2>1, OpenStreamInOrder
  <2>2. CASE WriterNext
    <3>1. CASE Finish \/ Drop
      <4>1. user' = "gone"
        BY <3>1 DEF Finish, Drop, Return
      <4> QED BY <4>1 DEF HeaderInv
    <3>2. CASE ~ (Finish \/ Drop) /\ out' = out /\ image' = image /\ user' = user
      BY <3>2 DEF HeaderInv
    <3>3. CASE \E info \in Infos : WriteHeader(info)
      BY <3>3, WriteHeaderInOrder
    <3>4. CASE \E size \in CompressedSizes : WriteImageData(size)
      BY <3>4, WriteImageDataInOrder
    <3>5. CASE \E text \in Encoded : WriteTextChunk(text)
      BY <3>5, WriteTextChunkInOrder
    <3> QED BY <2>2, <3>1, <3>2, <3>3, <3>4, <3>5
         DEF WriterNext, SetAnimated, SetSepDefImg, ValidateSequence, SetDeflateCompression,
             SetFrameDimension, SetFramePosition, ResetFrameDimension, ResetFramePosition, Set
  <2> QED BY <1>4, <2>1, <2>2 DEF Next, Write, Flush, FinishStream, DropStream,
       SetStreamedDimension, SetStreamedPosition, ResetStreamedDimension, ResetStreamedPosition,
       SetStreamed
<1> QED BY <1>1, <1>3, <1>4

\* Whichever metadata and texts Info has and wherever the sink failed: as long as the
\* Writer has begun no image, the file is IHDR and chunks in the order of encode_header.
THEOREM HeadersInOrder == BuffersHoldData /\ Spec => []HeaderInv
<1>1. Init => HeaderInv
  BY DEF Init, WriterInit, HeaderInv
<1>2. IInv /\ HeaderInv /\ [Next]_vars => HeaderInv'
  BY HeaderKept
<1> QED BY <1>1, <1>2, Invariance, PTL DEF Spec

------------------------------------------------------------------------------
(* The parser on such a header, and what it makes of the types in it.            *)

\* Transparency without its palette.
Orphan(given) == IF "PLTE" \in given THEN {} ELSE {"tRNS"} \cap given

Entries(given) ==
  [t \in Decoder!MetaTypes |-> IF t \in given \ Orphan(given) THEN 1 ELSE Decoder!Absent]

TextsIn(given) == IF given \cap Decoder!TextTypes = {} THEN 0 ELSE 256

InfoOf(meta, texts) ==
  [color |-> "Indexed", meta |-> meta, texts |-> texts, frame_control |-> Decoder!NoFrameControl]

Parsed(given) == [refused |-> Orphan(given), info |-> InfoOf(Entries(given), TextsIn(given))]

LEMMA InfoFields ==
  ASSUME NEW meta, NEW texts
  PROVE  /\ InfoOf(meta, texts).color = "Indexed" /\ InfoOf(meta, texts).meta = meta
         /\ InfoOf(meta, texts).texts = texts /\ InfoOf(meta, texts) # Decoder!NoInfo
<1>1. Decoder!NoInfo.color = "none"
  BY DEF Decoder!NoInfo
<1> QED BY <1>1 DEF InfoOf

LEMMA ReadFields ==
  ASSUME NEW chunk
  PROVE  /\ AsRead(chunk).type = chunk.type /\ AsRead(chunk).length = 256 /\ AsRead(chunk).valid
         /\ AsRead(chunk).value = 1 /\ AsRead(chunk).color = "Indexed"
BY DEF AsRead

\* The chunk begins the header.
LEMMA HeaderRead ==
  ASSUME NEW chunk, chunk.type = "IHDR"
  PROVE  Follow(Start, chunk) = Parsed({"IHDR"})
<1> DEFINE empty == [t \in Decoder!MetaTypes |-> Decoder!Absent]
<1>1. Decoder!parse_ihdr(AsRead(chunk), Decoder!NoInfo, Limit)
        = Decoder!Result("Ok", InfoOf(empty, 0), Limit)
  BY ReadFields DEF Decoder!parse_ihdr, InfoOf
<1>2. ReadChunk(chunk, Decoder!NoInfo) = Decoder!Result("Ok", InfoOf(empty, 0), Limit)
  BY <1>1, ReadFields DEF ReadChunk
<1>3. Entries({"IHDR"}) = empty /\ TextsIn({"IHDR"}) = 0 /\ Orphan({"IHDR"}) = {}
  BY DEF Entries, TextsIn, Orphan, Decoder!MetaTypes, Decoder!TextTypes
<1> HIDE DEF empty
<1>4. Follow(Start, chunk) = [refused |-> {}, info |-> InfoOf(empty, 0)]
  BY <1>2 DEF Follow, Start, Decoder!Result
<1> QED BY <1>3, <1>4 DEF Parsed

\* A chunk that an Info has no entry for yet.
LEMMA EntryFilled ==
  ASSUME NEW given, NEW type \in Decoder!MetaTypes, type \notin given,
         type = "PLTE" => "tRNS" \notin given,
         type = "tRNS" => "PLTE" \in given
  PROVE  /\ [Entries(given) EXCEPT ![type] = 1] = Entries(given \cup {type})
         /\ Orphan(given \cup {type}) = Orphan(given)
<1>1. Orphan(given \cup {type}) = Orphan(given)
  BY DEF Orphan
<1>2. type \notin Orphan(given)
  BY DEF Orphan
<1> QED BY <1>1, <1>2 DEF Entries

LEMMA MetaRead ==
  ASSUME NEW chunk, NEW given,
         chunk.type \in {"pHYs", "sRGB", "gAMA", "cHRM", "iCCP", "eXIf", "acTL", "PLTE", "tRNS"},
         chunk.type \notin given,
         chunk.type = "PLTE" => "tRNS" \notin given,
         chunk.type = "tRNS" => "PLTE" \in given
  PROVE  Follow(Parsed(given), chunk) = Parsed(given \cup {chunk.type})
<1> DEFINE c == AsRead(chunk)
           type == chunk.type
           texts == TextsIn(given)
<1>1. PICK meta : meta = Entries(given)
  OBVIOUS
<1> DEFINE info == InfoOf(meta, texts)
           filled == InfoOf([meta EXCEPT ![type] = 1], texts)
<1>2. type \in Decoder!MetaTypes /\ type \notin Decoder!TextTypes /\ type # "IHDR"
  BY DEF Decoder!MetaTypes, Decoder!TextTypes
<1>3. /\ meta[type] = Decoder!Absent
      /\ type = "tRNS" => meta["PLTE"] # Decoder!Absent
  BY <1>1, <1>2 DEF Entries, Orphan, Decoder!Absent, Decoder!MetaTypes
<1>4. /\ c.type = type /\ c.valid /\ c.value = 1
      /\ info.color = "Indexed" /\ info.meta = meta /\ info # Decoder!NoInfo
  BY ReadFields, InfoFields
<1>5. [info EXCEPT !.meta[type] = 1] = filled
  BY DEF InfoOf
<1> HIDE DEF c, info, filled
<1>6. ~ Decoder!Misplaced(c, info, FALSE, info.meta["iCCP"] # Decoder!Absent)
  BY <1>3, <1>4 DEF Decoder!Misplaced, Decoder!Duplicate, Decoder!AfterPlte, Decoder!AfterIdat
<1>7. ReadChunk(chunk, info).verdict = "Ok" /\ ReadChunk(chunk, info).info = filled
  <2>1. CASE type = "iCCP"
    <3>1. ReadChunk(chunk, info) =
            Decoder!parse_iccp(c, info, Limit, FALSE, info.meta["iCCP"] # Decoder!Absent)
      BY <1>2, <1>4, <2>1 DEF ReadChunk, c
    <3>2. @ = Decoder!Fill(c, info, Limit - c.value)
      BY <1>4, <1>6 DEF Decoder!parse_iccp, Limit
    <3>3. @ = Decoder!Result("Ok", filled, Limit - c.value)
      BY <1>4, <1>5 DEF Decoder!Fill
    <3>4. ReadChunk(chunk, info) = Decoder!Result("Ok", filled, Limit - c.value)
      BY <3>1, <3>2, <3>3
    <3>5. ASSUME NEW left PROVE /\ Decoder!Result("Ok", filled, left).verdict = "Ok"
                                /\ Decoder!Result("Ok", filled, left).info = filled
      BY DEF Decoder!Result
    <3> QED BY <3>4, <3>5
  <2>2. CASE type # "iCCP"
    <3>1. ReadChunk(chunk, info) =
            Decoder!parse_meta(c, info, Limit, FALSE, info.meta["iCCP"] # Decoder!Absent)
      BY <1>2, <1>4, <2>2 DEF ReadChunk, c
    <3>2. Decoder!Fits(c, info.color)
      BY <1>4 DEF Decoder!Fits, Decoder!TrnsFits
    <3>3. Decoder!parse_meta(c, info, Limit, FALSE, info.meta["iCCP"] # Decoder!Absent)
            = Decoder!Fill(c, info, Limit)
      BY <1>4, <1>6, <3>2 DEF Decoder!parse_meta
    <3>4. Decoder!Fill(c, info, Limit) = Decoder!Result("Ok", filled, Limit)
      BY <1>4, <1>5 DEF Decoder!Fill
    <3>5. ReadChunk(chunk, info) = Decoder!Result("Ok", filled, Limit)
      BY <3>1, <3>3, <3>4
    <3> QED BY <3>5 DEF Decoder!Result
  <2> QED BY <2>1, <2>2
<1>8. Follow(Parsed(given), chunk) = [refused |-> Orphan(given), info |-> filled]
  <2>1. Parsed(given) = [refused |-> Orphan(given), info |-> info]
    BY <1>1 DEF Parsed, info
  <2> QED BY <1>7, <2>1 DEF Follow
<1>9. filled = InfoOf(Entries(given \cup {type}), TextsIn(given \cup {type}))
  <2>1. TextsIn(given \cup {type}) = texts
    BY <1>2 DEF TextsIn
  <2>2. [meta EXCEPT ![type] = 1] = Entries(given \cup {type})
    BY <1>1, <1>2, EntryFilled
  <2> QED BY <2>1, <2>2 DEF filled
<1>10. Orphan(given \cup {type}) = Orphan(given)
  BY <1>2, EntryFilled
<1> QED BY <1>8, <1>9, <1>10 DEF Parsed

\* Transparency whose palette is missing is refused.
LEMMA OrphanRead ==
  ASSUME NEW chunk, NEW given, chunk.type = "tRNS", "tRNS" \notin given, "PLTE" \notin given
  PROVE  Follow(Parsed(given), chunk) = Parsed(given \cup {chunk.type})
<1> DEFINE c == AsRead(chunk)
           texts == TextsIn(given)
<1>1. PICK meta : meta = Entries(given)
  OBVIOUS
<1> DEFINE info == InfoOf(meta, texts)
<1>2. /\ "tRNS" \in Decoder!MetaTypes /\ "tRNS" \notin Decoder!TextTypes
      /\ "PLTE" \in Decoder!MetaTypes
  BY DEF Decoder!MetaTypes, Decoder!TextTypes
<1>3. meta["PLTE"] = Decoder!Absent
  BY <1>1, <1>2 DEF Entries
<1>4. /\ c.type = "tRNS" /\ info.color = "Indexed" /\ info.meta = meta /\ info # Decoder!NoInfo
  BY ReadFields, InfoFields
<1> HIDE DEF c, info
<1>5. Decoder!Misplaced(c, info, FALSE, info.meta["iCCP"] # Decoder!Absent)
  BY <1>3, <1>4 DEF Decoder!Misplaced
<1>6. ReadChunk(chunk, info) = Decoder!Result("Format", info, Limit)
  <2>1. ReadChunk(chunk, info) =
          Decoder!parse_meta(c, info, Limit, FALSE, info.meta["iCCP"] # Decoder!Absent)
    BY <1>2, <1>4 DEF ReadChunk, c
  <2> QED BY <1>5, <2>1 DEF Decoder!parse_meta
<1>7. Orphan(given) = {} /\ Orphan(given \cup {"tRNS"}) = {"tRNS"}
  BY DEF Orphan
<1>8. Follow(Parsed(given), chunk) = [refused |-> {"tRNS"}, info |-> info]
  <2>1. Parsed(given) = [refused |-> {}, info |-> info]
    BY <1>1, <1>7 DEF Parsed, info
  <2>2. /\ ReadChunk(chunk, info).verdict = "Format" /\ ReadChunk(chunk, info).info = info
    BY <1>6 DEF Decoder!Result
  <2>3. {} \cup {chunk.type} = {"tRNS"}
    OBVIOUS
  <2> QED BY <2>1, <2>2, <2>3 DEF Follow
<1>9. Entries(given \cup {"tRNS"}) = meta /\ TextsIn(given \cup {"tRNS"}) = texts
  BY <1>1, <1>2, <1>7 DEF Entries, TextsIn
<1> QED BY <1>7, <1>8, <1>9 DEF Parsed, info

LEMMA TextRead ==
  ASSUME NEW chunk, NEW given, chunk.type \in Decoder!TextTypes,
         given \cap Decoder!TextTypes = {}
  PROVE  Follow(Parsed(given), chunk) = Parsed(given \cup {chunk.type})
<1> DEFINE c == AsRead(chunk)
           type == chunk.type
<1>1. PICK meta : meta = Entries(given)
  OBVIOUS
<1> DEFINE info == InfoOf(meta, 0)
           longer == InfoOf(meta, 256)
<1>2. type \notin Decoder!MetaTypes /\ type \notin {"IHDR", "PLTE", "tRNS", "iCCP"}
  BY DEF Decoder!MetaTypes, Decoder!TextTypes
<1>3. c.type = type /\ c.length = 256 /\ c.valid /\ info.texts = 0 /\ info # Decoder!NoInfo
  BY ReadFields, InfoFields
<1>4. Decoder!Keep(c, info) = longer
  <2>1. Decoder!Keep(c, info) = [info EXCEPT !.texts = 0 + 256]
    BY <1>3 DEF Decoder!Keep
  <2>2. [info EXCEPT !.texts = 0 + 256] = longer
    BY DEF InfoOf
  <2> QED BY <2>1, <2>2
<1> HIDE DEF c, info, longer
<1>5. /\ ReadChunk(chunk, info).verdict = "Ok" /\ ReadChunk(chunk, info).info = longer
  <2>1. ReadChunk(chunk, info) = Decoder!parse_text(c, info, Limit)
    BY <1>2, <1>3 DEF ReadChunk, c
  <2>2. ~ c.length > Limit
    BY <1>3 DEF Limit
  <2> QED BY <1>3, <1>4, <2>1, <2>2 DEF Decoder!parse_text, Decoder!Result
<1>6. TextsIn(given) = 0 /\ TextsIn(given \cup {type}) = 256
  BY DEF TextsIn
<1>7. Orphan(given \cup {type}) = Orphan(given) /\ Entries(given \cup {type}) = meta
  <2>1. Orphan(given \cup {type}) = Orphan(given)
    BY <1>2 DEF Orphan
  <2> QED BY <1>1, <1>2, <2>1 DEF Entries
<1>8. Parsed(given) = [refused |-> Orphan(given), info |-> info]
  BY <1>1, <1>6 DEF Parsed, info
<1>9. Follow(Parsed(given), chunk) = [refused |-> Orphan(given), info |-> longer]
  BY <1>5, <1>8 DEF Follow
<1> QED BY <1>6, <1>7, <1>9 DEF Parsed, longer

\* The types of the first n chunks.
Given(file, n) == { file[i].type : i \in 1 .. n }

\* One more chunk of a header.
LEMMA ChunkRead ==
  ASSUME NEW file, IsHeader(file), NEW n \in 1 .. Len(file)
  PROVE  Follow(IF n = 1 THEN Start ELSE Parsed(Given(file, n - 1)), file[n])
           = Parsed(Given(file, n))
<1> DEFINE type == file[n].type
           given == Given(file, n - 1)
<1>1. /\ file \in Seq(ChunkType) /\ Len(file) \in Nat /\ file[1].type = "IHDR"
      /\ \A i \in 1 .. Len(file) : file[i].type \in DOMAIN Place
      /\ \A i, j \in 1 .. Len(file) : i < j => Place[file[i].type] < Place[file[j].type]
  BY DEF IsHeader, InPlace
<1>2. CASE n = 1
  <2>1. Given(file, 1) = {"IHDR"}
    <3>1. 1 .. 1 = {1}
      OBVIOUS
    <3> QED BY <1>1, <3>1 DEF Given
  <2> QED BY <1>1, <1>2, <2>1, HeaderRead
<1>3. CASE n # 1
  <2>1. 1 .. n = (1 .. n - 1) \cup {n} /\ 1 .. n - 1 \subseteq 1 .. Len(file) /\ 1 \in 1 .. n - 1
    BY <1>1, <1>3
  <2>2. Given(file, n) = given \cup {type}
    BY <2>1 DEF Given
  <2>3. type \in DOMAIN Place /\ Place[type] \in Nat
    BY <1>1, Places
  <2>4. ASSUME NEW other \in given
        PROVE  other \in DOMAIN Place /\ Place[other] < Place[type] /\ Place[other] \in Nat
    <3>1. PICK i \in 1 .. n - 1 : other = file[i].type
      BY DEF Given
    <3>2. i \in 1 .. Len(file) /\ i < n
      BY <1>1, <2>1, <3>1
    <3> QED BY <1>1, <3>1, <3>2, Places
  <2>5. type \notin given /\ type # "IHDR"
    <3>1. type \notin given
      BY <2>3, <2>4
    <3>2. "IHDR" \in given
      BY <1>1, <2>1 DEF Given
    <3> QED BY <3>1, <3>2
  <2>6. type = "PLTE" => "tRNS" \notin given
    BY <2>4, Places
  <2>7. type \in Decoder!TextTypes => given \cap Decoder!TextTypes = {}
    BY <2>3, <2>4, Places
  <2> HIDE DEF type, given
  <2>8. Follow(Parsed(given), file[n]) = Parsed(given \cup {type})
    <3>1. CASE type \in Decoder!TextTypes
      BY <2>7, <3>1, TextRead DEF type
    <3>2. CASE type = "tRNS" /\ "PLTE" \notin given
      BY <2>5, <3>2, OrphanRead DEF type
    <3>3. CASE type \notin Decoder!TextTypes /\ ~ (type = "tRNS" /\ "PLTE" \notin given)
      <4>1. type \in {"pHYs", "sRGB", "gAMA", "cHRM", "iCCP", "eXIf", "acTL", "PLTE", "tRNS"}
        BY <2>3, <2>5, <3>3, Places
      <4> QED BY <2>5, <2>6, <3>3, <4>1, MetaRead DEF type
    <3> QED BY <3>1, <3>2, <3>3
  <2> QED BY <1>3, <2>2, <2>8 DEF given
<1> QED BY <1>2, <1>3

\* The function of Read is the one that its equation describes.
LEMMA HeaderParsed ==
  ASSUME NEW file, IsHeader(file)
  PROVE  Read(file) = Parsed(Given(file, Len(file)))
<1> DEFINE N == Len(file)
           run == [n \in 0 .. N |-> IF n = 0 THEN Start ELSE Parsed(Given(file, n))]
           Eq(h) == h = [n \in 0 .. N |-> IF n = 0 THEN Start ELSE Follow(h[n - 1], file[n])]
           after == CHOOSE h : Eq(h)
<1>1. N \in Nat /\ N > 0 /\ N \in 0 .. N /\ N # 0
  BY DEF IsHeader, InPlace
<1>2. Read(file) = after[N]
  BY DEF Read
<1>3. Eq(run)
  <2>1. ASSUME NEW n \in 0 .. N, n # 0 PROVE run[n] = Follow(run[n - 1], file[n])
    <3>1. n \in 1 .. N /\ n - 1 \in 0 .. N /\ (n - 1 = 0 <=> n = 1)
      BY <1>1, <2>1
    <3>2. run[n - 1] = IF n = 1 THEN Start ELSE Parsed(Given(file, n - 1))
      BY <3>1
    <3>3. run[n] = Parsed(Given(file, n))
      BY <2>1
    <3> HIDE DEF run
    <3> QED BY <3>1, <3>2, <3>3, ChunkRead
  <2> QED BY <2>1
<1>4. Eq(after)
  BY <1>3
<1> DEFINE Agreed == { n \in 0 .. N : after[n] = run[n] }
<1>5. 0 .. N \subseteq Agreed
  <2>1. \A n \in 0 .. N : after[n] = IF n = 0 THEN Start ELSE Follow(after[n - 1], file[n])
    BY <1>4
  <2>2. \A n \in 0 .. N : run[n] = IF n = 0 THEN Start ELSE Follow(run[n - 1], file[n])
    BY <1>3
  <2> HIDE DEF after, run, N
  <2>3. 0 \in Agreed
    BY <1>1, <2>1, <2>2
  <2>4. \A n \in 1 .. N : n - 1 \in Agreed => n \in Agreed
    BY <1>1, <2>1, <2>2
  <2> HIDE DEF Agreed
  <2> QED BY <1>1, <2>3, <2>4, Induction
<1>6. after[N] = run[N]
  BY <1>1, <1>5
<1>7. run[N] = Parsed(Given(file, N))
  BY <1>1
<1> QED BY <1>2, <1>6, <1>7

\* For every choice of metadata, of an indexed image and with contents that fit it, every order of
\* calls and wherever the sink fails: as long as no image has been written, the parser of this
\* crate refuses nothing of the file but a transparency without its palette, and ends up with an
\* entry for each of its other chunks.
THEOREM HeadersAreAccepted == BuffersHoldData /\ Spec => []HeaderAccepted
<1>1. HeaderInv => HeaderAccepted
  <2> SUFFICES ASSUME HeaderInv, user = "writer", image = 0
               PROVE  LET given == File!Types(out)
                          orphan == IF "PLTE" \in given THEN {} ELSE {"tRNS"} \cap given
                          read == Read(out)
                      IN /\ "IHDR" \in given
                         /\ read.refused = orphan
                         /\ { t \in Decoder!MetaTypes : read.info.meta[t] # Decoder!Absent } =
                              (given \cap Decoder!MetaTypes) \ orphan
                         /\ read.info.texts > 0 <=> given \cap Decoder!TextTypes # {}
    BY DEF HeaderAccepted
  <2> DEFINE given == File!Types(out)
             read == Read(out)
  <2>1. IsHeader(out) /\ Len(out) \in Nat /\ Len(out) > 0 /\ out[1].type = "IHDR"
        /\ DOMAIN out = 1 .. Len(out)
    BY DEF HeaderInv, IsHeader, InPlace
  <2>2. given = Given(out, Len(out))
    BY <2>1 DEF Given, File!Types
  <2>3. read = Parsed(given)
    BY <2>1, <2>2, HeaderParsed
  <2>4. "IHDR" \in given
    BY <2>1 DEF File!Types
  <2> HIDE DEF given, read
  <2>5. /\ read.refused = Orphan(given) /\ read.info.meta = Entries(given)
        /\ read.info.texts = TextsIn(given)
    BY <2>3, InfoFields DEF Parsed
  <2>6. { t \in Decoder!MetaTypes : Entries(given)[t] # Decoder!Absent } =
          (given \cap Decoder!MetaTypes) \ Orphan(given)
    BY DEF Entries, Decoder!Absent
  <2>7. TextsIn(given) > 0 <=> given \cap Decoder!TextTypes # {}
    BY DEF TextsIn
  <2> QED BY <2>4, <2>5, <2>6, <2>7 DEF given, read, Orphan
<1> QED BY <1>1, HeadersInOrder, PTL
==============================================================================
