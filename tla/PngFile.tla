-------------------------------- MODULE PngFile --------------------------------
(* What the encoder promises of the file, whoever writes it and however it is   *)
(* cut into calls: the file only grows; IHDR comes first, IEND once and last;   *)
(* whatever takes a sequence number takes the next one; every frame control is  *)
(* of a frame within the image; the images come one after the other, and the    *)
(* compressed bytes of an image in order.  Once the sink has refused a chunk    *)
(* what follows is still written, and nothing holds but that IEND is the last.  *)
EXTENDS Integers, Sequences, FiniteSets

CONSTANT Width   \* of the image, in pixels

VARIABLES
  chunks,    \* what is in the file
  refused,   \* the sink has failed
  closed     \* nobody can write to the file any more

vars == <<chunks, refused, closed>>

Types(file) == { file[i].type : i \in DOMAIN file }
Numbered(file) == Cardinality({ i \in DOMAIN file : file[i].seq >= 0 })
DataChunks(img, file) == { i \in DOMAIN file : file[i].image = img /\ file[i].data # << >> }

\* A file that was refused before its header has an IEND only.
HeaderFirst(file, chunk) ==
  /\ chunk.type = "IHDR" => file = << >>
  /\ file = << >> => chunk.type \in {"IHDR", "IEND"}

TakesNextNumber(file, chunk) == chunk.seq >= 0 => chunk.seq = Numbered(file)

FrameInImage(chunk) ==
  chunk.type = "fcTL" =>
    /\ chunk.frame.width > 0
    /\ chunk.frame.x_offset + chunk.frame.width <= Width

\* The last byte of an image that is in the file, 0 if there is none.
Reached(img, file) ==
  LET last == CHOOSE i \in {0} \cup DataChunks(img, file) :
                \A j \in DataChunks(img, file) : j <= i
  IN  IF last = 0 THEN 0 ELSE file[last].data[Len(file[last].data)]

\* A frame control and the data of an image come behind those of the images before it, and
\* the bytes of its data go on where the last chunk of it ended.
ContinuesImage(file, chunk) ==
  /\ chunk.image > 0 => \A i \in DOMAIN file : file[i].image <= chunk.image
  /\ \A k \in DOMAIN chunk.data : chunk.data[k] = Reached(chunk.image, file) + k

\* The chunk may follow the file.
MayFollow(file, chunk, failing) ==
  /\ "IEND" \notin Types(file)
  /\ \/ failing
     \/ /\ HeaderFirst(file, chunk)
        /\ TakesNextNumber(file, chunk)
        /\ FrameInImage(chunk)
        /\ ContinuesImage(file, chunk)

Init == chunks = << >> /\ ~ refused /\ ~ closed

\* Some chunks are written, all at once or up to one that is refused.
Grow ==
  /\ Len(chunks) <= Len(chunks') /\ SubSeq(chunks', 1, Len(chunks)) = chunks
  /\ refused => refused'
  /\ \A n \in Len(chunks) + 1 .. Len(chunks') :
       MayFollow(SubSeq(chunks', 1, n - 1), chunks'[n], refused')

\* The file is complete when it is let go, unless it could not be written.
Close == closed' => refused' \/ "IEND" \in Types(chunks')

Next == ~ closed /\ Grow /\ Close

Spec == Init /\ [][Next]_vars
================================================================================
