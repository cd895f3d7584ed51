------------------------------ MODULE RowQueue ------------------------------
(***************************************************************************)
(* What Reader may rely on in its window: a queue of bytes without bounds  *)
(* and without memory management.  The bytes of a frame arrive in order;   *)
(* once a whole row waits it is taken off, unfiltered against the row      *)
(* above, and becomes the row above.  UnfilteringBuffer is shown to        *)
(* implement it, with all its shifting, growing, truncating and looking    *)
(* back; Reader (the module) counts rows in such a queue.                  *)
(*                                                                         *)
(* The k-th byte of a frame is the number k + 1 as it arrives, and its     *)
(* negative once it is unfiltered.                                         *)
(***************************************************************************)
EXTENDS Integers, Sequences

CONSTANT Frames   \* as in UnfilteringBuffer

VARIABLES
  frame, row, reading,  \* the frame, the row that is next, a call wants it
  transformable,        \* the rows of the frame can be transformed for the caller
  taken,                \* how many bytes of the frame rows have taken
  waiting,              \* the bytes that arrived and were not taken yet
  above                 \* the row that is next is unfiltered against this one

vars == << frame, row, reading, transformable, taken, waiting, above >>

Arriving(from, n) == [i \in 1 .. n |-> from + i]
Unfiltered(s)     == [i \in 1 .. Len(s) |-> - s[i]]

rowlen == frame.offset[row + 1] - frame.offset[row]
OnePass == \A r \in 2 .. frame.rows : ~ frame.first[r]

Init ==
  /\ frame \in Frames
  /\ row = 1
  /\ reading = FALSE
  /\ transformable \in BOOLEAN
  /\ taken = 0
  /\ waiting = << >>
  /\ above = << >>

StartFrame ==
  /\ ~ reading
  /\ frame' \in Frames
  /\ row' = 1
  /\ transformable' \in {transformable, TRUE}
  /\ taken' = 0
  /\ waiting' = << >>
  /\ above' = << >>
  /\ UNCHANGED reading

\* Passes do not know each other; only the image that is a single pass may be read
\* without clearing the row above its first row, which is a row that was lost.
ReadRow ==
  /\ ~ reading
  /\ row <= frame.rows
  /\ reading' = TRUE
  /\ \/ frame.first[row] /\ above' = << >>
     \/ (~ frame.first[row] \/ OnePass) /\ above' = above
  /\ UNCHANGED << frame, row, transformable, taken, waiting >>

\* Some of the bytes the frame still needs, or none; the call may go on or fail.
Arrive ==
  /\ reading
  /\ \E n \in 0 .. frame.frame_bytes - taken - Len(waiting) :
       waiting' = waiting \o Arriving(taken + Len(waiting), n)
  /\ reading' \in BOOLEAN
  /\ UNCHANGED << frame, row, transformable, taken, above >>

\* The row behind its filter byte.  If it cannot be transformed it is lost, and the
\* row that is next is the same as before.
Deliver ==
  /\ reading
  /\ Len(waiting) >= rowlen
  /\ above' = Unfiltered(SubSeq(waiting, 2, rowlen))
  /\ waiting' = SubSeq(waiting, rowlen + 1, Len(waiting))
  /\ taken' = taken + rowlen
  /\ row' = IF transformable THEN row + 1 ELSE row
  /\ reading' = FALSE
  /\ UNCHANGED << frame, transformable >>

Next == StartFrame \/ ReadRow \/ Arrive \/ Deliver

Spec == Init /\ [][Next]_vars
=============================================================================
