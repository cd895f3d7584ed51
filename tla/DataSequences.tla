---------------------------- MODULE DataSequences ----------------------------
(***************************************************************************)
(* What StreamingDecoder promises those who call update() about image      *)
(* data, whatever the input and however it is dealt out: at most one run   *)
(* of IDAT chunks; a run of fdAT chunks only after a frame control that    *)
(* came behind the image data, and one run per frame control; data is      *)
(* announced within a run only, and the end of a run exactly once.         *)
(* ReadDecoder and Reader rest on this and on nothing else of the parser.  *)
(***************************************************************************)
VARIABLES
  run,        \* the run of data chunks that is under way: "IDAT", "fdAT" or "none"
  image,      \* the image data is to come ("ahead"), has begun ("begun") or is "over"
  armed,      \* a frame control allows a run of fdAT chunks
  told        \* what the caller was told last: "data", "flushed" or "other"

vars == << run, image, armed, told >>

TypeOK ==
  /\ run \in {"IDAT", "fdAT", "none"}
  /\ image \in {"ahead", "begun", "over"}
  /\ armed \in BOOLEAN
  /\ told \in {"data", "flushed", "other"}

Init ==
  /\ run = "none"
  /\ image = "ahead"
  /\ armed = FALSE
  /\ told = "other"

BeginImage ==
  /\ run = "none"
  /\ image = "ahead"
  /\ run' = "IDAT"
  /\ image' = "begun"
  /\ told' = "other"
  /\ UNCHANGED armed

FrameControl ==
  /\ run = "none"
  /\ armed' = (image # "ahead")
  /\ told' = "other"
  /\ UNCHANGED << run, image >>

BeginFrame ==
  /\ run = "none"
  /\ armed
  /\ run' = "fdAT"
  /\ told' = "other"
  /\ UNCHANGED << image, armed >>

Data ==
  /\ run # "none"
  /\ told' = "data"
  /\ UNCHANGED << run, image, armed >>

EndRun ==
  /\ run # "none"
  /\ run' = "none"
  /\ image' = "over"
  /\ armed' = FALSE
  /\ told' = "flushed"

Other ==
  /\ told' = "other"
  /\ UNCHANGED << run, image, armed >>

Next == BeginImage \/ FrameControl \/ BeginFrame \/ Data \/ EndRun \/ Other

Spec == Init /\ [][Next]_vars
=============================================================================
