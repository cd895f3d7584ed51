------------------------------- MODULE Reader -------------------------------
(***************************************************************************)
(* The pull API: Reader of decoder/mod.rs on top of ReadDecoder of         *)
(* decoder/read_decoder.rs.                                                *)
(*                                                                         *)
(* One step is one call of ReadDecoder::decode_next, or what a method does *)
(* between two of them.  What the push parser may answer is what           *)
(* DataSequences allows; between two calls of a method the input may run   *)
(* dry (more of a slow stream may arrive later) and any call may be made.  *)
(* Of the unfiltering buffer only two numbers of rows are kept: those that *)
(* can be delivered without asking for more data, and those it still       *)
(* expects.  The image is Rgb or Indexed, 8 bits, not interlaced, with     *)
(* Transformations::EXPAND: a tRNS chunk changes the output, and Indexed   *)
(* rows cannot be transformed without a PLTE chunk.                        *)
(***************************************************************************)
EXTENDS Integers

CONSTANTS
  NumFrames,  \* what acTL may say, 0 for an image without acTL
  Height,     \* the rows of the image
  MaxFctl     \* bound: how many fcTL chunks the input holds

ASSUME ConstantsAssumption ==
  /\ NumFrames \subseteq Nat
  /\ Height \in Nat \ {0}
  /\ MaxFctl \in Nat

VARIABLES
  run, image, armed, told,  \* the parser, as DataSequences sees it
  open,                     \* StreamingDecoder::state is not None
  info,                     \* of Info: num_frames, frame_control, color_type, palette, trns
  subframe,                 \* SubframeInfo
  remaining_frames,
  finished,
  transform_fn,             \* "none", or what it was made for
  window,                   \* rows ready in the unfiltering buffer
  missing,                  \* rows it expects, remaining_bytes
  call,                     \* the method that is running, and how far it is
  result,                   \* what the last method returned
  history

parser == << run, image, armed, told >>
progress == << subframe, remaining_frames, finished, transform_fn, window, missing >>
vars == << parser, open, info, progress, call, result, history >>

Sequences == INSTANCE DataSequences

NoFrameControl == [no |-> 0, rows |-> Height]

(***************************************************************************)
(* history says what has been done with the frame under way: rows          *)
(* delivered, by the present call too (written); whether next_frame_info   *)
(* gave it up; how many data sequences ended; how many frames there were   *)
(* to come at first; and whether finish was called.                        *)
(***************************************************************************)
NoHistory ==
  [delivered |-> 0, written |-> 0, given_up |-> FALSE, ended |-> 0, total |-> 0,
   finishing |-> FALSE, rows_of |-> NoFrameControl]

-----------------------------------------------------------------------------
\* SubframeInfo::new; current_interlace_info is None when row > height.
NewSubframe(frame_control) ==
  [frame_control |-> frame_control, height |-> frame_control.rows, row |-> 1,
   consumed_and_flushed |-> FALSE]

NotYetInit ==
  [frame_control |-> NoFrameControl, height |-> 0, row |-> 1, consumed_and_flushed |-> FALSE]

Running(method, phase) == [method |-> method, phase |-> phase]
Phase(phase) == [call EXCEPT !.phase = phase]

\* A method returns; a Decoder whose read_info fails is gone.
Return(verdict) ==
  /\ call' = Running("none", IF call.method = "read_info" /\ verdict # "Ok"
                             THEN "gone" ELSE "idle")
  /\ result' = [method |-> call.method, verdict |-> verdict]

Panic ==
  /\ call' = Phase("panicked")
  /\ result' = [method |-> call.method, verdict |-> "Panic"]

\* Decoder::read_info, behind the header
Init ==
  /\ Sequences!Init
  /\ open = TRUE
  /\ info \in [num_frames : NumFrames, frame_control : {NoFrameControl},
               color_type : {"Rgb", "Indexed"}, palette : {FALSE}, trns : {FALSE}]
  /\ subframe = NotYetInit
  /\ remaining_frames = 0
  /\ finished = FALSE
  /\ transform_fn = "none"
  /\ window = 0
  /\ missing = 0
  /\ call = Running("read_info", "seek")
  /\ result = [method |-> "none", verdict |-> "none"]
  /\ history = NoHistory

-----------------------------------------------------------------------------
(* The methods, up to the first byte they need.                            *)

Idle == call.phase = "idle"
NoRowLeft == subframe.row > subframe.height

Called(method) ==
  [history EXCEPT !.written = 0, !.finishing = @ \/ method = "finish"]

\* A method that fails before it reads anything.
Refuse(method, verdict) ==
  /\ result' = [method |-> method, verdict |-> verdict]
  /\ UNCHANGED << call, progress >>

\* The buffer next_frame is given may be too small.
NextFrame ==
  /\ Idle
  /\ IF remaining_frames = 0
     THEN Refuse("next_frame", "PolledAfterEndOfImage")
     ELSE \/ /\ call' = Running("next_frame",
                                IF subframe.consumed_and_flushed THEN "seek" ELSE "rows")
             /\ UNCHANGED << result, progress >>
          \/ ~ subframe.consumed_and_flushed /\ Refuse("next_frame", "ImageBufferSize")
  /\ history' = Called("next_frame")
  /\ UNCHANGED << parser, open, info >>

ReadRow ==
  /\ Idle
  /\ call' = Running("read_row", "rows")
  /\ history' = Called("read_row")
  /\ UNCHANGED << parser, open, info, progress, result >>

\* Fault: the frame under way is not among those that remain.
FramesAfterThisAll == remaining_frames

\* The frames behind the one under way.
FramesAfterThis ==
  IF subframe.consumed_and_flushed THEN remaining_frames ELSE remaining_frames - 1

\* current_interlace_info becomes None before the data is discarded.  The subtraction
\* panics below zero.
NextFrameInfo ==
  /\ Idle
  /\ history' = [Called("next_frame_info") EXCEPT
                  !.given_up = @ \/ (FramesAfterThis > 0 /\ ~ subframe.consumed_and_flushed)]
  /\ CASE FramesAfterThis = 0 -> Refuse("next_frame_info", "PolledAfterEndOfImage")
       [] FramesAfterThis < 0 ->
            /\ call' = Running("next_frame_info", "panicked")
            /\ result' = [method |-> "next_frame_info", verdict |-> "Panic"]
            /\ UNCHANGED progress
       [] subframe.consumed_and_flushed /\ FramesAfterThis > 0 ->
            /\ call' = Running("next_frame_info", "seek")
            /\ UNCHANGED << result, progress >>
       [] OTHER ->
            /\ call' = Running("next_frame_info", "drain")
            /\ subframe' = [subframe EXCEPT !.row = subframe.height + 1]
            /\ UNCHANGED << result, remaining_frames, finished, transform_fn, window, missing >>
  /\ UNCHANGED << parser, open, info >>

Finish ==
  /\ Idle
  /\ IF finished
     THEN Refuse("finish", "PolledAfterEndOfImage")
     ELSE /\ remaining_frames' = 0
          /\ call' = Running("finish", "end")
          /\ UNCHANGED << result, subframe, finished, transform_fn, window, missing >>
  /\ history' = Called("finish")
  /\ UNCHANGED << parser, open, info >>

-----------------------------------------------------------------------------
(* decode_next.                                                            *)

\* next_raw_interlaced_row needs another piece of data.
RowMissing == call.phase = "rows" /\ ~ NoRowLeft /\ window = 0
Polling == RowMissing /\ ~ subframe.consumed_and_flushed /\ missing > 0
Reading == call.phase \in {"seek", "drain", "end"} \/ Polling

\* There is no input for now.
InputRunsDry ==
  /\ Reading
  /\ Return("IoError")
  /\ UNCHANGED << parser, open, info, progress, history >>

\* The input is invalid, or the parser has stopped before: at a fatal error or at IEND.
ParserFails ==
  /\ Reading
  /\ open' = FALSE
  /\ Return(IF open THEN "Format" ELSE "PolledAfterFatalError")
  /\ UNCHANGED << parser, info, progress, history >>

\* A frame control; before the image data it covers the image.
Fctl ==
  /\ info.frame_control.no < MaxFctl
  /\ Sequences!FrameControl
  /\ \E rows \in IF image = "ahead" THEN {Height} ELSE 1 .. Height :
       info' = [info EXCEPT !.frame_control = [no |-> @.no + 1, rows |-> rows]]

\* For Indexed images between PLTE and IDAT only.
Trns ==
  /\ run = "none"
  /\ info.color_type = "Indexed" => info.palette /\ image = "ahead"
  /\ Sequences!Other
  /\ info' = [info EXCEPT !.trns = TRUE]

\* A palette is taken anywhere, behind the image data too.
Plte ==
  /\ run = "none"
  /\ ~ info.palette
  /\ Sequences!Other
  /\ info' = [info EXCEPT !.palette = TRUE]

Metadata == open /\ (Fctl \/ Trns \/ Plte \/ (Sequences!Other /\ UNCHANGED info))

BeginRun == open /\ (Sequences!BeginImage \/ Sequences!BeginFrame)

IendComplete ==
  /\ open
  /\ run = "none"
  /\ Sequences!Other
  /\ open' = FALSE

RunEnded == [history EXCEPT !.ended = @ + 1]

-----------------------------------------------------------------------------
(* read_until_image_data                                                   *)

SeekPasses ==
  /\ call.phase = "seek"
  /\ Metadata
  /\ UNCHANGED << open, progress, call, result, history >>

TotalFrames ==
  IF info.num_frames = 0 THEN 1
  ELSE info.num_frames + (IF info.frame_control.no = 0 THEN 1 ELSE 0)

\* The frame begins, and all its rows are expected; the limits may not allow its row buffer, next_frame may find its
\* buffer too small, and next_frame_info unwraps the frame control.
SeekFinds ==
  /\ call.phase = "seek"
  /\ BeginRun
  /\ subframe' = NewSubframe(info.frame_control)
  /\ window' = 0
  /\ missing' = info.frame_control.rows
  /\ history' = [history EXCEPT !.delivered = 0, !.given_up = FALSE,
                   !.total = IF call.method = "read_info" THEN TotalFrames ELSE @]
  /\ \/ /\ Return("LimitsExceeded")
        /\ UNCHANGED remaining_frames
     \/ /\ call.method = "read_info"
        /\ remaining_frames' = TotalFrames
        /\ Return("Ok")
     \/ /\ call.method = "next_frame_info"
        /\ IF info.frame_control.no = 0 THEN Panic ELSE Return("Ok")
        /\ UNCHANGED remaining_frames
     \/ /\ call.method = "next_frame"
        /\ \/ Return("ImageBufferSize")
           \/ call' = Phase("rows") /\ UNCHANGED result
        /\ UNCHANGED remaining_frames
  /\ UNCHANGED << open, info, finished, transform_fn >>

SeekMissesImage ==
  /\ call.phase = "seek"
  /\ IendComplete
  /\ Return("MissingImageData")
  /\ UNCHANGED << info, progress, history >>

-----------------------------------------------------------------------------
(* next_raw_interlaced_row and finish_decoding                             *)

\* Events that mean nothing to decode_image_data.
DataPasses ==
  /\ call.phase = "drain" \/ Polling
  /\ \/ Metadata /\ UNCHANGED open
     \/ BeginRun /\ UNCHANGED << open, info >>
     \/ IendComplete /\ UNCHANGED info
  /\ UNCHANGED << progress, call, result, history >>

\* Of the rows that are expected some are complete now, or none.
RowsArrive ==
  \E rows \in 0 .. missing :
    /\ window' = rows
    /\ missing' = missing - rows

\* Data arrives: for the row that is wanted, or to be thrown away.
DataArrives ==
  /\ open
  /\ Sequences!Data
  /\ \/ Polling /\ RowsArrive
     \/ call.phase = "drain" /\ UNCHANGED << window, missing >>
  /\ UNCHANGED << open, info, subframe, remaining_frames, finished, transform_fn, call, result,
                  history >>

\* Faults: the frame is not counted off, or twice; or only counted off.
MarkUncounted ==
  /\ subframe' = [subframe EXCEPT !.consumed_and_flushed = TRUE]
  /\ UNCHANGED remaining_frames

MarkTwice ==
  /\ remaining_frames' = remaining_frames - 2
  /\ subframe' = [subframe EXCEPT !.consumed_and_flushed = TRUE]

MarkCountedOnly ==
  /\ remaining_frames' = remaining_frames - 1
  /\ UNCHANGED subframe

\* mark_subframe_as_consumed_and_flushed, if frames remain
MarkConsumed ==
  /\ remaining_frames' = remaining_frames - 1
  /\ subframe' = [subframe EXCEPT !.consumed_and_flushed = TRUE]

\* ImageDataFlushed while a row is wanted: the inflater's rest may complete rows.
FlushedInRow ==
  /\ Polling
  /\ open
  /\ Sequences!EndRun
  /\ RowsArrive
  /\ IF remaining_frames = 0
     THEN Panic /\ UNCHANGED << remaining_frames, subframe >>
     ELSE MarkConsumed /\ UNCHANGED << call, result >>
  /\ history' = RunEnded
  /\ UNCHANGED << open, info, finished, transform_fn >>

\* What follows finish_decoding.
AfterDrain ==
  \/ call.method = "next_frame" /\ Return("Ok")
  \/ call.method = "read_row" /\ Return("NoRow")
  \/ call.method = "next_frame_info" /\ call' = Phase("seek") /\ UNCHANGED result

\* ImageDataFlushed while the rest is discarded.
FlushedInDrain ==
  /\ call.phase = "drain"
  /\ open
  /\ Sequences!EndRun
  /\ IF remaining_frames = 0
     THEN Panic /\ UNCHANGED << remaining_frames, subframe >>
     ELSE MarkConsumed /\ AfterDrain
  /\ history' = RunEnded
  /\ UNCHANGED << open, info, finished, transform_fn, window, missing >>

\* assert!(remaining_bytes > 0): a row is wanted, and none is expected.
AssertionFails ==
  /\ RowMissing
  /\ ~ subframe.consumed_and_flushed
  /\ missing = 0
  /\ Panic
  /\ UNCHANGED << parser, open, info, progress, history >>

\* Fault: rows that do not come are taken as read.
NoMoreImageDataIgnored ==
  /\ RowMissing
  /\ subframe.consumed_and_flushed
  /\ AfterDrain
  /\ UNCHANGED << parser, open, info, progress, history >>

NoMoreImageData ==
  /\ RowMissing
  /\ subframe.consumed_and_flushed
  /\ Return("NoMoreImageData")
  /\ UNCHANGED << parser, open, info, progress, history >>

\* create_transform_fn: to Rgb (copy_row, create_expansion_into_rgb8) or to Rgba
\* (expand_trns_line, create_expansion_into_rgba8).
TransformFor == IF info.trns THEN "rgba" ELSE "rgb"

\* The transform is not the one that would be made now.
StaleTransform == transform_fn \notin {"none", TransformFor}

\* PaletteRequired
CannotTransform ==
  /\ transform_fn = "none"
  /\ info.color_type = "Indexed"
  /\ ~ info.palette

\* next_interlaced_row_impl: a row is unfiltered and transformed.  copy_row, made for
\* rows without alpha, panics when the output has an alpha channel by now.  A row that
\* cannot be transformed has left the buffer when the call fails, and is still the next.
DeliverRow ==
  /\ call.phase = "rows"
  /\ ~ NoRowLeft
  /\ window > 0
  /\ \/ /\ ~ StaleTransform /\ ~ CannotTransform
        /\ window' = window - 1
        /\ transform_fn' = TransformFor
        /\ subframe' = [subframe EXCEPT !.row = @ + 1]
        /\ history' = [history EXCEPT !.delivered = @ + 1, !.written = @ + 1,
                         !.rows_of = subframe.frame_control]
        /\ IF call.method = "read_row" THEN Return("Row") ELSE UNCHANGED << call, result >>
     \/ /\ StaleTransform
        /\ window' = window - 1
        /\ Panic
        /\ UNCHANGED << transform_fn, subframe, history >>
     \/ /\ CannotTransform
        /\ window' = window - 1
        /\ Return("PaletteRequired")
        /\ UNCHANGED << transform_fn, subframe, history >>
     \/ /\ Return("UnknownFilterMethod")
        /\ UNCHANGED << window, transform_fn, subframe, history >>
  /\ UNCHANGED << parser, open, info, remaining_frames, finished, missing >>

\* Fault: not the rest of the frame is discarded but the rest of the input.
RowsDoneToEnd ==
  /\ call.phase = "rows"
  /\ NoRowLeft
  /\ IF subframe.consumed_and_flushed
     THEN AfterDrain
     ELSE call' = Phase("end") /\ UNCHANGED result
  /\ UNCHANGED << parser, open, info, progress, history >>

RowsDone ==
  /\ call.phase = "rows"
  /\ NoRowLeft
  /\ IF subframe.consumed_and_flushed
     THEN AfterDrain
     ELSE call' = Phase("drain") /\ UNCHANGED result
  /\ UNCHANGED << parser, open, info, progress, history >>

-----------------------------------------------------------------------------
(* read_until_end_of_input                                                 *)

FinishPasses ==
  /\ call.phase = "end"
  /\ open
  /\ \/ Metadata /\ UNCHANGED history
     \/ BeginRun /\ UNCHANGED << info, history >>
     \/ Sequences!Data /\ UNCHANGED << info, history >>
     \/ Sequences!EndRun /\ UNCHANGED info /\ history' = RunEnded
  /\ UNCHANGED << open, progress, call, result >>

FinishEnds ==
  /\ call.phase = "end"
  /\ IendComplete
  /\ finished' = TRUE
  /\ Return("Ok")
  /\ UNCHANGED << info, subframe, remaining_frames, transform_fn, window, missing, history >>

Next ==
  \/ NextFrame
  \/ ReadRow
  \/ NextFrameInfo
  \/ Finish
  \/ InputRunsDry
  \/ ParserFails
  \/ SeekPasses
  \/ SeekFinds
  \/ SeekMissesImage
  \/ DataPasses
  \/ DataArrives
  \/ FlushedInRow
  \/ FlushedInDrain
  \/ NoMoreImageData
  \/ AssertionFails
  \/ DeliverRow
  \/ RowsDone
  \/ FinishPasses
  \/ FinishEnds

Spec == Init /\ [][Next]_vars

-----------------------------------------------------------------------------
(* Properties.                                                             *)

Methods == {"none", "read_info", "next_frame", "read_row", "next_frame_info", "finish"}
FrameControls == [no : 0 .. MaxFctl, rows : 1 .. Height]

InfoType ==
  [num_frames : NumFrames, frame_control : FrameControls, color_type : {"Rgb", "Indexed"},
   palette : BOOLEAN, trns : BOOLEAN]

\* Every variable has its type: remaining_frames is a usize, and so is the number of
\* rows the unfiltering buffer still expects.
TypeOK ==
  /\ Sequences!TypeOK
  /\ open \in BOOLEAN /\ finished \in BOOLEAN
  /\ info \in InfoType
  /\ subframe.row \in 1 .. subframe.height + 1
  /\ subframe.frame_control \in FrameControls
  /\ subframe.consumed_and_flushed \in BOOLEAN
  /\ remaining_frames \in Nat
  /\ window \in Nat /\ missing \in Nat
  /\ transform_fn \in {"none", "rgb", "rgba"}
  /\ call.method \in Methods
  /\ call.phase \in {"idle", "seek", "rows", "drain", "end", "panicked", "gone"}
  /\ result.method \in Methods

\* The Reader exists, and finish has not been called.
InUse == call.method # "read_info" /\ call.phase # "gone" /\ ~ history.finishing

\* The prerequisites in read_decoder.rs ("Not within IDAT / fdAT chunk sequence",
\* "Input is currently positioned within IDAT / fdAT chunk sequence") hold whenever
\* its methods are called, whatever was interrupted and retried before: the Reader's
\* flag says where the parser is.
InStep ==
  /\ InUse => (subframe.consumed_and_flushed <=> run = "none")
  /\ call.phase = "seek" => run = "none"

\* remaining_frames counts the data sequences to come, the one under way included,
\* however frames are read, skipped, left half-way or retried.
FramesCounted == InUse => remaining_frames = history.total - history.ended

\* A row has left the buffer and was not delivered, for want of a palette: fewer rows will
\* come than are left of the frame.
RowLost ==
  /\ CannotTransform
  /\ window + missing < subframe.height - subframe.row + 1

\* Until finish is called no subtraction underflows, no assertion fails and next_frame_info
\* has a frame control to return, with two exceptions that the code has: behind the image
\* data a tRNS chunk makes the transform stale; and when rows of an Indexed image without a
\* palette were asked for and lost, asking again finds remaining_bytes to be zero.
NoPanic == call.phase = "panicked" => history.finishing \/ StaleTransform \/ RowLost

\* A call of next_frame has returned the frame.
FrameReturned == Idle /\ result = [method |-> "next_frame", verdict |-> "Ok"]

\* When next_frame succeeds every row of the frame has been delivered, by it or by
\* earlier calls, unless next_frame_info has given up the frame.
FrameComplete ==
  FrameReturned => history.delivered = subframe.height \/ history.given_up

\* After next_frame has succeeded the frame control in Reader::info is the one of the
\* rows it has written.
InfoDescribesFrame ==
  FrameReturned /\ history.written > 0 => info.frame_control = history.rows_of

-----------------------------------------------------------------------------
(* What the documentation says and the code does not do.                   *)

\* next_frame_info "returns a ParameterError when there are no more animation frames".
NextFrameInfoReturns == result # [method |-> "next_frame_info", verdict |-> "Panic"]

\* The rows that are returned have the colour type that output_color_type announces.
TransformIsCurrent == ~ (call.phase = "panicked" /\ StaleTransform /\ ~ history.finishing)
=============================================================================
