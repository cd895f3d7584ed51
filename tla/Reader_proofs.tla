---------------------------- MODULE Reader_proofs ----------------------------
(* Proofs about Reader: its count of frames and its idea of where the       *)
(* parser is stay right whatever is called, fails and is called again, for  *)
(* every number of frames, of rows and of frame controls.                    *)
EXTENDS Reader, TLAPS

Verdicts ==
  {"none", "Ok", "Row", "NoRow", "PolledAfterEndOfImage", "ImageBufferSize", "IoError",
   "Format", "PolledAfterFatalError", "LimitsExceeded", "MissingImageData",
   "NoMoreImageData", "UnknownFilterMethod", "PaletteRequired", "Panic"}

Phases == {"idle", "seek", "rows", "drain", "end", "panicked", "gone"}

\* TypeOK with all that its records hold.
ParserTyped ==
  /\ Sequences!TypeOK
  /\ open \in BOOLEAN
  /\ info \in [num_frames : NumFrames, frame_control : FrameControls,
               color_type : {"Rgb", "Indexed"}, palette : BOOLEAN, trns : BOOLEAN]

ProgressTyped ==
  /\ subframe \in [frame_control : FrameControls, height : 0 .. Height, row : Nat,
                   consumed_and_flushed : BOOLEAN]
  /\ 1 <= subframe.row /\ subframe.row <= subframe.height + 1
  /\ remaining_frames \in Nat
  /\ window \in Nat /\ missing \in Nat
  /\ finished \in BOOLEAN
  /\ transform_fn \in {"none", "rgb", "rgba"}

CallTyped ==
  /\ call \in [method : Methods, phase : Phases]
  /\ result \in [method : Methods, verdict : Verdicts]

HistoryTyped ==
  history \in [delivered : Nat, written : Nat, given_up : BOOLEAN, ended : Nat,
              total : Nat, finishing : BOOLEAN, rows_of : FrameControls]

Types == ParserTyped /\ ProgressTyped /\ CallTyped /\ HistoryTyped

\* Which method may be how far.
MethodsAtPhase ==
  [idle |-> {"none"}, gone |-> {"none"}, panicked |-> Methods, end |-> {"finish"},
   seek |-> {"read_info", "next_frame", "next_frame_info"},
   rows |-> {"next_frame", "read_row"},
   drain |-> {"next_frame", "read_row", "next_frame_info"}]

\* Before there is a Reader nothing but read_info runs, and no data has been seen.
Starting ==
  call.method = "read_info" =>
    /\ call.phase = "seek"
    /\ history.ended = 0
    /\ ~ history.finishing

\* Where the caller is, and what that says of the frame and of the count.
AtPhase ==
  /\ call.method \in MethodsAtPhase[call.phase]
  /\ call.phase = "seek" /\ call.method # "read_info" =>
       subframe.consumed_and_flushed /\ remaining_frames >= 1
  /\ call.phase = "seek" => run = "none" /\ ~ history.finishing
  /\ call.phase = "drain" => ~ subframe.consumed_and_flushed /\ NoRowLeft
  /\ call.phase = "drain" /\ call.method = "next_frame_info" =>
       remaining_frames >= 2 /\ ~ history.finishing
  /\ call.phase = "end" => history.finishing
  /\ call.phase \in {"rows", "drain"} /\ call.method = "next_frame" => ~ history.finishing

\* A frame that is not over is among those that remain, until finish gives up all of them.
FrameRemains ==
  /\ InUse /\ ~ subframe.consumed_and_flushed => remaining_frames >= 1
  /\ history.finishing => remaining_frames = 0
  /\ finished => history.finishing

\* A run of fdAT chunks has a frame control, and the image data is behind the Reader.
FrameControlled ==
  /\ armed => info.frame_control.no >= 1 /\ image # "ahead"
  /\ call.method # "read_info" /\ call.phase # "gone" => image # "ahead"

\* Rows are counted as they are delivered.
RowsCounted ==
  /\ history.given_up \/ history.delivered = subframe.row - 1
  /\ FrameReturned => NoRowLeft

\* While the data of a frame comes, the rows that are there and those that are expected are
\* the rows that are left, unless some were lost for want of a palette.
RowsExpected ==
  InUse /\ call.phase # "panicked" /\ ~ subframe.consumed_and_flushed /\ ~ NoRowLeft =>
    CannotTransform \/ window + missing = subframe.height - subframe.row + 1

\* The frame control is the one of the rows being delivered.
InfoOfRows ==
  /\ InUse /\ run # "none" => info.frame_control = subframe.frame_control
  /\ call.method = "next_frame" /\ call.phase \in {"rows", "drain"} =>
       /\ info.frame_control = subframe.frame_control
       /\ history.written > 0 => history.rows_of = info.frame_control
  /\ call.method = "next_frame" /\ call.phase = "seek" => history.written = 0

IInv ==
  /\ Types
  /\ Starting
  /\ AtPhase
  /\ InStep
  /\ FramesCounted
  /\ FrameRemains
  /\ FrameControlled
  /\ RowsCounted
  /\ RowsExpected
  /\ InfoOfRows
  /\ InfoDescribesFrame
  /\ NoPanic

-----------------------------------------------------------------------------
\* A chunk that is neither data nor IEND leaves the parser's state typed.
LEMMA MetadataKeepsTypes == ParserTyped /\ Metadata /\ UNCHANGED open => ParserTyped'
<1> SUFFICES ASSUME ParserTyped, Metadata, UNCHANGED open PROVE ParserTyped'  OBVIOUS
<1>1. CASE Fctl
  <2>1. PICK rows \in 1 .. Height : info' = [info EXCEPT !.frame_control = [no |-> @.no + 1, rows |-> rows]]
    BY <1>1, ConstantsAssumption DEF Fctl
  <2>2. info.frame_control.no \in 0 .. MaxFctl /\ info.frame_control.no < MaxFctl
    BY <1>1 DEF ParserTyped, FrameControls, Fctl
  <2>3. [no |-> info.frame_control.no + 1, rows |-> rows] \in FrameControls
    <3>1. info.frame_control.no + 1 \in 0 .. MaxFctl
      BY <2>2, ConstantsAssumption
    <3> QED  BY <3>1 DEF FrameControls
  <2>4. info' \in [num_frames : NumFrames, frame_control : FrameControls,
                  color_type : {"Rgb", "Indexed"}, palette : BOOLEAN, trns : BOOLEAN]
    BY <2>1, <2>3 DEF ParserTyped
  <2>5. Sequences!TypeOK'
    BY <1>1 DEF Fctl, ParserTyped, Sequences!TypeOK, Sequences!FrameControl
  <2> QED  BY <2>4, <2>5 DEF ParserTyped, FrameControls
<1>2. CASE Trns \/ Plte \/ (Sequences!Other /\ UNCHANGED info)
  BY <1>2 DEF ParserTyped, FrameControls, Trns, Plte, Sequences!Other, Sequences!TypeOK
<1> QED  BY <1>1, <1>2 DEF Metadata

\* Rows that arrive are rows that were expected.
LEMMA RowsArriveFacts ==
  ASSUME missing \in Nat, RowsArrive
  PROVE  window' \in Nat /\ missing' \in Nat /\ window' + missing' = missing
BY DEF RowsArrive

\* The frame count stays a number when a frame is marked.
LEMMA MarkConsumedKeepsTypes ==
  ASSUME ProgressTyped, MarkConsumed, remaining_frames # 0,
         UNCHANGED << finished, transform_fn >>, window' \in Nat, missing' \in Nat
  PROVE  ProgressTyped'
<1>1. remaining_frames - 1 \in Nat
  BY DEF ProgressTyped
<1>2. subframe' \in [frame_control : FrameControls, height : 0 .. Height, row : Nat,
                     consumed_and_flushed : BOOLEAN]
  BY DEF ProgressTyped, MarkConsumed
<1>3. subframe'.row = subframe.row /\ subframe'.height = subframe.height
  BY DEF ProgressTyped, MarkConsumed
<1> QED  BY <1>1, <1>2, <1>3 DEF ProgressTyped, MarkConsumed, FrameControls

-----------------------------------------------------------------------------
(* Each step keeps the invariant.                                         *)

\* next_frame begins: a frame remains, or it fails at once.
LEMMA NextFrameKeeps == IInv /\ NextFrame => IInv'
<1> SUFFICES ASSUME IInv, NextFrame PROVE IInv'  OBVIOUS
<1> USE DEF NextFrame, Idle, Refuse, Running, progress, Called, parser
<1>1. ParserTyped' /\ ProgressTyped'
  BY DEF IInv, Types, ParserTyped, ProgressTyped, Sequences!TypeOK, FrameControls
<1>2. CallTyped'
  BY DEF IInv, Types, CallTyped, Methods, Phases, Verdicts
<1>3. HistoryTyped'
  BY DEF IInv, Types, HistoryTyped, FrameControls
<1>4. Starting' /\ RowsCounted' /\ InfoDescribesFrame' /\ NoPanic'
  BY DEF IInv, Starting, RowsCounted, InfoDescribesFrame, NoPanic, FrameReturned, NoRowLeft,
         StaleTransform, RowLost, CannotTransform, TransformFor
<1>5. AtPhase'
  BY DEF IInv, Types, AtPhase, ProgressTyped, InStep, FrameRemains, MethodsAtPhase, NoRowLeft,
         FrameControls, InUse, Methods
<1>6. InStep'
  BY DEF IInv, Types, InStep, HistoryTyped, AtPhase, FrameRemains, InUse, FrameControls,
         MethodsAtPhase, NoRowLeft, Methods
<1>7. FramesCounted'
  BY DEF IInv, Types, FramesCounted, HistoryTyped, AtPhase, InUse, FrameControls, MethodsAtPhase,
         NoRowLeft, Methods
<1>8. FrameRemains'
  BY DEF IInv, Types, FrameRemains, HistoryTyped, AtPhase, InUse, FrameControls, MethodsAtPhase,
         NoRowLeft, Methods
<1>9. FrameControlled'
  BY DEF IInv, FrameControlled, AtPhase, MethodsAtPhase, NoRowLeft, Methods
<1>10. InfoOfRows'
  BY DEF IInv, Types, InfoOfRows, HistoryTyped, AtPhase, InStep, FrameRemains, InUse, FrameControls,
         MethodsAtPhase, NoRowLeft, Methods
<1>w. RowsExpected'
  BY DEF IInv, Types, RowsExpected, CannotTransform, NoRowLeft, InUse, InStep, AtPhase,
         MethodsAtPhase, Methods, ProgressTyped, HistoryTyped
<1> QED  BY ONLY <1>1, <1>2, <1>3, <1>4, <1>5, <1>6, <1>7, <1>8, <1>9, <1>10, <1>w DEF IInv, Types

\* read_row begins.
LEMMA ReadRowKeeps == IInv /\ ReadRow => IInv'
<1> SUFFICES ASSUME IInv, ReadRow PROVE IInv'  OBVIOUS
<1> USE DEF ReadRow, Idle, Running, Called, parser, progress
<1>1. ParserTyped' /\ ProgressTyped'
  BY DEF IInv, Types, ParserTyped, ProgressTyped, Sequences!TypeOK, FrameControls
<1>2. CallTyped' /\ HistoryTyped'
  BY DEF IInv, Types, CallTyped, HistoryTyped, Methods, Phases, Verdicts, FrameControls
<1>3. Starting' /\ AtPhase' /\ RowsCounted' /\ InfoDescribesFrame' /\ NoPanic'
  BY DEF IInv, Starting, AtPhase, RowsCounted, InfoDescribesFrame, NoPanic, MethodsAtPhase,
         NoRowLeft, FrameReturned, StaleTransform, RowLost, CannotTransform, Methods, TransformFor
<1>4. InStep'
  BY DEF IInv, Types, InStep, HistoryTyped, AtPhase, InUse, FrameControls, MethodsAtPhase,
         NoRowLeft, Methods
<1>5. FramesCounted'
  BY DEF IInv, Types, FramesCounted, HistoryTyped, AtPhase, InUse, FrameControls, MethodsAtPhase,
         NoRowLeft, Methods
<1>6. FrameRemains'
  BY DEF IInv, Types, FrameRemains, HistoryTyped, AtPhase, InUse, FrameControls, MethodsAtPhase,
         NoRowLeft, Methods
<1>7. FrameControlled'
  BY DEF IInv, FrameControlled, AtPhase, MethodsAtPhase, NoRowLeft, Methods
<1>8. InfoOfRows'
  BY DEF IInv, Types, InfoOfRows, HistoryTyped, AtPhase, InUse, FrameControls, MethodsAtPhase,
         NoRowLeft, Methods
<1>w. RowsExpected'
  BY DEF IInv, Types, RowsExpected, CannotTransform, NoRowLeft, InUse, InStep, AtPhase,
         MethodsAtPhase, Methods, ProgressTyped, HistoryTyped
<1> QED  BY ONLY <1>1, <1>2, <1>3, <1>4, <1>5, <1>6, <1>7, <1>8, <1>w DEF IInv, Types

\* next_frame_info begins: with the frame under way over or given up.
LEMMA NextFrameInfoKeeps == IInv /\ NextFrameInfo => IInv'
<1> SUFFICES ASSUME IInv, NextFrameInfo PROVE IInv'  OBVIOUS
<1> USE DEF NextFrameInfo, Idle, Called, FramesAfterThis, Refuse, Running, progress, parser
<1>1. ParserTyped' /\ ProgressTyped'
  BY DEF IInv, Types, ParserTyped, ProgressTyped, Sequences!TypeOK, FrameControls
<1>2. CallTyped'
  BY DEF IInv, Types, CallTyped, Methods, Phases, Verdicts
<1>3. HistoryTyped'
  BY DEF IInv, Types, HistoryTyped, FrameControls
<1>4. Starting' /\ InfoDescribesFrame'
  BY DEF IInv, Starting, InfoDescribesFrame, FrameReturned
<1>5. AtPhase'
  BY DEF IInv, Types, AtPhase, ProgressTyped, InStep, FrameRemains, MethodsAtPhase, NoRowLeft,
         FrameControls, InUse, Methods
<1>6. InStep'
  BY DEF IInv, Types, InStep, ProgressTyped, HistoryTyped, AtPhase, FrameRemains, InUse,
         FrameControls, MethodsAtPhase, NoRowLeft, Methods
<1>7. FramesCounted'
  BY DEF IInv, Types, FramesCounted, HistoryTyped, AtPhase, InUse, FrameControls, MethodsAtPhase,
         NoRowLeft, Methods
<1>8. FrameRemains'
  BY DEF IInv, Types, FrameRemains, ProgressTyped, HistoryTyped, AtPhase, InUse, FrameControls,
         MethodsAtPhase, NoRowLeft, Methods
<1>9. FrameControlled'
  BY DEF IInv, FrameControlled, AtPhase, MethodsAtPhase, NoRowLeft, Methods
<1>10. InfoOfRows'
  BY DEF IInv, Types, InfoOfRows, ProgressTyped, HistoryTyped, AtPhase, InUse, FrameControls,
         MethodsAtPhase, NoRowLeft, Methods
<1>11. NoPanic'
  BY DEF IInv, Types, NoPanic, ProgressTyped, HistoryTyped, AtPhase, FrameRemains, StaleTransform,
         FrameControls, MethodsAtPhase, NoRowLeft, InUse, TransformFor, Methods
<1>12. RowsCounted'
  <2>1. history'.given_up <=> history.given_up \/ (FramesAfterThis > 0 /\ ~ subframe.consumed_and_flushed)
    BY DEF IInv, Types, HistoryTyped
  <2>2. history'.delivered = history.delivered
    BY DEF IInv, Types, HistoryTyped
  <2>3. ~ FrameReturned'
    BY DEF FrameReturned, IInv, Types, CallTyped
  <2>4. (FramesAfterThis > 0 /\ ~ subframe.consumed_and_flushed) \/ UNCHANGED subframe
    BY DEF IInv, Types, ProgressTyped
  <2>5. history.given_up \/ history.delivered = subframe.row - 1
    BY DEF IInv, RowsCounted
  <2> QED  BY ONLY <2>1, <2>2, <2>3, <2>4, <2>5 DEF RowsCounted
<1>w. RowsExpected'
  BY DEF IInv, Types, RowsExpected, CannotTransform, NoRowLeft, InUse, InStep, AtPhase,
         MethodsAtPhase, Methods, ProgressTyped, HistoryTyped
<1> QED  BY ONLY <1>1, <1>2, <1>3, <1>4, <1>5, <1>6, <1>7, <1>8, <1>9, <1>10, <1>11, <1>12, <1>w DEF IInv, Types

\* finish begins, or has been called before.
LEMMA FinishKeeps == IInv /\ Finish => IInv'
<1> SUFFICES ASSUME IInv, Finish PROVE IInv'  OBVIOUS
<1> USE DEF Finish, Idle, Refuse, Running, Called, parser, progress
<1>1. ParserTyped' /\ ProgressTyped'
  BY DEF IInv, Types, ParserTyped, ProgressTyped, Sequences!TypeOK, FrameControls
<1>2. CallTyped'
  BY DEF IInv, Types, CallTyped, Methods, Phases, Verdicts
<1>3. HistoryTyped'
  BY DEF IInv, Types, HistoryTyped, FrameControls
<1>4. Starting' /\ RowsCounted' /\ InfoDescribesFrame' /\ NoPanic'
  BY DEF IInv, Starting, RowsCounted, InfoDescribesFrame, NoPanic, FrameReturned, NoRowLeft,
         StaleTransform, RowLost, CannotTransform, TransformFor
<1>5. InStep'
  BY DEF IInv, Types, InStep, HistoryTyped, AtPhase, InUse, FrameControls, MethodsAtPhase,
         NoRowLeft, Methods
<1>6. FramesCounted'
  BY DEF IInv, Types, FramesCounted, HistoryTyped, InUse, FrameControls
<1>7. FrameControlled'
  BY DEF IInv, FrameControlled, AtPhase, MethodsAtPhase, NoRowLeft, Methods
<1>8. InfoOfRows'
  BY DEF IInv, Types, InfoOfRows, HistoryTyped, AtPhase, InUse, FrameControls, MethodsAtPhase,
         NoRowLeft, Methods
<1>a. history'.finishing
  BY DEF IInv, Types, HistoryTyped
<1>9. AtPhase'
  <2>1. CASE finished
    BY <1>a, <2>1 DEF IInv, Types, CallTyped, AtPhase, MethodsAtPhase, Methods
  <2>2. CASE ~ finished
    BY <1>a, <2>2 DEF IInv, Types, CallTyped, AtPhase, MethodsAtPhase, Methods
  <2> QED  BY <2>1, <2>2
<1>10. FrameRemains'
  <2>1. remaining_frames' = 0
    BY DEF IInv, FrameRemains, progress
  <2> QED  BY <1>a, <2>1 DEF FrameRemains, InUse
<1>w. RowsExpected'
  BY DEF IInv, Types, RowsExpected, CannotTransform, NoRowLeft, InUse, InStep, AtPhase,
         MethodsAtPhase, Methods, ProgressTyped, HistoryTyped
<1> QED  BY ONLY <1>1, <1>2, <1>3, <1>4, <1>5, <1>6, <1>7, <1>8, <1>9, <1>10, <1>w DEF IInv, Types

\* A call fails where it is.
LEMMA InputRunsDryKeeps == IInv /\ InputRunsDry => IInv'
<1> SUFFICES ASSUME IInv, InputRunsDry PROVE IInv'  OBVIOUS
<1> USE DEF InputRunsDry, Reading, Return, parser, progress, Polling, Running, RowMissing, NoRowLeft
<1>1. ParserTyped' /\ ProgressTyped' /\ CallTyped' /\ HistoryTyped'
  BY DEF IInv, Types, ParserTyped, ProgressTyped, CallTyped, HistoryTyped, Sequences!TypeOK,
         FrameControls, Methods, Phases, Verdicts
<1>2. Starting' /\ AtPhase' /\ InStep' /\ FramesCounted' /\ FrameRemains' /\ FrameControlled' /\
      RowsCounted' /\ InfoOfRows' /\ InfoDescribesFrame' /\ NoPanic'
  BY DEF IInv, Starting, AtPhase, InStep, FramesCounted, FrameRemains, FrameControlled, RowsCounted,
         InfoOfRows, InfoDescribesFrame, NoPanic, MethodsAtPhase, InUse, FrameReturned,
         StaleTransform, RowLost, CannotTransform, Methods, Idle, TransformFor
<1>w. RowsExpected'
  BY DEF IInv, Types, RowsExpected, CannotTransform, NoRowLeft, InUse, InStep, AtPhase,
         MethodsAtPhase, Methods, ProgressTyped, HistoryTyped
<1> QED  BY ONLY <1>1, <1>2, <1>w DEF IInv, Types

\* A call fails for good.
LEMMA ParserFailsKeeps == IInv /\ ParserFails => IInv'
<1> SUFFICES ASSUME IInv, ParserFails PROVE IInv'  OBVIOUS
<1> USE DEF ParserFails, Reading, Return, parser, progress, Polling, Running, RowMissing, NoRowLeft
<1>1. ParserTyped' /\ ProgressTyped'
  <2>1. ParserTyped'
    BY DEF IInv, Types, ParserTyped, Sequences!TypeOK, FrameControls
  <2>2. ProgressTyped'
    BY DEF IInv, Types, ProgressTyped, FrameControls
  <2> QED  BY <2>1, <2>2
<1>2. CallTyped' /\ HistoryTyped'
  BY DEF IInv, Types, CallTyped, HistoryTyped, Methods, Phases, Verdicts, FrameControls
<1>3. Starting' /\ AtPhase' /\ InStep' /\ FramesCounted' /\ FrameRemains' /\ FrameControlled' /\
      RowsCounted' /\ InfoOfRows' /\ InfoDescribesFrame' /\ NoPanic'
  BY DEF IInv, Starting, AtPhase, InStep, FramesCounted, FrameRemains, FrameControlled, RowsCounted,
         InfoOfRows, InfoDescribesFrame, NoPanic, MethodsAtPhase, InUse, FrameReturned,
         StaleTransform, RowLost, CannotTransform, Methods, Idle, TransformFor
<1>w. RowsExpected'
  BY DEF IInv, Types, RowsExpected, CannotTransform, NoRowLeft, InUse, InStep, AtPhase,
         MethodsAtPhase, Methods, ProgressTyped, HistoryTyped
<1> QED  BY ONLY <1>1, <1>2, <1>3, <1>w DEF IInv, Types

\* On the way to the next data.
LEMMA SeekPassesKeeps == IInv /\ SeekPasses => IInv'
<1> SUFFICES ASSUME IInv, SeekPasses PROVE IInv'  OBVIOUS
<1> USE DEF SeekPasses, Metadata, progress, Sequences!Other, Fctl, Trns, Plte, Sequences!FrameControl
<1>1. ProgressTyped' /\ CallTyped' /\ HistoryTyped'
  BY DEF IInv, Types, ProgressTyped, CallTyped, HistoryTyped, FrameControls, Methods, Phases,
         Verdicts
<1>2. Starting' /\ AtPhase' /\ InStep' /\ FramesCounted' /\ FrameRemains' /\ RowsCounted' /\
      InfoOfRows' /\ InfoDescribesFrame' /\ NoPanic'
  BY DEF IInv, Starting, AtPhase, InStep, FramesCounted, FrameRemains, RowsCounted, InfoOfRows,
         InfoDescribesFrame, NoPanic, MethodsAtPhase, NoRowLeft, InUse, FrameReturned,
         StaleTransform, RowLost, CannotTransform, Methods, Idle, TransformFor
<1>3. FrameControlled'
  BY DEF IInv, Types, FrameControlled, ParserTyped, Sequences!TypeOK, FrameControls
<1>4. ParserTyped'
  BY MetadataKeepsTypes DEF IInv, Types
<1>w. RowsExpected'
  BY DEF IInv, Types, RowsExpected, CannotTransform, NoRowLeft, InUse, InStep, AtPhase,
         MethodsAtPhase, Methods, ProgressTyped, HistoryTyped
<1> QED  BY ONLY <1>1, <1>2, <1>3, <1>4, <1>w DEF IInv, Types

\* The data sequence of a frame begins.
LEMMA SeekFindsKeeps == IInv /\ SeekFinds => IInv'
<1> SUFFICES ASSUME IInv, SeekFinds PROVE IInv'  OBVIOUS
<1> USE DEF SeekFinds, BeginRun, NewSubframe, TotalFrames, Return, Panic, Phase,
           Sequences!BeginImage, Sequences!BeginFrame, Running
<1>1. ParserTyped' /\ CallTyped'
  BY DEF IInv, Types, ParserTyped, CallTyped, Sequences!TypeOK, FrameControls, Methods, Phases,
         Verdicts
<1>2. ProgressTyped'
  BY ConstantsAssumption DEF IInv, Types, ProgressTyped, ParserTyped, FrameControls,
         Sequences!TypeOK
<1>3. Starting'
  BY DEF IInv, Types, Starting, CallTyped, Methods, Phases, Verdicts
<1>4. AtPhase'
  BY DEF IInv, Types, AtPhase, CallTyped, MethodsAtPhase, NoRowLeft, Methods, Phases, Verdicts
<1>5. InStep'
  BY DEF IInv, Types, InStep, CallTyped, InUse, Methods, Phases, Verdicts
<1>6. FramesCounted'
  BY ConstantsAssumption DEF IInv, Types, FramesCounted, ParserTyped, Starting, InUse,
         Sequences!TypeOK, FrameControls
<1>7. FrameRemains'
  BY ConstantsAssumption DEF IInv, Types, FrameRemains, ParserTyped, AtPhase, InUse,
         Sequences!TypeOK, FrameControls, MethodsAtPhase, NoRowLeft, Methods
<1>8. RowsCounted'
  BY DEF IInv, Types, RowsCounted, CallTyped, FrameReturned, NoRowLeft, Methods, Phases, Verdicts,
         Idle
<1>9. InfoOfRows'
  BY DEF IInv, Types, InfoOfRows, CallTyped, InUse, Methods, Phases, Verdicts
<1>10. InfoDescribesFrame'
  BY DEF IInv, Types, InfoDescribesFrame, CallTyped, FrameReturned, Methods, Phases, Verdicts, Idle
<1>11. NoPanic'
  BY DEF IInv, Types, NoPanic, CallTyped, FrameControlled, StaleTransform, RowLost, CannotTransform, Methods, Phases,
         Verdicts, TransformFor
<1>12. HistoryTyped'
  <2>1. TotalFrames \in Nat
    BY ConstantsAssumption DEF IInv, Types, ParserTyped
  <2>2. PICK total \in Nat : history' = [history EXCEPT !.delivered = 0, !.given_up = FALSE, !.total = total]
    <3>1. CASE call.method = "read_info"
      BY <2>1, <3>1
    <3>2. CASE call.method # "read_info"
      BY <3>2 DEF IInv, Types, HistoryTyped
    <3> QED  BY <3>1, <3>2
  <2>3. history' \in [delivered : Nat, written : Nat, given_up : BOOLEAN, ended : Nat,
                      total : Nat, finishing : BOOLEAN, rows_of : FrameControls]
    <3>1. history \in [delivered : Nat, written : Nat, given_up : BOOLEAN, ended : Nat,
                       total : Nat, finishing : BOOLEAN, rows_of : FrameControls]
      BY DEF IInv, Types, HistoryTyped
    <3> QED  BY ONLY <3>1, <2>2
  <2> QED  BY ONLY <2>3 DEF HistoryTyped, FrameControls
<1>13. FrameControlled'
  <2>1. UNCHANGED << armed, info >>
    OBVIOUS
  <2>2. image' # "ahead"
    <3>1. CASE Sequences!BeginImage  BY <3>1
    <3>2. CASE Sequences!BeginFrame  BY <3>2 DEF IInv, FrameControlled
    <3> QED  BY <3>1, <3>2
  <2> QED  BY <2>1, <2>2 DEF IInv, FrameControlled
<1>w. RowsExpected'
  <2>1. window' = 0 /\ missing' = subframe'.height /\ subframe'.row = 1
    OBVIOUS
  <2>2. missing' \in Nat
    BY ConstantsAssumption DEF IInv, Types, ParserTyped, FrameControls
  <2> QED  BY <2>1, <2>2 DEF RowsExpected
<1> QED  BY ONLY <1>1, <1>2, <1>3, <1>4, <1>5, <1>6, <1>7, <1>8, <1>9, <1>10, <1>11, <1>12, <1>13, <1>w DEF IInv, Types

\* There is no further frame.
LEMMA SeekMissesImageKeeps == IInv /\ SeekMissesImage => IInv'
<1> SUFFICES ASSUME IInv, SeekMissesImage PROVE IInv'  OBVIOUS
<1> USE DEF SeekMissesImage, IendComplete, Return, progress, Sequences!Other, Running
<1>1. ParserTyped' /\ ProgressTyped'
  BY DEF IInv, Types, ParserTyped, ProgressTyped, Sequences!TypeOK, FrameControls
<1>2. CallTyped' /\ HistoryTyped'
  BY DEF IInv, Types, CallTyped, HistoryTyped, Methods, Phases, Verdicts, FrameControls
<1>3. Starting' /\ AtPhase' /\ InStep' /\ FramesCounted' /\ FrameRemains' /\ FrameControlled' /\
      RowsCounted' /\ InfoOfRows' /\ InfoDescribesFrame' /\ NoPanic'
  BY DEF IInv, Starting, AtPhase, InStep, FramesCounted, FrameRemains, FrameControlled, RowsCounted,
         InfoOfRows, InfoDescribesFrame, NoPanic, MethodsAtPhase, NoRowLeft, InUse, FrameReturned,
         StaleTransform, RowLost, CannotTransform, Methods, Idle, TransformFor
<1>w. RowsExpected'
  BY DEF IInv, Types, RowsExpected, CannotTransform, NoRowLeft, InUse, InStep, AtPhase,
         MethodsAtPhase, Methods, ProgressTyped, HistoryTyped
<1> QED  BY ONLY <1>1, <1>2, <1>3, <1>w DEF IInv, Types

\* Events that decode_image_data ignores.
LEMMA DataPassesKeeps == IInv /\ DataPasses => IInv'
<1> SUFFICES ASSUME IInv, DataPasses PROVE IInv'  OBVIOUS
<1> USE DEF DataPasses, Polling, Metadata, BeginRun, IendComplete, progress, RowMissing,
           Sequences!Other, Fctl, Trns, Plte, Sequences!BeginImage, Sequences!BeginFrame, NoRowLeft,
           Sequences!FrameControl
<1>1. ProgressTyped' /\ CallTyped' /\ HistoryTyped'
  BY DEF IInv, Types, ProgressTyped, CallTyped, HistoryTyped, FrameControls, Methods, Phases,
         Verdicts
<1>2. Starting' /\ AtPhase' /\ FramesCounted' /\ FrameRemains' /\ RowsCounted' /\
      InfoDescribesFrame' /\ NoPanic'
  BY DEF IInv, Starting, AtPhase, FramesCounted, FrameRemains, RowsCounted, InfoDescribesFrame,
         NoPanic, MethodsAtPhase, InUse, FrameReturned, StaleTransform, RowLost, CannotTransform, Methods, Idle, TransformFor
<1>3. InStep'
  BY DEF IInv, InStep, AtPhase, InUse, MethodsAtPhase, Methods
<1>4. FrameControlled'
  BY DEF IInv, Types, FrameControlled, ParserTyped, Sequences!TypeOK, FrameControls
<1>5. InfoOfRows'
  BY DEF IInv, InfoOfRows, AtPhase, InStep, InUse, MethodsAtPhase, Methods
<1>6. ParserTyped'
  <2>1. CASE Metadata /\ UNCHANGED open
    BY <2>1, MetadataKeepsTypes DEF IInv, Types
  <2>2. CASE BeginRun /\ UNCHANGED << open, info >>
    BY <2>2 DEF IInv, Types, ParserTyped, Sequences!TypeOK, FrameControls
  <2>3. CASE IendComplete /\ UNCHANGED info
    BY <2>3 DEF IInv, Types, ParserTyped, Sequences!TypeOK, FrameControls
  <2> QED  BY <2>1, <2>2, <2>3
<1>w. RowsExpected'
  BY DEF IInv, Types, RowsExpected, CannotTransform, NoRowLeft, InUse, InStep, AtPhase,
         MethodsAtPhase, Methods, ProgressTyped, HistoryTyped
<1> QED  BY ONLY <1>1, <1>2, <1>3, <1>4, <1>5, <1>6, <1>w DEF IInv, Types

\* Data of the frame under way.
LEMMA DataArrivesKeeps == IInv /\ DataArrives => IInv'
<1> SUFFICES ASSUME IInv, DataArrives PROVE IInv'  OBVIOUS
<1> USE DEF DataArrives, Sequences!Data, Polling, RowMissing, NoRowLeft
<1>a. /\ window' \in Nat /\ missing' \in Nat
      /\ window' + missing' = window + missing
  <2>1. window \in Nat /\ missing \in Nat
    BY DEF IInv, Types, ProgressTyped
  <2>2. CASE Polling /\ RowsArrive
    BY <2>1, <2>2, RowsArriveFacts
  <2>3. CASE call.phase = "drain" /\ UNCHANGED << window, missing >>
    BY <2>1, <2>3
  <2> QED  BY <2>2, <2>3
<1>1. ParserTyped' /\ ProgressTyped' /\ CallTyped' /\ HistoryTyped'
  <2>1. ParserTyped'
    BY DEF IInv, Types, ParserTyped, Sequences!TypeOK, FrameControls
  <2>2. ProgressTyped'
    BY <1>a DEF IInv, Types, ProgressTyped, FrameControls
  <2>3. CallTyped' /\ HistoryTyped'
    BY DEF IInv, Types, CallTyped, HistoryTyped, FrameControls, Methods, Phases, Verdicts
  <2> QED  BY <2>1, <2>2, <2>3
<1>2. Starting' /\ AtPhase' /\ InStep' /\ FramesCounted' /\ FrameRemains' /\ FrameControlled' /\
      RowsCounted' /\ InfoOfRows' /\ InfoDescribesFrame' /\ NoPanic'
  BY DEF IInv, Starting, AtPhase, InStep, FramesCounted, FrameRemains, FrameControlled, RowsCounted,
         InfoOfRows, InfoDescribesFrame, NoPanic, MethodsAtPhase, InUse, FrameReturned,
         StaleTransform, RowLost, CannotTransform, Methods, Idle, TransformFor
<1>w. RowsExpected'
  <2>1. CASE call.phase = "drain"
    BY <2>1 DEF IInv, AtPhase, RowsExpected
  <2>2. CASE call.phase # "drain"
    BY <1>a DEF IInv, RowsExpected, CannotTransform, InUse
  <2> QED  BY <2>1, <2>2
<1> QED  BY ONLY <1>1, <1>2, <1>w DEF IInv, Types

\* The data sequence ends while rows are wanted: the frame is counted off.
LEMMA FlushedInRowKeeps == IInv /\ FlushedInRow => IInv'
<1> SUFFICES ASSUME IInv, FlushedInRow PROVE IInv'  OBVIOUS
<1> USE DEF FlushedInRow, Sequences!EndRun, Polling, Panic, MarkConsumed, RunEnded, RowMissing,
           Phase, NoRowLeft
<1>a. window' \in Nat /\ missing' \in Nat
  BY RowsArriveFacts DEF IInv, Types, ProgressTyped
<1>1. ParserTyped'
  BY DEF IInv, Types, ParserTyped, Sequences!TypeOK, FrameControls
<1>2. CallTyped'
  BY DEF IInv, Types, CallTyped, Methods, Phases, Verdicts
<1>3. HistoryTyped'
  BY DEF IInv, Types, HistoryTyped, FrameControls
<1>4. FrameControlled' /\ InfoDescribesFrame'
  BY DEF IInv, FrameControlled, InfoDescribesFrame, FrameReturned, Idle
<1>5. Starting'
  BY DEF IInv, Types, Starting, CallTyped, Methods, Phases, Verdicts
<1>6. AtPhase'
  BY DEF IInv, Types, AtPhase, CallTyped, MethodsAtPhase, Methods, Phases, Verdicts
<1>7. InStep'
  BY DEF IInv, Types, InStep, ProgressTyped, AtPhase, FrameRemains, InUse, FrameControls,
         MethodsAtPhase, Methods
<1>8. FramesCounted'
  BY DEF IInv, Types, FramesCounted, HistoryTyped, AtPhase, FrameRemains, InUse, FrameControls,
         MethodsAtPhase, Methods
<1>9. FrameRemains'
  BY DEF IInv, Types, FrameRemains, ProgressTyped, AtPhase, InUse, FrameControls, MethodsAtPhase,
         Methods
<1>10. RowsCounted'
  BY DEF IInv, Types, RowsCounted, ProgressTyped, FrameReturned, FrameControls, Idle
<1>11. InfoOfRows'
  BY DEF IInv, Types, InfoOfRows, ProgressTyped, CallTyped, InUse, FrameControls, Methods, Phases,
         Verdicts
<1>12. NoPanic'
  BY DEF IInv, NoPanic, AtPhase, FrameRemains, StaleTransform, RowLost, CannotTransform, MethodsAtPhase, InUse, TransformFor,
         Methods
<1>13. ProgressTyped'
  <2>1. CASE remaining_frames = 0
    BY <1>a, <2>1 DEF IInv, Types, ProgressTyped, FrameControls
  <2>2. CASE remaining_frames # 0
    BY <1>a, <2>2, MarkConsumedKeepsTypes DEF IInv, Types
  <2> QED  BY <2>1, <2>2
<1>w. RowsExpected'
  <2>1. call'.phase = "panicked" \/ subframe'.consumed_and_flushed
    BY DEF IInv, Types, CallTyped, ProgressTyped
  <2> QED  BY <2>1 DEF RowsExpected
<1> QED  BY ONLY <1>1, <1>2, <1>3, <1>4, <1>5, <1>6, <1>7, <1>8, <1>9, <1>10, <1>11, <1>12, <1>13, <1>w DEF IInv, Types

\* The data sequence ends while it is discarded: the frame is counted off.
LEMMA FlushedInDrainKeeps == IInv /\ FlushedInDrain => IInv'
<1> SUFFICES ASSUME IInv, FlushedInDrain PROVE IInv'  OBVIOUS
<1> USE DEF FlushedInDrain, Sequences!EndRun, Panic, MarkConsumed, AfterDrain, RunEnded, Phase,
           Return, Running
<1>a. window' \in Nat /\ missing' \in Nat
  BY DEF IInv, Types, ProgressTyped
<1>1. ParserTyped'
  BY DEF IInv, Types, ParserTyped, Sequences!TypeOK, FrameControls
<1>2. CallTyped'
  BY DEF IInv, Types, CallTyped, Methods, Phases, Verdicts
<1>3. HistoryTyped'
  BY DEF IInv, Types, HistoryTyped, FrameControls
<1>4. FrameControlled'
  BY DEF IInv, FrameControlled
<1>5. Starting'
  BY DEF IInv, Types, Starting, CallTyped, Methods, Phases, Verdicts
<1>6. AtPhase'
  BY DEF IInv, Types, AtPhase, ProgressTyped, CallTyped, MethodsAtPhase, NoRowLeft, FrameControls,
         Methods, Phases, Verdicts
<1>7. InStep'
  BY DEF IInv, Types, InStep, ProgressTyped, AtPhase, FrameRemains, InUse, FrameControls,
         MethodsAtPhase, NoRowLeft, Methods
<1>8. FramesCounted'
  BY DEF IInv, Types, FramesCounted, HistoryTyped, AtPhase, FrameRemains, InUse, FrameControls,
         MethodsAtPhase, NoRowLeft, Methods
<1>9. FrameRemains'
  BY DEF IInv, Types, FrameRemains, ProgressTyped, AtPhase, InUse, FrameControls, MethodsAtPhase,
         NoRowLeft, Methods
<1>10. RowsCounted'
  BY DEF IInv, Types, RowsCounted, ProgressTyped, AtPhase, FrameReturned, NoRowLeft, FrameControls,
         MethodsAtPhase, Idle, Methods
<1>11. InfoOfRows'
  BY DEF IInv, Types, InfoOfRows, CallTyped, InUse, Methods, Phases, Verdicts
<1>12. InfoDescribesFrame'
  BY DEF IInv, Types, InfoDescribesFrame, CallTyped, InfoOfRows, FrameReturned, Methods, Phases,
         Verdicts, InUse, Idle
<1>13. NoPanic'
  BY DEF IInv, Types, NoPanic, CallTyped, AtPhase, FrameRemains, StaleTransform, RowLost, CannotTransform, Methods, Phases,
         Verdicts, MethodsAtPhase, NoRowLeft, InUse, TransformFor
<1>14. ProgressTyped'
  <2>1. CASE remaining_frames = 0
    BY <2>1 DEF IInv, Types, ProgressTyped, FrameControls
  <2>2. CASE remaining_frames # 0
    BY <1>a, <2>2, MarkConsumedKeepsTypes DEF IInv, Types
  <2> QED  BY <2>1, <2>2
<1>w. RowsExpected'
  BY DEF IInv, Types, RowsExpected, CannotTransform, NoRowLeft, InUse, InStep, AtPhase,
         MethodsAtPhase, Methods, ProgressTyped, HistoryTyped
<1> QED  BY ONLY <1>1, <1>2, <1>3, <1>4, <1>5, <1>6, <1>7, <1>8, <1>9, <1>10, <1>11, <1>12, <1>13,
                 <1>14, <1>w DEF IInv, Types

\* The data was too short.
LEMMA NoMoreImageDataKeeps == IInv /\ NoMoreImageData => IInv'
<1> SUFFICES ASSUME IInv, NoMoreImageData PROVE IInv'  OBVIOUS
<1> USE DEF NoMoreImageData, RowMissing, Return, parser, progress, NoRowLeft, Running
<1>1. ParserTyped' /\ ProgressTyped' /\ CallTyped' /\ HistoryTyped'
  BY DEF IInv, Types, ParserTyped, ProgressTyped, CallTyped, HistoryTyped, Sequences!TypeOK,
         FrameControls, Methods, Phases, Verdicts
<1>2. Starting' /\ AtPhase' /\ InStep' /\ FramesCounted' /\ FrameRemains' /\ FrameControlled' /\
      RowsCounted' /\ InfoOfRows' /\ InfoDescribesFrame' /\ NoPanic'
  BY DEF IInv, Starting, AtPhase, InStep, FramesCounted, FrameRemains, FrameControlled, RowsCounted,
         InfoOfRows, InfoDescribesFrame, NoPanic, MethodsAtPhase, InUse, FrameReturned,
         StaleTransform, RowLost, CannotTransform, Methods, Idle, TransformFor
<1>w. RowsExpected'
  BY DEF IInv, Types, RowsExpected, CannotTransform, NoRowLeft, InUse, InStep, AtPhase,
         MethodsAtPhase, Methods, ProgressTyped, HistoryTyped
<1> QED  BY ONLY <1>1, <1>2, <1>w DEF IInv, Types

\* A row is wanted and none is expected: rows were lost before.
LEMMA AssertionFailsKeeps == IInv /\ AssertionFails => IInv'
<1> SUFFICES ASSUME IInv, AssertionFails PROVE IInv'  OBVIOUS
<1> USE DEF AssertionFails, RowMissing, Panic, Phase, parser, progress, NoRowLeft
<1>1. ParserTyped' /\ ProgressTyped' /\ HistoryTyped'
  BY DEF IInv, Types, ParserTyped, ProgressTyped, HistoryTyped, Sequences!TypeOK, FrameControls
<1>2. CallTyped'
  BY DEF IInv, Types, CallTyped, Methods, Phases, Verdicts
<1>3. call'.phase = "panicked" /\ call'.method = call.method /\ result'.verdict = "Panic"
  BY DEF IInv, Types, CallTyped
<1>4. Starting' /\ AtPhase' /\ InStep' /\ FramesCounted' /\ FrameRemains' /\ FrameControlled' /\
      RowsCounted' /\ InfoOfRows' /\ InfoDescribesFrame' /\ RowsExpected'
  BY <1>3 DEF IInv, Starting, AtPhase, InStep, FramesCounted, FrameRemains, FrameControlled,
         RowsCounted, InfoOfRows, InfoDescribesFrame, RowsExpected, MethodsAtPhase, InUse,
         FrameReturned, Methods, Idle
<1>5. NoPanic'
  <2> SUFFICES ASSUME ~ history.finishing PROVE RowLost'
    BY DEF NoPanic
  <2>1. InUse /\ call.phase # "panicked"
    BY DEF InUse, IInv, AtPhase, MethodsAtPhase
  <2>2. CannotTransform \/ window + missing = subframe.height - subframe.row + 1
    BY <2>1 DEF IInv, RowsExpected
  <2>3. window + missing < subframe.height - subframe.row + 1
    BY ConstantsAssumption DEF IInv, Types, ProgressTyped
  <2>4. CannotTransform
    BY <2>2, <2>3 DEF IInv, Types, ProgressTyped
  <2> QED  BY <2>3, <2>4 DEF RowLost, CannotTransform
<1> QED  BY ONLY <1>1, <1>2, <1>3, <1>4, <1>5 DEF IInv, Types

\* A row is delivered, or not.
LEMMA DeliverRowKeeps == IInv /\ DeliverRow => IInv'
<1> SUFFICES ASSUME IInv, DeliverRow PROVE IInv'  OBVIOUS
<1> USE DEF DeliverRow, NoRowLeft, StaleTransform, RowLost, CannotTransform, TransformFor, Return, Panic, parser, Running,
           Phase
<1>a. /\ history.delivered \in Nat /\ history.written \in Nat
      /\ subframe.frame_control \in FrameControls /\ subframe.row \in Nat
  BY DEF IInv, Types, HistoryTyped, ProgressTyped
<1>b. call.method \in {"next_frame", "read_row"}
  BY DEF IInv, AtPhase, MethodsAtPhase
<1>c. /\ subframe'.consumed_and_flushed = subframe.consumed_and_flushed
      /\ subframe'.frame_control = subframe.frame_control
      /\ subframe'.height = subframe.height
      /\ history'.finishing = history.finishing /\ history'.given_up = history.given_up
      /\ history'.ended = history.ended /\ history'.total = history.total
  BY DEF IInv, Types, ProgressTyped, HistoryTyped
<1>d. \/ UNCHANGED << subframe, history >>
      \/ /\ subframe'.row = subframe.row + 1
         /\ history'.delivered = history.delivered + 1
         /\ history'.rows_of = subframe.frame_control
  BY DEF IInv, Types, ProgressTyped, HistoryTyped
<1>e. \/ call' = call /\ result' = result
      \/ call'.phase = "idle" /\ call'.method = "none" /\ result'.verdict # "Ok"
      \/ call'.phase = "panicked" /\ call'.method = call.method /\ result'.verdict # "Ok"
  <2>1. CASE UNCHANGED << call, result >>
    BY <2>1
  <2>2. CASE Panic
    BY <2>2 DEF IInv, Types, CallTyped
  <2>3. CASE Return("Row") \/ Return("PaletteRequired") \/ Return("UnknownFilterMethod")
    BY <1>b, <2>3
  <2> QED  BY <2>1, <2>2, <2>3
<1>1. ParserTyped' /\ ProgressTyped' /\ CallTyped'
  BY DEF IInv, Types, ParserTyped, ProgressTyped, CallTyped, Sequences!TypeOK, FrameControls,
         Methods, Phases, Verdicts
<1>2. InfoDescribesFrame' /\ NoPanic'
  BY DEF IInv, InfoDescribesFrame, NoPanic, FrameReturned, Idle
<1>3. Starting'
  BY DEF IInv, Types, Starting, CallTyped, Methods, Phases, Verdicts
<1>4. FramesCounted'
  BY DEF IInv, Types, FramesCounted, HistoryTyped, Starting, InUse, FrameControls
<1>5. FrameRemains'
  BY DEF IInv, Types, FrameRemains, ProgressTyped, HistoryTyped, Starting, InUse, FrameControls
<1>6. FrameControlled'
  BY DEF IInv, FrameControlled, AtPhase, MethodsAtPhase, Methods
<1>7. HistoryTyped'
  <2>1. history \in [delivered : Nat, written : Nat, given_up : BOOLEAN, ended : Nat,
                     total : Nat, finishing : BOOLEAN, rows_of : FrameControls]
    BY DEF IInv, Types, HistoryTyped
  <2>2. PICK f \in FrameControls, d \in Nat, w \in Nat :
          f = subframe.frame_control /\ d = history.delivered + 1 /\ w = history.written + 1
    BY <1>a
  <2>3. \/ history' = history
        \/ history' = [history EXCEPT !.delivered = d, !.written = w, !.rows_of = f]
    BY <2>2
  <2>4. history' \in [delivered : Nat, written : Nat, given_up : BOOLEAN, ended : Nat,
                      total : Nat, finishing : BOOLEAN, rows_of : FrameControls]
    BY ONLY <2>1, <2>3
  <2> QED  BY ONLY <2>4 DEF HistoryTyped, FrameControls
<1>8. AtPhase'
  BY <1>b, <1>c, <1>e DEF IInv, AtPhase, MethodsAtPhase, Methods
<1>9. InStep'
  BY <1>b, <1>c, <1>e DEF IInv, InStep, InUse, parser
<1>10. RowsCounted'
  <2>1. ~ FrameReturned'
    BY <1>e DEF FrameReturned, Idle
  <2>2. history.given_up \/ history.delivered = subframe.row - 1
    BY DEF IInv, RowsCounted
  <2>3. history'.given_up \/ history'.delivered = subframe'.row - 1
    BY <1>a, <1>c, <1>d, <2>2
  <2> QED  BY <2>1, <2>3 DEF RowsCounted
<1>11. InfoOfRows'
  <2>1. UNCHANGED << run, info >>
    BY DEF parser
  <2>2. history'.rows_of = subframe.frame_control \/ UNCHANGED history
    BY <1>d
  <2>3. CASE call' = call
    <3>1. call'.phase = "rows"  BY <2>3
    <3> QED  BY <1>b, <1>c, <2>1, <2>2, <2>3, <3>1 DEF IInv, InfoOfRows, InUse
  <2>4. CASE call' # call
    BY <1>b, <1>c, <1>e, <2>1, <2>4 DEF IInv, InfoOfRows, InUse
  <2> QED  BY <2>3, <2>4
<1>w. RowsExpected'
  <2> SUFFICES ASSUME InUse', call'.phase # "panicked", ~ subframe'.consumed_and_flushed,
                      ~ NoRowLeft', ~ CannotTransform'
               PROVE  window' + missing' = subframe'.height - subframe'.row + 1
    BY DEF RowsExpected
  <2>1. InUse /\ call.phase # "panicked" /\ ~ subframe.consumed_and_flushed
    BY <1>b, <1>c DEF InUse
  <2>2. ~ CannotTransform
    BY DEF CannotTransform
  <2>3. window + missing = subframe.height - subframe.row + 1
    BY <2>1, <2>2 DEF IInv, RowsExpected
  <2>4. /\ window \in Nat /\ missing \in Nat /\ subframe.height \in Nat /\ missing' = missing
        /\ window # 0
    BY ConstantsAssumption DEF IInv, Types, ProgressTyped
  <2>5. \/ window' = window - 1 /\ subframe'.row = subframe.row + 1
        \/ window' = window /\ subframe'.row = subframe.row
    <3>1. call' # [call EXCEPT !.phase = "panicked"]
      BY DEF IInv, Types, CallTyped
    <3> QED  BY <2>2, <3>1 DEF IInv, Types, ProgressTyped
  <2> QED  BY <1>a, <1>c, <2>3, <2>4, <2>5
<1> QED  BY ONLY <1>1, <1>2, <1>3, <1>4, <1>5, <1>6, <1>7, <1>8, <1>9, <1>10, <1>11, <1>w DEF IInv, Types

\* All rows of the frame are there.
LEMMA RowsDoneKeeps == IInv /\ RowsDone => IInv'
<1> SUFFICES ASSUME IInv, RowsDone PROVE IInv'  OBVIOUS
<1> USE DEF RowsDone, NoRowLeft, AfterDrain, Phase, parser, progress, Return, Running
<1>1. ParserTyped' /\ ProgressTyped' /\ CallTyped' /\ HistoryTyped'
  BY DEF IInv, Types, ParserTyped, ProgressTyped, CallTyped, HistoryTyped, Sequences!TypeOK,
         FrameControls, Methods, Phases, Verdicts
<1>2. RowsCounted'
  BY DEF IInv, RowsCounted, FrameReturned, Idle
<1>3. Starting'
  BY DEF IInv, Types, Starting, CallTyped, Methods, Phases, Verdicts
<1>4. AtPhase'
  BY DEF IInv, Types, AtPhase, CallTyped, MethodsAtPhase, Methods, Phases, Verdicts
<1>5. InStep'
  BY DEF IInv, Types, InStep, CallTyped, AtPhase, InUse, Methods, Phases, Verdicts, MethodsAtPhase
<1>6. FramesCounted'
  BY DEF IInv, FramesCounted, AtPhase, InUse, MethodsAtPhase, Methods
<1>7. FrameRemains'
  BY DEF IInv, FrameRemains, AtPhase, InUse, MethodsAtPhase, Methods
<1>8. FrameControlled'
  BY DEF IInv, FrameControlled, AtPhase, MethodsAtPhase, Methods
<1>9. InfoOfRows'
  BY DEF IInv, Types, InfoOfRows, CallTyped, InUse, Methods, Phases, Verdicts
<1>10. InfoDescribesFrame'
  BY DEF IInv, Types, InfoDescribesFrame, CallTyped, InfoOfRows, FrameReturned, Methods, Phases,
         Verdicts, InUse, Idle
<1>11. NoPanic'
  BY DEF IInv, Types, NoPanic, CallTyped, StaleTransform, RowLost, CannotTransform, Methods, Phases, Verdicts, TransformFor
<1>w. RowsExpected'
  BY DEF IInv, Types, RowsExpected, CannotTransform, NoRowLeft, InUse, InStep, AtPhase,
         MethodsAtPhase, Methods, ProgressTyped, HistoryTyped
<1> QED  BY ONLY <1>1, <1>2, <1>3, <1>4, <1>5, <1>6, <1>7, <1>8, <1>9, <1>10, <1>11, <1>w DEF IInv, Types

\* finish skips what is left.
LEMMA FinishPassesKeeps == IInv /\ FinishPasses => IInv'
<1> SUFFICES ASSUME IInv, FinishPasses PROVE IInv'  OBVIOUS
<1> USE DEF FinishPasses, Sequences!Data, Sequences!EndRun, Metadata, BeginRun, RunEnded, progress,
           Sequences!Other, Fctl, Trns, Plte, Sequences!BeginImage, Sequences!BeginFrame,
           Sequences!FrameControl
<1>1. ProgressTyped' /\ CallTyped' /\ HistoryTyped'
  BY DEF IInv, Types, ProgressTyped, CallTyped, HistoryTyped, FrameControls, Methods, Phases,
         Verdicts
<1>2. Starting' /\ InfoDescribesFrame' /\ NoPanic'
  BY DEF IInv, Starting, InfoDescribesFrame, NoPanic, FrameReturned, StaleTransform, RowLost, CannotTransform, Idle,
         TransformFor
<1>3. AtPhase'
  BY DEF IInv, Types, AtPhase, HistoryTyped, MethodsAtPhase, NoRowLeft, FrameControls, Methods
<1>4. InStep'
  BY DEF IInv, Types, InStep, HistoryTyped, AtPhase, InUse, FrameControls, MethodsAtPhase,
         NoRowLeft, Methods
<1>5. FramesCounted'
  BY DEF IInv, Types, FramesCounted, HistoryTyped, AtPhase, InUse, FrameControls, MethodsAtPhase,
         NoRowLeft, Methods
<1>6. FrameRemains'
  BY DEF IInv, Types, FrameRemains, HistoryTyped, InUse, FrameControls
<1>7. FrameControlled'
  BY DEF IInv, Types, FrameControlled, ParserTyped, Sequences!TypeOK, FrameControls
<1>8. RowsCounted'
  BY DEF IInv, Types, RowsCounted, HistoryTyped, FrameReturned, NoRowLeft, FrameControls, Idle
<1>9. InfoOfRows'
  BY DEF IInv, InfoOfRows, AtPhase, InUse, MethodsAtPhase, NoRowLeft, Methods
<1>10. ParserTyped'
  <2>1. CASE Metadata
    BY <2>1, MetadataKeepsTypes DEF IInv, Types
  <2>2. CASE ~ Metadata
    <3>1. UNCHANGED << open, info >>  BY <2>2
    <3>2. BeginRun \/ Sequences!Data \/ Sequences!EndRun  BY <2>2
    <3> QED  BY <3>1, <3>2 DEF IInv, Types, ParserTyped, Sequences!TypeOK, FrameControls
  <2> QED  BY <2>1, <2>2
<1>w. RowsExpected'
  BY DEF IInv, Types, RowsExpected, CannotTransform, NoRowLeft, InUse, InStep, AtPhase,
         MethodsAtPhase, Methods, ProgressTyped, HistoryTyped
<1> QED  BY ONLY <1>1, <1>2, <1>3, <1>4, <1>5, <1>6, <1>7, <1>8, <1>9, <1>10, <1>w DEF IInv, Types

\* finish is done.
LEMMA FinishEndsKeeps == IInv /\ FinishEnds => IInv'
<1> SUFFICES ASSUME IInv, FinishEnds PROVE IInv'  OBVIOUS
<1> USE DEF FinishEnds, IendComplete, Return, Sequences!Other, Running
<1>1. ParserTyped' /\ ProgressTyped'
  BY DEF IInv, Types, ParserTyped, ProgressTyped, Sequences!TypeOK, FrameControls
<1>2. CallTyped' /\ HistoryTyped'
  BY DEF IInv, Types, CallTyped, HistoryTyped, Methods, Phases, Verdicts, FrameControls
<1>3. Starting' /\ AtPhase' /\ InfoOfRows' /\ NoPanic'
  BY DEF IInv, Starting, AtPhase, InfoOfRows, NoPanic, MethodsAtPhase, NoRowLeft, InUse,
         StaleTransform, RowLost, CannotTransform, Methods, TransformFor
<1>4. InStep'
  BY DEF IInv, InStep, AtPhase, InUse, MethodsAtPhase, NoRowLeft, Methods
<1>5. FramesCounted'
  BY DEF IInv, FramesCounted, AtPhase, InUse, MethodsAtPhase, NoRowLeft, Methods
<1>6. FrameRemains'
  BY DEF IInv, FrameRemains, AtPhase, InUse, MethodsAtPhase, NoRowLeft, Methods
<1>7. FrameControlled'
  BY DEF IInv, FrameControlled, AtPhase, MethodsAtPhase, NoRowLeft, Methods
<1>8. RowsCounted'
  BY DEF IInv, RowsCounted, AtPhase, FrameReturned, NoRowLeft, MethodsAtPhase, Idle, Methods
<1>9. InfoDescribesFrame'
  BY DEF IInv, InfoDescribesFrame, AtPhase, FrameReturned, MethodsAtPhase, NoRowLeft, Idle, Methods
<1>w. RowsExpected'
  BY DEF IInv, Types, RowsExpected, CannotTransform, NoRowLeft, InUse, InStep, AtPhase,
         MethodsAtPhase, Methods, ProgressTyped, HistoryTyped
<1> QED  BY ONLY <1>1, <1>2, <1>3, <1>4, <1>5, <1>6, <1>7, <1>8, <1>9, <1>w DEF IInv, Types

LEMMA InitEstablishes == Init => IInv
<1> SUFFICES ASSUME Init PROVE IInv  OBVIOUS
<1> USE DEF Init, Sequences!Init, Running, NotYetInit, NoHistory, NoFrameControl
<1>1. NoFrameControl \in FrameControls
  BY ConstantsAssumption DEF FrameControls
<1>2. ParserTyped
  BY <1>1 DEF ParserTyped, Sequences!TypeOK
<1>3. ProgressTyped
  <2>1. 0 \in 0 .. Height /\ 0 \in Nat /\ 1 \in Nat
    BY ConstantsAssumption
  <2>2. subframe = [frame_control |-> NoFrameControl, height |-> 0, row |-> 1,
                    consumed_and_flushed |-> FALSE]
    OBVIOUS
  <2>3. subframe \in [frame_control : FrameControls, height : 0 .. Height, row : Nat,
                      consumed_and_flushed : BOOLEAN]
    BY ONLY <1>1, <2>1, <2>2
  <2>4. subframe.row = 1 /\ subframe.height = 0
    BY ONLY <2>2
  <2>5. remaining_frames \in Nat /\ finished \in BOOLEAN /\ window \in Nat /\ missing \in Nat /\
      transform_fn \in {"none", "rgb", "rgba"}
    OBVIOUS
  <2>6. 1 <= subframe.row /\ subframe.row <= subframe.height + 1
    BY ONLY <2>4
  <2> QED  BY ONLY <2>3, <2>5, <2>6 DEF ProgressTyped
<1>4. CallTyped
  BY DEF CallTyped, Methods, Phases, Verdicts
<1>5. HistoryTyped
  BY <1>1 DEF HistoryTyped
<1>6. Starting /\ InStep /\ FramesCounted /\ FrameRemains /\ FrameControlled
  BY DEF Starting, InStep, FramesCounted, FrameRemains, FrameControlled, InUse
<1>7. AtPhase
  BY DEF AtPhase, MethodsAtPhase
<1>8. RowsCounted /\ RowsExpected /\ InfoOfRows /\ InfoDescribesFrame /\ NoPanic
  BY DEF RowsCounted, RowsExpected, InfoOfRows, InfoDescribesFrame, NoPanic, FrameReturned, Idle,
         InUse
<1> QED  BY ONLY <1>2, <1>3, <1>4, <1>5, <1>6, <1>7, <1>8 DEF IInv, Types

LEMMA StutteringKeeps == IInv /\ UNCHANGED vars => IInv'
<1> SUFFICES ASSUME IInv, UNCHANGED vars PROVE IInv'  OBVIOUS
<1> USE DEF vars, parser, progress
<1>1. Types'
  BY DEF IInv, Types, ParserTyped, Sequences!TypeOK, ProgressTyped, CallTyped, HistoryTyped,
         FrameControls, Methods, Phases, Verdicts
<1>2. Starting' /\ AtPhase' /\ InStep' /\ FramesCounted' /\ FrameRemains' /\ FrameControlled'
  BY DEF IInv, Starting, AtPhase, MethodsAtPhase, Methods, InStep, FramesCounted, FrameRemains,
         FrameControlled, InUse, NoRowLeft
<1>3. RowsCounted' /\ InfoOfRows' /\ InfoDescribesFrame' /\ NoPanic'
  BY DEF IInv, RowsCounted, InfoOfRows, InfoDescribesFrame, NoPanic, FrameReturned, Idle, InUse,
         NoRowLeft, StaleTransform, RowLost, CannotTransform, TransformFor
<1>w. RowsExpected'
  BY DEF IInv, Types, RowsExpected, CannotTransform, NoRowLeft, InUse, InStep, AtPhase,
         MethodsAtPhase, Methods, ProgressTyped, HistoryTyped
<1> QED  BY ONLY <1>1, <1>2, <1>3, <1>w DEF IInv

LEMMA Inductive == IInv /\ [Next]_vars => IInv'
BY NextFrameKeeps, ReadRowKeeps, NextFrameInfoKeeps, FinishKeeps, InputRunsDryKeeps,
   ParserFailsKeeps, SeekPassesKeeps, SeekFindsKeeps, SeekMissesImageKeeps, DataPassesKeeps,
   DataArrivesKeeps, FlushedInRowKeeps, FlushedInDrainKeeps, NoMoreImageDataKeeps,
   AssertionFailsKeeps, DeliverRowKeeps, RowsDoneKeeps, FinishPassesKeeps, FinishEndsKeeps, StutteringKeeps
   DEF Next

LEMMA Invariance == Spec => []IInv
BY InitEstablishes, Inductive, PTL DEF Spec

-----------------------------------------------------------------------------
(* What follows, whatever is called and wherever it fails.                 *)

\* Every variable of the Reader keeps its type; remaining_frames, a usize, is never taken
\* below zero by mark_subframe_as_consumed_and_flushed.
THEOREM TypeCorrect == Spec => []TypeOK
<1>1. IInv => TypeOK
  BY DEF IInv, Types, ParserTyped, ProgressTyped, CallTyped, TypeOK, Phases, InfoType
<1> QED  BY <1>1, Invariance, PTL

\* read_until_image_data is never called within a sequence of IDAT or fdAT chunks and
\* decode_image_data never outside of one: the prerequisites stated in read_decoder.rs.
THEOREM ReaderInStep == Spec => []InStep
<1>1. IInv => InStep  BY DEF IInv
<1> QED  BY <1>1, Invariance, PTL

\* Reader::remaining_frames is the number of data sequences that are still to end.
THEOREM FramesAreCounted == Spec => []FramesCounted
<1>1. IInv => FramesCounted  BY DEF IInv
<1> QED  BY <1>1, Invariance, PTL

\* No assertion of mod.rs fails, no subtraction underflows and next_frame_info finds its
\* frame control, as long as finish was not called, the transform is the current one and no
\* row was lost for want of a palette.  In particular remaining_bytes is not zero when a
\* row is wanted, whatever calls failed before, UnknownFilterMethod included.
THEOREM ReaderDoesNotPanic == Spec => []NoPanic
<1>1. IInv => NoPanic  BY DEF IInv
<1> QED  BY <1>1, Invariance, PTL

\* next_frame succeeds only when all rows of the frame were delivered, or the frame given up.
THEOREM FramesAreComplete == Spec => []FrameComplete
<1>1. IInv => FrameComplete
  <2> SUFFICES ASSUME IInv, FrameReturned, ~ history.given_up
               PROVE  history.delivered = subframe.height
    BY DEF FrameComplete
  <2>1. history.delivered = subframe.row - 1 /\ subframe.row > subframe.height
    BY DEF IInv, RowsCounted, NoRowLeft
  <2>2. /\ subframe.row \in Nat /\ subframe.height \in Nat
        /\ subframe.row <= subframe.height + 1
    BY ConstantsAssumption DEF IInv, Types, ProgressTyped
  <2> QED  BY <2>1, <2>2
<1> QED  BY <1>1, Invariance, PTL

\* After next_frame Reader::info has the frame control of the frame that was written.
THEOREM InfoIsOfFrame == Spec => []InfoDescribesFrame
<1>1. IInv => InfoDescribesFrame  BY DEF IInv
<1> QED  BY <1>1, Invariance, PTL
=============================================================================
