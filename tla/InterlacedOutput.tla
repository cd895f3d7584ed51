--------------------------- MODULE InterlacedOutput ---------------------------
(* Reader::next_frame of an interlaced image: the rows of the passes, one after *)
(* another, are transformed and then put into the caller's image.  Transform    *)
(* says what a row becomes, Adam7 which row is next and where it goes; here the *)
(* two are at work on one frame.  bits_pp of the frame are those of the output. *)
EXTENDS Adam7, Transform

ASSUME PicturesAssumption ==
  \A f \in Frames :
    /\ f.picture \in PictureType /\ Len(f.picture.palette) <= 3 * PaletteSize
    /\ ~ is_combination_invalid(f.picture.color_type, f.picture.bit_depth)
    /\ TransparencyFits(f.picture)
    /\ LET bits_in == samples(f.picture.color_type) * f.picture.bit_depth IN
       \A bytes \in f.contents :
         bytes \in Seq(ByteValue) /\ Len(bytes) >= raw_row_length(bits_in, f.width) - 1

outputVars == <<vars, transformVars>>

OutputInit ==
  /\ Init
  /\ TransformStart
  /\ picture = frame.picture
  /\ frame.bits_pp = OutputBits

\* next_interlaced_row: the iterator has said which row is next.
BeginRow ==
  /\ HasLine
  /\ \E bytes \in frame.contents : GiveRow(it.line_width, bytes)
  /\ UNCHANGED vars

TransformRow == TransformStep /\ UNCHANGED vars

\* expand_pass
EndRow == TakeRow /\ NextLine

AdvancePass == step.phase = "idle" /\ NextPass /\ UNCHANGED transformVars

OutputNext == BeginRow \/ TransformRow \/ EndRow \/ AdvancePass

OutputSpec == OutputInit /\ [][OutputNext]_outputVars

-------------------------------------------------------------------------------
\* No assertion fails and no slice is too short while a row is transformed (unless the palette
\* ends within an entry, which parse_plte does not look for); and the row that is put into the
\* image has a unit for every unit that expand_pass takes from it.
RowsFit ==
  /\ LengthsFit
  /\ step.phase = "done" =>
       \A copy \in SparseCopies(Adam7Info) :
         copy[2] \in 0 .. Len(output) * (IF bits THEN 8 ELSE 1) - 1
===============================================================================
