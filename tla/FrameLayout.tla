---------------------------- MODULE FrameLayout ----------------------------
(***************************************************************************)
(* How the bytes of a frame are laid out in rows: the Adam7 pass table and *)
(* iterator of adam7.rs, the row lengths of common.rs, and the two places  *)
(* of the decoder that derive a layout from them, SubframeInfo::new with   *)
(* InterlaceInfoIter (row by row) and Reader::read_until_image_data (the   *)
(* whole frame at once).  Pure operators.                                  *)
(***************************************************************************)
EXTENDS Integers, Sequences
LOCAL Seqs == INSTANCE SequencesExt

\* PassConstants::PASSES
Pass(x_sampling, x_offset, y_sampling, y_offset) ==
  [x_sampling |-> x_sampling, x_offset |-> x_offset,
   y_sampling |-> y_sampling, y_offset |-> y_offset]

PASSES ==
  << Pass(8, 0, 8, 0), Pass(8, 4, 8, 0), Pass(4, 0, 8, 4), Pass(4, 2, 4, 0),
     Pass(2, 0, 4, 2), Pass(2, 1, 2, 0), Pass(1, 0, 2, 1) >>

\* n.saturating_sub(offset).div_ceil(sampling)
Sampled(n, offset, sampling) ==
  IF n <= offset THEN 0 ELSE (n - offset + sampling - 1) \div sampling

count_samples(pass, width) == Sampled(width, PASSES[pass].x_offset, PASSES[pass].x_sampling)
count_lines(pass, height) == Sampled(height, PASSES[pass].y_offset, PASSES[pass].y_sampling)

\* ColorType::raw_row_length_from_width: the filter byte and the packed pixels.
raw_row_length(bits_pp, width) == 1 + (width * bits_pp + 7) \div 8

\* The rows of one pass as Adam7Iterator yields them: none if the pass is empty in
\* either direction.
PassRows(pass, width, height) ==
  IF count_samples(pass, width) = 0 THEN << >>
  ELSE [i \in 1 .. count_lines(pass, height) |->
          [pass |-> pass, line |-> i - 1, samples |-> count_samples(pass, width)]]

\* InterlaceInfoIter
Rows(width, height, interlaced) ==
  IF interlaced
  THEN Seqs!FlattenSeq([pass \in 1 .. 7 |-> PassRows(pass, width, height)])
  ELSE [i \in 1 .. height |-> [pass |-> 0, line |-> i - 1, samples |-> width]]

SumSeq(s) == Seqs!FoldSeq(LAMBDA x, y : x + y, 0, s)

\* frame_bytes in Reader::read_until_image_data
frame_bytes(width, height, interlaced, bits_pp) ==
  IF interlaced
  THEN SumSeq([pass \in 1 .. 7 |->
         raw_row_length(bits_pp, count_samples(pass, width)) * count_lines(pass, height)])
  ELSE raw_row_length(bits_pp, width) * height

\* The layout of a frame, in the form UnfilteringBuffer takes it.
Layout(width, height, interlaced, bits_pp) ==
  LET rows == Rows(width, height, interlaced)
      len == [r \in 1 .. Len(rows) |-> raw_row_length(bits_pp, rows[r].samples)]
  IN [rows |-> Len(rows),
      offset |-> [r \in 1 .. Len(rows) + 1 |-> SumSeq(SubSeq(len, 1, r - 1))],
      first |-> [r \in 1 .. Len(rows) |-> rows[r].line = 0],
      frame_bytes |-> frame_bytes(width, height, interlaced, bits_pp)]
=============================================================================
