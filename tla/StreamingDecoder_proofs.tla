------------------------ MODULE StreamingDecoder_proofs ------------------------
(* What StreamingDecoder does with every input: proofs for all chunks, all ways *)
(* to deal the bytes out, all limits and all sizes of raw_bytes.                *)
EXTENDS StreamingDecoder, TLAPS

-------------------------------------------------------------------------------
(* The data.                                                                   *)

\* Of chunk types and colour types.
Names ==
  LET chunks == UNION { i.chunks : i \in Inputs }
  IN  {"none"} \cup { c.type : c \in chunks } \cup { c.color : c \in chunks }

FrameControls == {NoFrameControl} \cup [bounds : {"whole", "inside"}, seq : Nat, behind : BOOLEAN]

FullInfos ==
  [color : Names, meta : [MetaTypes -> Nat], texts : Nat, frame_control : FrameControls]

Infos == {NoInfo} \cup FullInfos

ChunkStates ==
  [type_ : Names, remaining : Nat, raw_len : Nat, raw_cap : Nat,
   action : {"Process", "Skip", "Reject"}, crc : Nat]

States == [kind : U32Kinds \cup {"ReadChunkData", "ImageData", "None"},
           accumulated_count : 0 .. 3]

ChunkOK(c) ==
  /\ c.type \in Names /\ c.color \in Names
  /\ c.length \in Nat /\ c.value \in Nat /\ c.seq \in Nat

\* What the colour profile and the texts have been charged with.
MetadataSize(i) == IF i = NoInfo THEN 0 ELSE i.meta["iCCP"] + i.texts

\* NoInfo is not taken for an Info.
LEMMA FullInfoIsInfo == ASSUME NEW i \in FullInfos PROVE i # NoInfo
<1>1. "texts" \in DOMAIN i
  BY DEF FullInfos
<1>2. "texts" \notin DOMAIN NoInfo
  BY DEF NoInfo
<1>3. QED
  BY <1>1, <1>2

\* Neither is the absence of a frame control.
LEMMA FrameControlIsOne ==
  ASSUME NEW f \in [bounds : {"whole", "inside"}, seq : Nat, behind : BOOLEAN] PROVE f # NoFrameControl
<1>1. f.bounds # "none" /\ NoFrameControl.bounds = "none"
  BY DEF NoFrameControl
<1>2. QED
  BY <1>1

-------------------------------------------------------------------------------
(* The parsers, as the rest of the proof sees them.                            *)

\* What a parser other than that of fcTL may do with chunk c, Info i and limits l.
ParsesTo(c, i, l, have_image, have_profile, r) ==
  /\ r.info \in Infos
  /\ r.limits \in Nat
  /\ MetadataSize(r.info) + r.limits <= MetadataSize(i) + l
  /\ r.verdict # "Ok" => r.info = i
  /\ r.info = NoInfo => i = NoInfo /\ r.verdict # "Ok"
  /\ r.info # i /\ i = NoInfo => r.info.frame_control = NoFrameControl
                                 /\ r.info.meta["iCCP"] = Absent
  /\ i # NoInfo =>
       /\ r.info.frame_control = i.frame_control
       /\ r.info.color = i.color
       /\ \A t \in MetaTypes :
            \/ r.info.meta[t] = i.meta[t]
            \/ /\ t = c.type
               /\ r.verdict = "Ok"
               /\ ~ Duplicate(c, i, have_profile)
               /\ ~ AfterIdat(c, i, have_image)

\* Filling a field of Info.
LEMMA FillParses ==
  ASSUME NEW c, ChunkOK(c), NEW i \in FullInfos, NEW l \in Nat, NEW n \in Nat, n <= l,
         NEW have_image, NEW have_profile, c.type \in MetaTypes,
         ~ Misplaced(c, i, have_image, have_profile),
         IF c.type = "iCCP" THEN l = n + c.value ELSE n = l
  PROVE  ParsesTo(c, i, l, have_image, have_profile, Fill(c, i, n))
<1> DEFINE r == Fill(c, i, n)
           filled == [i EXCEPT !.meta[c.type] = c.value]
<1>1. r.verdict = "Ok" /\ r.info = filled /\ r.limits = n
  BY DEF Fill, Result
<1>2. /\ filled = [i EXCEPT !.meta = [i.meta EXCEPT ![c.type] = c.value]]
      /\ i.meta \in [MetaTypes -> Nat] /\ c.value \in Nat /\ i # NoInfo
  BY FullInfoIsInfo DEF FullInfos, ChunkOK
<1>3. [i.meta EXCEPT ![c.type] = c.value] \in [MetaTypes -> Nat]
  BY <1>2
<1>4. /\ filled \in FullInfos /\ filled.texts = i.texts /\ i.texts \in Nat
      /\ filled.frame_control = i.frame_control /\ filled.color = i.color
      /\ filled.meta = [i.meta EXCEPT ![c.type] = c.value]
  BY <1>2, <1>3 DEF FullInfos
<1>5. \A t \in MetaTypes : filled.meta[t] = i.meta[t] \/ t = c.type
  BY <1>4, <1>2
<1>6. filled # NoInfo /\ i # NoInfo
  BY <1>4, FullInfoIsInfo
<1>7. "iCCP" \in MetaTypes
  BY DEF MetaTypes
<1>8. filled.meta[c.type] = c.value /\ filled.meta[c.type] \in Nat
  BY <1>4, <1>2, <1>3
<1>9. MetadataSize(filled) + n <= MetadataSize(i) + l
  <2>1. /\ MetadataSize(filled) = filled.meta["iCCP"] + i.texts
        /\ MetadataSize(i) = i.meta["iCCP"] + i.texts
    BY <1>4, <1>6 DEF MetadataSize
  <2>2. i.meta["iCCP"] \in Nat
    BY <1>2, <1>7
  <2>3. CASE c.type = "iCCP"
    BY <2>1, <2>2, <2>3, <1>4, <1>8, <1>2
  <2>4. CASE c.type # "iCCP"
    BY <2>1, <2>2, <2>4, <1>4, <1>5, <1>7
  <2>5. QED
    BY <2>3, <2>4
<1>10. ~ Duplicate(c, i, have_profile) /\ ~ AfterIdat(c, i, have_image)
  BY DEF Misplaced
<1> HIDE DEF filled
<1>11. QED
  BY <1>1, <1>4, <1>5, <1>6, <1>9, <1>10 DEF ParsesTo, Infos

\* A parser that leaves Info alone, and may have charged the limits.
LEMMA RefusalParses ==
  ASSUME NEW c, NEW i \in Infos, NEW l \in Nat, NEW n \in Nat, n <= l,
         NEW have_image, NEW have_profile, NEW verdict, verdict # "Ok" \/ i # NoInfo
  PROVE  ParsesTo(c, i, l, have_image, have_profile, Result(verdict, i, n))
<1>1. MetadataSize(i) \in Nat
  BY DEF MetadataSize, Infos, FullInfos, MetaTypes
<1>2. QED
  BY <1>1 DEF ParsesTo, Result

\* parse_meta.
LEMMA MetaParses ==
  ASSUME NEW c, ChunkOK(c), NEW i \in FullInfos, NEW l \in Nat,
         NEW have_image, NEW have_profile, c.type \in MetaTypes, c.type # "iCCP"
  PROVE  ParsesTo(c, i, l, have_image, have_profile,
                  parse_meta(c, i, l, have_image, have_profile))
<1> DEFINE r == parse_meta(c, i, l, have_image, have_profile)
<1>1. i \in Infos /\ i # NoInfo
  BY FullInfoIsInfo DEF Infos
<1>2. CASE Misplaced(c, i, have_image, have_profile)
  BY <1>1, <1>2, RefusalParses DEF parse_meta
<1>3. CASE ~ Misplaced(c, i, have_image, have_profile)
  <2>1. ParsesTo(c, i, l, have_image, have_profile, Fill(c, i, l))
    BY <1>3, FillParses
  <2>2. \A verdict : ParsesTo(c, i, l, have_image, have_profile, Result(verdict, i, l))
    BY <1>1, RefusalParses
  <2>3. r = Fill(c, i, l) \/ \E verdict : r = Result(verdict, i, l)
    BY <1>3 DEF parse_meta
  <2>4. QED
    BY <2>1, <2>2, <2>3
<1>4. QED
  BY <1>2, <1>3

\* parse_iccp.
LEMMA ProfileParses ==
  ASSUME NEW c, ChunkOK(c), NEW i \in FullInfos, NEW l \in Nat,
         NEW have_image, NEW have_profile, c.type = "iCCP"
  PROVE  ParsesTo(c, i, l, have_image, have_profile,
                  parse_iccp(c, i, l, have_image, have_profile))
<1> DEFINE r == parse_iccp(c, i, l, have_image, have_profile)
<1>1. i \in Infos /\ i # NoInfo /\ c.type \in MetaTypes /\ c.value \in Nat
  BY FullInfoIsInfo DEF Infos, MetaTypes, ChunkOK
<1>2. \A verdict : ParsesTo(c, i, l, have_image, have_profile, Result(verdict, i, l))
  BY <1>1, RefusalParses
<1>3. CASE ~ Misplaced(c, i, have_image, have_profile) /\ c.valid /\ c.value <= l
  <2>1. l - c.value \in Nat /\ l - c.value <= l /\ l = (l - c.value) + c.value
    BY <1>1, <1>3
  <2>2. ParsesTo(c, i, l, have_image, have_profile, Fill(c, i, l - c.value))
    BY <1>1, <1>3, <2>1, FillParses
  <2>3. r = Fill(c, i, l - c.value)
    BY <1>3 DEF parse_iccp
  <2>4. QED
    BY <2>2, <2>3
<1>4. CASE ~ (~ Misplaced(c, i, have_image, have_profile) /\ c.valid /\ c.value <= l)
  <2>1. \E verdict : r = Result(verdict, i, l)
    BY <1>4 DEF parse_iccp
  <2>2. QED
    BY <1>2, <2>1
<1>5. QED
  BY <1>3, <1>4

\* parse_text, parse_ztxt and parse_itxt.
LEMMA TextParses ==
  ASSUME NEW c, ChunkOK(c), NEW i \in FullInfos, NEW l \in Nat,
         NEW have_image, NEW have_profile
  PROVE  ParsesTo(c, i, l, have_image, have_profile, parse_text(c, i, l))
<1> DEFINE r == parse_text(c, i, l)
           counted == Keep(c, i)
<1>1. i \in Infos /\ i # NoInfo /\ c.length \in Nat
  BY FullInfoIsInfo DEF Infos, ChunkOK
<1>2. CASE c.length > l
  <2>1. r = Result("LimitsExceeded", i, l)
    BY <1>2 DEF parse_text
  <2>2. QED
    BY <1>1, <2>1, RefusalParses
<1>3. CASE ~ (c.length > l) /\ ~ c.valid
  <2>1. r = Result("Format", i, l - c.length) /\ l - c.length \in Nat /\ l - c.length <= l
    BY <1>1, <1>3 DEF parse_text
  <2>2. QED
    BY <1>1, <2>1, RefusalParses
<1>4. CASE ~ (c.length > l) /\ c.valid
  <2>1. r = Result("Ok", counted, l - c.length) /\ l - c.length \in Nat
    BY <1>1, <1>4 DEF parse_text
  <2>2. /\ counted \in FullInfos /\ counted.meta = i.meta /\ counted.color = i.color
        /\ counted.frame_control = i.frame_control
        /\ counted.texts = i.texts + c.length /\ i.texts \in Nat
    BY <1>1 DEF FullInfos, Keep
  <2>3. counted # NoInfo
    BY <2>2, FullInfoIsInfo
  <2>a. i.meta["iCCP"] \in Nat
    BY DEF FullInfos, MetaTypes
  <2>b. /\ MetadataSize(counted) = i.meta["iCCP"] + counted.texts
        /\ MetadataSize(i) = i.meta["iCCP"] + i.texts
    BY <1>1, <2>2, <2>3 DEF MetadataSize
  <2>4. MetadataSize(counted) + (l - c.length) <= MetadataSize(i) + l
    BY <1>1, <2>2, <2>a, <2>b
  <2> HIDE DEF counted
  <2>5. ParsesTo(c, i, l, have_image, have_profile, Result("Ok", counted, l - c.length))
    BY <1>1, <2>1, <2>2, <2>3, <2>4 DEF ParsesTo, Infos, Result
  <2>6. QED
    BY <2>1, <2>5
<1>5. QED
  BY <1>2, <1>3, <1>4

\* parse_ihdr.
LEMMA HeaderParses ==
  ASSUME NEW c, ChunkOK(c), NEW i \in Infos, NEW l \in Nat,
         NEW have_image, NEW have_profile
  PROVE  ParsesTo(c, i, l, have_image, have_profile, parse_ihdr(c, i, l))
<1> DEFINE new == [color |-> c.color, meta |-> [t \in MetaTypes |-> Absent],
                   texts |-> 0, frame_control |-> NoFrameControl]
<1>1. CASE i = NoInfo /\ c.valid
  <2>1. parse_ihdr(c, i, l) = Result("Ok", new, l)
    BY <1>1 DEF parse_ihdr
  <2>2. /\ new \in FullInfos /\ new.frame_control = NoFrameControl
        /\ new.meta["iCCP"] = Absent
    BY DEF FullInfos, ChunkOK, FrameControls, MetaTypes, Absent
  <2>3. new # NoInfo
    BY <2>2, FullInfoIsInfo
  <2>4. MetadataSize(new) = 0 /\ MetadataSize(i) = 0
    BY <1>1, <2>2, <2>3 DEF MetadataSize, Absent
  <2> HIDE DEF new
  <2>5. ParsesTo(c, i, l, have_image, have_profile, Result("Ok", new, l))
    BY <1>1, <2>2, <2>3, <2>4 DEF ParsesTo, Result, Infos
  <2>6. QED
    BY <2>1, <2>5
<1>2. CASE ~ (i = NoInfo /\ c.valid)
  BY <1>2, RefusalParses DEF parse_ihdr
<1>3. QED
  BY <1>1, <1>2
-------------------------------------------------------------------------------
(* The place in the input, also with resets.                                   *)

\* Types of everything that is computed with.
Typed ==
  /\ state \in States
  /\ current_chunk \in ChunkStates
  /\ inflater \in {"fresh", "running", "done"}
  /\ info \in Infos
  /\ current_seq_no \in Nat \cup {NoSeq}
  /\ have_idat \in BOOLEAN /\ have_iccp \in BOOLEAN
  /\ ready_for_idat_chunks \in BOOLEAN /\ ready_for_fdat_chunks \in BOOLEAN
  /\ limits \in Nat
  /\ pos \in Nat

\* Where the input comes from.
FromInput ==
  /\ input \in Inputs
  /\ decode_options \in input.options
  /\ chunk \in input.chunks \cup {NoChunk}
  /\ state.kind \in {"Type", "ReadChunkData", "ImageData", "Crc", "ApngSequenceNumber"} =>
       chunk \in input.chunks

\* The parser is inside a chunk, behind its type.
Inside == state.kind \in {"ReadChunkData", "ImageData", "Crc", "ApngSequenceNumber"}

\* How far a chunk has been read, counted, hashed and gathered.
Gathered ==
  Inside =>
    /\ info # NoInfo \/ chunk.type = "IHDR"
    /\ current_chunk.type_ = chunk.type
    /\ current_chunk.remaining <= chunk.length
    /\ ~ decode_options.ignore_crc =>
         current_chunk.crc = 4 + (chunk.length - current_chunk.remaining)
    /\ state.kind = "ApngSequenceNumber" =>
         /\ current_chunk.remaining = chunk.length /\ chunk.length >= 4
         /\ pos = 8 + state.accumulated_count
         /\ chunk.type = "fdAT"
    /\ state.kind = "ImageData" => chunk.type \in DataTypes
    /\ state.kind = "ReadChunkData" => chunk.type \notin DataTypes
    /\ state.kind \in {"ReadChunkData", "ImageData"} =>
         pos = 8 + (chunk.length - current_chunk.remaining)
    /\ state.kind = "Crc" =>
         /\ current_chunk.remaining = 0
         /\ pos = 8 + chunk.length + state.accumulated_count
    /\ chunk.type \notin DataTypes /\ current_chunk.action = "Process" =>
         current_chunk.raw_len + current_chunk.remaining = chunk.length

\* Between the chunks the place is that within a field.
Fields ==
  /\ state.kind \in {"Signature1stU32", "Length"} => pos = state.accumulated_count
  /\ state.kind \in {"Signature2ndU32", "Type"} => pos = 4 + state.accumulated_count

\* What raw_bytes and the profile have taken of the limits.
Charged ==
  (current_chunk.raw_cap - CHUNK_BUFFER_SIZE) + MetadataSize(info) + limits <= input.limit

PlaceInv == Typed /\ FromInput /\ Gathered /\ Fields /\ Charged

\* The chunk on the wire is one of the input.
LEMMA ChunkIsOK == FromInput /\ chunk \in input.chunks => ChunkOK(chunk)
<1>1. SUFFICES ASSUME FromInput, chunk \in input.chunks PROVE ChunkOK(chunk)
  OBVIOUS
<1>2. chunk.type \in Names /\ chunk.color \in Names
  BY <1>1 DEF FromInput, Names
<1>3. QED
  BY <1>1, <1>2, ConstantsAssumption DEF FromInput, ChunkOK

\* The size that is charged for a profile is a number.
LEMMA MetadataSizeType == ASSUME NEW i \in Infos PROVE MetadataSize(i) \in Nat
BY DEF MetadataSize, Infos, FullInfos, MetaTypes

\* Every parser but that of fcTL.
LEMMA EveryParserParses ==
  PlaceInv /\ state.kind = "Crc" =>
    ParsesTo(chunk, info, limits, have_idat, have_iccp, Parsed)
<1> SUFFICES ASSUME PlaceInv, state.kind = "Crc"
             PROVE  ParsesTo(chunk, info, limits, have_idat, have_iccp, Parsed)
  OBVIOUS
<1>1. ChunkOK(chunk) /\ info \in Infos /\ limits \in Nat
  BY ChunkIsOK DEF PlaceInv, FromInput, Typed
<1>2. info # NoInfo \/ chunk.type = "IHDR"
  BY DEF PlaceInv, Gathered, Inside
<1>3. info # NoInfo => info \in FullInfos
  BY <1>1 DEF Infos
<1>4. CASE chunk.type = "IHDR"
  <2>1. Parsed = parse_ihdr(chunk, info, limits)
    BY ONLY <1>4 DEF Parsed, TextTypes, MetaTypes
  <2>2. QED
    BY <1>1, <2>1, HeaderParses
<1>5. CASE chunk.type \in TextTypes
  <2>1. Parsed = parse_text(chunk, info, limits) /\ chunk.type # "IHDR"
    BY ONLY <1>5 DEF Parsed, TextTypes, MetaTypes
  <2>2. QED
    BY <1>1, <1>2, <1>3, <2>1, TextParses
<1>6. CASE chunk.type = "iCCP"
  <2>1. Parsed = parse_iccp(chunk, info, limits, have_idat, have_iccp) /\ chunk.type # "IHDR"
    BY ONLY <1>6 DEF Parsed, TextTypes, MetaTypes
  <2>2. QED
    BY <1>1, <1>2, <1>3, <1>6, <2>1, ProfileParses
<1>7. CASE chunk.type \in MetaTypes \ {"iCCP"}
  <2>1. Parsed = parse_meta(chunk, info, limits, have_idat, have_iccp) /\ chunk.type # "IHDR"
    BY ONLY <1>7 DEF Parsed, TextTypes, MetaTypes
  <2>2. QED
    BY <1>1, <1>2, <1>3, <1>7, <2>1, MetaParses
<1>8. CASE chunk.type \notin {"IHDR", "iCCP"} \cup TextTypes \cup MetaTypes
  <2>1. Parsed = Result("Ok", info, limits)
    BY ONLY <1>8 DEF Parsed, TextTypes, MetaTypes
  <2>2. QED
    BY <1>1, <1>2, <1>8, <2>1, RefusalParses
<1>9. QED
  BY <1>4, <1>5, <1>6, <1>7, <1>8

-------------------------------------------------------------------------------
(* Steps keep the place.                                                       *)

\* At the start.
LEMMA InitPlace == Init => PlaceInv
<1> SUFFICES ASSUME Init PROVE PlaceInv
  OBVIOUS
<1>1. input.limit \in Nat /\ CHUNK_BUFFER_SIZE \in Nat
  BY ConstantsAssumption DEF Init
<1>2. Typed
  <2>1. state \in States
    BY DEF Init, States, State, U32, U32Kinds
  <2>2. current_chunk \in ChunkStates
    <3>1. current_chunk = FreshChunkState
      BY DEF Init
    <3>2. "none" \in Names
      BY DEF Names
    <3>3. FreshChunkState \in ChunkStates
      BY ONLY <1>1, <3>2 DEF ChunkStates, FreshChunkState
    <3>4. QED
      BY <3>1, <3>3
  <2>3. QED
    BY <1>1, <2>1, <2>2 DEF Init, Typed, Infos
<1>3. FromInput /\ Gathered /\ Fields
  BY DEF Init, FromInput, Gathered, Inside, Fields, State, U32
<1>4. Charged
  BY <1>1 DEF Init, Charged, FreshChunkState, MetadataSize
<1>5. QED
  BY <1>2, <1>3, <1>4 DEF PlaceInv

\* A call that stops short of a whole field.
LEMMA AccumulatePlace == PlaceInv /\ AccumulateU32 => PlaceInv'
<1> SUFFICES ASSUME PlaceInv, AccumulateU32 PROVE PlaceInv'
  OBVIOUS
<1>1. PICK len \in input.buf_lens :
        /\ state.accumulated_count + len < 4
        /\ state' = [state EXCEPT !.accumulated_count = @ + len]
        /\ pos' = pos + len
  BY DEF AccumulateU32, Return
<1>2. len \in Nat
  BY ConstantsAssumption DEF PlaceInv, FromInput
<1>3. state \in States /\ pos \in Nat
  BY DEF PlaceInv, Typed
<1>4. /\ state' \in States /\ state'.kind = state.kind
      /\ state'.accumulated_count = state.accumulated_count + len
  BY <1>1, <1>2, <1>3 DEF States
<1>5. UNCHANGED << current_chunk, apng, metadata, flags, given, chunk, before >>
  BY DEF AccumulateU32
<1>6. Typed'
  BY <1>1, <1>2, <1>3, <1>4, <1>5 DEF PlaceInv, Typed, apng, metadata, flags
<1>7. FromInput'
  BY <1>4, <1>5 DEF PlaceInv, FromInput, given
<1>8. Gathered'
  BY <1>1, <1>2, <1>3, <1>4, <1>5, ChunkIsOK
     DEF PlaceInv, Gathered, Inside, given, AccumulateU32, U32Kinds, FromInput, ChunkOK, metadata, States
<1>9. Fields'
  BY <1>1, <1>2, <1>3, <1>4 DEF PlaceInv, Fields, States
<1>10. Charged'
  BY <1>5 DEF PlaceInv, Charged, given, metadata, MetadataSize
<1>11. QED
  BY <1>6, <1>7, <1>8, <1>9, <1>10 DEF PlaceInv

\* A fatal error, whatever the call had changed before.
LEMMA StopPlace ==
  PlaceInv /\ state' = NoState /\ UNCHANGED << wire, given >> /\ Typed' /\ Charged' => PlaceInv'
<1> SUFFICES ASSUME PlaceInv, state' = NoState, UNCHANGED << wire, given >>, Typed', Charged'
             PROVE  PlaceInv'
  OBVIOUS
<1>1. state'.kind = "None"
  BY DEF NoState, State, U32
<1>2. FromInput' /\ Gathered' /\ Fields'
  BY <1>1 DEF PlaceInv, FromInput, Gathered, Inside, Fields, wire, given
<1>3. QED
  BY <1>2 DEF PlaceInv

\* NoState, and the fields of other states.
LEMMA StateTypes ==
  /\ NoState \in States
  /\ \A kind \in U32Kinds \cup {"ReadChunkData", "ImageData", "None"} :
       /\ State(kind) \in States
       /\ State(kind).kind = kind /\ State(kind).accumulated_count = 0
BY DEF NoState, State, U32, States

\* consumed_bytes of a field.
LEMMA ConsumedType ==
  Typed => /\ consumed_bytes \in 1 .. 4
           /\ consumed_bytes = 4 - state.accumulated_count
           /\ 4 - consumed_bytes = state.accumulated_count
           /\ state.accumulated_count \in 0 .. 3
BY DEF Typed, States, consumed_bytes

\* Errors that change nothing else.
LEMMA PlainStopPlace ==
  PlaceInv /\ state' = NoState
  /\ UNCHANGED << wire, given, current_chunk, apng, metadata, flags >> => PlaceInv'
<1> SUFFICES ASSUME PlaceInv, state' = NoState,
                    UNCHANGED << wire, given, current_chunk, apng, metadata, flags >>
             PROVE  PlaceInv'
  OBVIOUS
<1>1. Typed' /\ Charged'
  BY StateTypes DEF PlaceInv, Typed, Charged, wire, given, apng, metadata, flags, MetadataSize
<1>2. QED
  BY <1>1, StopPlace

\* The signature and the length.
LEMMA SignaturePlace == PlaceInv /\ (Signature1stU32 \/ Signature2ndU32 \/ Length) => PlaceInv'
<1> SUFFICES ASSUME PlaceInv, Signature1stU32 \/ Signature2ndU32 \/ Length
             PROVE  PlaceInv'
  OBVIOUS
<1>1. UNCHANGED << given, current_chunk, apng, metadata, flags >>
  BY DEF Signature1stU32, Signature2ndU32, Length
<1>2. Typed /\ FromInput /\ Charged
  BY DEF PlaceInv
<1>3. CASE state' = NoState /\ UNCHANGED wire
  BY <1>1, <1>3, PlainStopPlace
<1>4. CASE \/ Signature1stU32 /\ state' = State("Signature2ndU32")
              /\ Return(consumed_bytes, Nothing) /\ UNCHANGED chunk
           \/ Signature2ndU32 /\ state' = State("Length") /\ pos' = 0 /\ UNCHANGED chunk
           \/ Length /\ chunk' \in input.chunks /\ state' = State("Type")
              /\ Return(consumed_bytes, Nothing)
  <2>1. /\ state' \in States
        /\ state'.accumulated_count = 0
        /\ state'.kind \in {"Signature2ndU32", "Length", "Type"}
        /\ state'.kind = "Type" => chunk' \in input.chunks
        /\ chunk' \in input.chunks \cup {NoChunk}
    BY <1>2, <1>4, StateTypes DEF U32Kinds, FromInput
  <2>2. pos' \in Nat /\ Fields'
    BY <1>2, <1>4, <2>1, StateTypes, ConsumedType
       DEF PlaceInv, Fields, Signature1stU32, Signature2ndU32, Length, Complete, Return, U32Kinds, Typed
  <2>3. Typed'
    BY <1>1, <1>2, <2>1, <2>2 DEF Typed, apng, metadata, flags
  <2>4. FromInput' /\ Gathered'
    BY <1>1, <1>2, <2>1 DEF FromInput, Gathered, Inside, given
  <2>5. Charged'
    BY <1>1, <1>2 DEF Charged, given, metadata, MetadataSize
  <2>6. QED
    BY <2>2, <2>3, <2>4, <2>5 DEF PlaceInv
<1>5. QED
  BY <1>3, <1>4 DEF Signature1stU32, Signature2ndU32, Length, Fatal

\* The type field, first half: what ends a run of data chunks.
LEMMA FlushPlace == PlaceInv /\ (ChunkBeforeIhdr \/ FlushImageData) => PlaceInv'
<1> SUFFICES ASSUME PlaceInv, ChunkBeforeIhdr \/ FlushImageData PROVE PlaceInv'
  OBVIOUS
<1>1. Typed /\ FromInput /\ Fields /\ Charged
  BY DEF PlaceInv
<1>2. CASE ChunkBeforeIhdr
  BY <1>2, PlainStopPlace DEF ChunkBeforeIhdr, Fatal
<1>3. CASE FlushImageData
  <2>1. state.kind = "Type" /\ chunk \in input.chunks
    BY <1>1, <1>3 DEF FlushImageData, Complete, FromInput
  <2>2. chunk.type \in Names
    BY <1>1, <2>1, ChunkIsOK DEF ChunkOK
  <2>3. PICK inflater_ \in {"fresh", "running", "done"} : inflater' = inflater_
    BY <1>1, <1>3 DEF FlushImageData, Typed
  <2>4. UNCHANGED << chunk, before, current_seq_no, metadata, have_idat, given >>
    BY <1>3 DEF FlushImageData, Fatal, wire
  <2>5. /\ current_chunk' \in ChunkStates
        /\ current_chunk'.raw_cap = current_chunk.raw_cap
    BY <1>1, <1>3, <2>2 DEF FlushImageData, Typed, ChunkStates
  <2>6. ready_for_idat_chunks' \in BOOLEAN /\ ready_for_fdat_chunks' \in BOOLEAN
    BY <1>1, <1>3 DEF FlushImageData, Typed
  <2>7. Charged'
    BY <1>1, <2>4, <2>5 DEF Charged, given, metadata, MetadataSize
  <2>8. CASE state' = NoState /\ UNCHANGED wire
    <3>1. Typed'
      BY <1>1, <2>3, <2>4, <2>5, <2>6, <2>8, StateTypes DEF Typed, metadata, wire
    <3>2. QED
      BY <2>4, <2>7, <2>8, <3>1, StopPlace
  <2>9. CASE state' = U32("Type", 4 - consumed_bytes) /\ pos' = pos + 0
    <3>1. /\ state' \in States /\ state'.kind = "Type"
          /\ state'.accumulated_count = state.accumulated_count
      BY <1>1, <2>9, ConsumedType DEF U32, States, U32Kinds
    <3>2. pos' = pos /\ pos \in Nat
      BY <1>1, <2>9 DEF Typed
    <3>3. Typed'
      BY <1>1, <2>3, <2>4, <2>5, <2>6, <3>1, <3>2 DEF Typed, metadata
    <3>4. FromInput' /\ Gathered' /\ Fields'
      BY <1>1, <2>1, <2>4, <3>1, <3>2 DEF FromInput, Gathered, Inside, Fields, given
    <3>5. QED
      BY <2>7, <3>3, <3>4 DEF PlaceInv
  <2>10. QED
    BY <1>3, <2>8, <2>9 DEF FlushImageData, Fatal, Rewind, Return
<1>4. QED
  BY <1>2, <1>3

\* The type field, second half.
LEMMA BeginPlace == PlaceInv /\ BeginChunk => PlaceInv'
<1> SUFFICES ASSUME PlaceInv, BeginChunk PROVE PlaceInv'
  OBVIOUS
<1>1. Typed /\ FromInput /\ Fields /\ Charged
  BY DEF PlaceInv
<1>2. state.kind = "Type" /\ chunk \in input.chunks /\ ChunkOK(chunk)
  BY <1>1, ChunkIsOK DEF BeginChunk, Complete, FromInput
<1>3. ChunkStart \in {"Process", "Skip", "Reject", "Error"}
  BY DEF ChunkStart, ActionFor
<1>4. /\ current_chunk' \in ChunkStates
      /\ current_chunk'.raw_cap = current_chunk.raw_cap
      /\ current_chunk'.type_ = chunk.type
      /\ current_chunk'.remaining = chunk.length
      /\ current_chunk'.raw_len = 0
      /\ ~ decode_options.ignore_crc => current_chunk'.crc = 4
  <2>1. PICK crc_ \in Nat : /\ crc_ = IF decode_options.ignore_crc THEN current_chunk.crc ELSE 4
    BY <1>1 DEF Typed, ChunkStates
  <2>2. PICK action_ \in {"Process", "Skip", "Reject"} :
          action_ = IF ChunkStart = "Error" THEN current_chunk.action ELSE ChunkStart
    BY <1>1, <1>3 DEF Typed, ChunkStates
  <2>3. current_chunk' = [current_chunk EXCEPT !.type_ = chunk.type, !.crc = crc_,
                            !.remaining = chunk.length, !.raw_len = 0, !.action = action_]
    BY <2>1, <2>2 DEF BeginChunk
  <2>4. current_chunk \in ChunkStates /\ chunk.type \in Names /\ chunk.length \in Nat
    BY <1>1, <1>2 DEF Typed, ChunkOK
  <2>5. QED
    BY <2>1, <2>3, <2>4 DEF ChunkStates
<1>5. UNCHANGED << apng, metadata, ready_for_idat_chunks, ready_for_fdat_chunks, given, chunk >>
  BY DEF BeginChunk, Fatal, wire
<1>6. have_idat' \in BOOLEAN
  BY <1>1 DEF BeginChunk, Typed
<1>7. Charged'
  BY <1>1, <1>4, <1>5 DEF Charged, given, metadata, MetadataSize
<1>8. CASE ChunkStart = "Error"
  <2>1. state' = NoState /\ UNCHANGED wire
    BY <1>8 DEF BeginChunk, Fatal
  <2>2. Typed'
    BY <1>1, <1>4, <1>5, <1>6, <2>1, StateTypes DEF Typed, apng, metadata, wire
  <2>3. QED
    BY <1>5, <1>7, <2>1, <2>2, StopPlace
<1>9. CASE ChunkStart # "Error"
  <2>1. PICK kind \in {"ApngSequenceNumber", "ImageData", "ReadChunkData"} :
          /\ state' = State(kind)
          /\ kind = "ApngSequenceNumber" <=> chunk.type = "fdAT"
          /\ kind = "ImageData" <=> chunk.type = "IDAT"
    BY <1>9 DEF BeginChunk
  <2>2. /\ state' \in States /\ state'.kind = kind /\ state'.accumulated_count = 0
    BY <2>1, StateTypes DEF U32Kinds
  <2>3. pos' = pos + consumed_bytes /\ pos = 4 + state.accumulated_count
    BY <1>1, <1>2, <1>9 DEF BeginChunk, Return, Fields
  <2>4. pos' = 8
    BY <1>1, <2>3, ConsumedType DEF Typed
  <2>5. chunk.type = "fdAT" => chunk.length >= 4
    BY <1>9 DEF ChunkStart
  <2>6. Typed'
    BY <1>1, <1>4, <1>5, <1>6, <2>2, <2>4 DEF Typed, apng, metadata
  <2>7. FromInput' /\ Fields'
    BY <1>1, <1>2, <1>5, <2>1, <2>2 DEF FromInput, Fields, given
  <2>8. info # NoInfo \/ chunk.type = "IHDR"
    BY DEF BeginChunk
  <2>9. Gathered'
    BY <1>1, <1>2, <1>4, <1>5, <2>1, <2>2, <2>4, <2>5, <2>8
       DEF Gathered, Inside, given, metadata, ChunkOK, DataTypes
  <2>10. QED
    BY <1>7, <2>6, <2>7, <2>9 DEF PlaceInv
<1>10. QED
  BY <1>8, <1>9

\* The sequence number of an fdAT chunk.
LEMMA SequenceNumberPlace == PlaceInv /\ ApngSequenceNumber => PlaceInv'
<1> SUFFICES ASSUME PlaceInv, ApngSequenceNumber PROVE PlaceInv'
  OBVIOUS
<1>1. Typed /\ FromInput /\ Fields /\ Charged
  BY DEF PlaceInv
<1>2. state.kind = "ApngSequenceNumber" /\ chunk \in input.chunks /\ ChunkOK(chunk)
  BY <1>1, ChunkIsOK DEF ApngSequenceNumber, Complete, FromInput
<1>3. /\ info # NoInfo \/ chunk.type = "IHDR"
      /\ current_chunk.type_ = chunk.type /\ chunk.type = "fdAT"
      /\ current_chunk.remaining = chunk.length /\ chunk.length >= 4
      /\ ~ decode_options.ignore_crc => current_chunk.crc = 4
      /\ pos = 8 + state.accumulated_count
  BY <1>2 DEF PlaceInv, Gathered, Inside, ChunkOK
<1> DEFINE fits == current_seq_no # NoSeq /\ SequenceFits
<1>4. /\ current_chunk' \in ChunkStates
      /\ current_chunk'.type_ = chunk.type
      /\ current_chunk'.raw_cap = current_chunk.raw_cap
      /\ current_chunk'.remaining = chunk.length - 4
      /\ fits /\ ~ decode_options.ignore_crc => current_chunk'.crc = 8
  <2>1. PICK crc_ \in Nat : /\ crc_ = IF fits THEN Hash(current_chunk.crc, 4) ELSE current_chunk.crc
                            /\ fits /\ ~ decode_options.ignore_crc => crc_ = 8
    BY <1>1, <1>3 DEF Typed, ChunkStates, Hash
  <2>2. PICK remaining_ \in Nat : remaining_ = chunk.length - 4
    BY <1>2, <1>3 DEF ChunkOK
  <2>3. current_chunk' = [current_chunk EXCEPT !.remaining = remaining_, !.crc = crc_]
    BY <1>3, <2>1, <2>2 DEF ApngSequenceNumber
  <2>4. current_chunk \in ChunkStates
    BY <1>1 DEF Typed
  <2>5. QED
    BY <1>3, <2>1, <2>2, <2>3, <2>4 DEF ChunkStates
<1>5. UNCHANGED << inflater, metadata, flags, given, chunk >>
  BY DEF ApngSequenceNumber, Fatal, wire
<1>6. Charged'
  BY <1>1, <1>4, <1>5 DEF Charged, given, metadata, MetadataSize
<1>7. CASE fits
  <2>1. /\ state' = State("ImageData") /\ current_seq_no' = chunk.seq
        /\ pos' = pos + consumed_bytes
    BY <1>7 DEF ApngSequenceNumber, Return
  <2>2. state' \in States /\ state'.kind = "ImageData"
    BY <2>1, StateTypes
  <2>3. pos' = 12 /\ chunk.seq \in Nat /\ chunk.length \in Nat
    BY <1>1, <1>2, <1>3, <2>1, ConsumedType DEF Typed, ChunkOK
  <2>4. Typed'
    BY <1>1, <1>4, <1>5, <2>1, <2>2, <2>3 DEF Typed, metadata, flags
  <2>5. FromInput' /\ Fields'
    BY <1>1, <1>2, <1>5, <2>2 DEF FromInput, Fields, given
  <2>6. Gathered'
    BY <1>3, <1>4, <1>5, <1>7, <2>2, <2>3 DEF Gathered, Inside, given, metadata, DataTypes
  <2>7. QED
    BY <1>6, <2>4, <2>5, <2>6 DEF PlaceInv
<1>8. CASE ~ fits
  <2>1. state' = NoState /\ UNCHANGED << wire, current_seq_no >>
    BY <1>8 DEF ApngSequenceNumber, Fatal
  <2>2. Typed'
    BY <1>1, <1>4, <1>5, <2>1, StateTypes DEF Typed, metadata, flags, wire
  <2>3. QED
    BY <1>5, <1>6, <2>1, <2>2, StopPlace
<1>9. QED
  BY <1>7, <1>8

\* The growth of raw_bytes is charged before it happens.
LEMMA GrowPlace == PlaceInv /\ GrowRawBytes => PlaceInv'
<1> SUFFICES ASSUME PlaceInv, GrowRawBytes PROVE PlaceInv'
  OBVIOUS
<1>1. Typed /\ FromInput /\ Fields /\ Charged /\ Gathered
  BY DEF PlaceInv
<1>2. UNCHANGED << apng, info, have_iccp, flags, given >>
  BY DEF GrowRawBytes
<1>3. CASE limits = 0
  <2>1. state' = NoState /\ UNCHANGED << current_chunk, limits, wire >>
    BY <1>3 DEF GrowRawBytes, Fatal
  <2>2. QED
    BY <1>2, <2>1, PlainStopPlace DEF metadata
<1>4. CASE limits # 0
  <2>1. PICK n \in Nat : n = ReserveSize /\ n <= limits
    BY <1>1 DEF ReserveSize, lesser, Typed, ChunkStates
  <2>2. /\ limits' = limits - n
        /\ current_chunk' = [current_chunk EXCEPT !.raw_cap = @ + n]
        /\ state' = state /\ pos' = pos + 0 /\ UNCHANGED << chunk, before >>
    BY <1>4, <2>1 DEF GrowRawBytes, Return
  <2>3. current_chunk \in ChunkStates /\ limits \in Nat /\ pos \in Nat
    BY <1>1 DEF Typed
  <2>4. /\ current_chunk' \in ChunkStates
        /\ current_chunk'.raw_cap = current_chunk.raw_cap + n
        /\ current_chunk'.remaining = current_chunk.remaining
        /\ current_chunk'.raw_len = current_chunk.raw_len
        /\ current_chunk'.crc = current_chunk.crc
        /\ current_chunk'.action = current_chunk.action
        /\ current_chunk'.type_ = current_chunk.type_
        /\ current_chunk.raw_cap \in Nat
    BY <2>1, <2>2, <2>3 DEF ChunkStates
  <2>5. pos' = pos /\ limits' \in Nat
    BY <2>1, <2>2, <2>3
  <2>6. Typed'
    BY <1>1, <1>2, <2>2, <2>4, <2>5 DEF Typed, apng, flags
  <2>7. FromInput' /\ Fields'
    BY <1>1, <1>2, <2>2, <2>5 DEF FromInput, Fields, given
  <2>8. Gathered'
    BY <1>1, <1>2, <2>2, <2>4, <2>5 DEF Gathered, Inside, given
  <2>9. Charged'
    <3>1. MetadataSize(info) \in Nat /\ MetadataSize(info)' = MetadataSize(info)
      BY <1>1, <1>2, MetadataSizeType DEF Typed, MetadataSize
    <3>2. input.limit \in Nat /\ CHUNK_BUFFER_SIZE \in Nat /\ input' = input
      BY <1>1, <1>2, ConstantsAssumption DEF FromInput, given
    <3>3. QED
      BY <1>1, <2>1, <2>2, <2>3, <2>4, <3>1, <3>2 DEF Charged, MetadataSize
  <2>10. QED
    BY <2>6, <2>7, <2>8, <2>9 DEF PlaceInv
<1>5. QED
  BY <1>3, <1>4

\* Contents.
LEMMA ReadPlace == PlaceInv /\ ReadChunkData => PlaceInv'
<1> SUFFICES ASSUME PlaceInv, ReadChunkData PROVE PlaceInv'
  OBVIOUS
<1>1. Typed /\ FromInput /\ Fields /\ Charged /\ Gathered
  BY DEF PlaceInv
<1>2. state.kind = "ReadChunkData" /\ chunk \in input.chunks /\ ChunkOK(chunk)
  BY <1>1, ChunkIsOK DEF ReadChunkData, FromInput
<1>3. current_chunk \in ChunkStates /\ pos \in Nat /\ chunk.length \in Nat
  BY <1>1, <1>2 DEF Typed, ChunkOK
<1>4. PICK len \in input.buf_lens :
        LET n == lesser(current_chunk.remaining,
                        lesser(len, current_chunk.raw_cap - current_chunk.raw_len))
            remaining == current_chunk.remaining - n
        IN /\ current_chunk' = [current_chunk EXCEPT
                                 !.remaining = remaining,
                                 !.crc = Hash(@, n),
                                 !.raw_len = IF current_chunk.action = "Process"
                                             THEN @ + n ELSE @]
           /\ state' = IF remaining = 0 THEN State("Crc") ELSE state
           /\ pos' = pos + n
  BY DEF ReadChunkData, Return
<1>5. PICK n \in Nat :
        /\ n = lesser(current_chunk.remaining,
                      lesser(len, current_chunk.raw_cap - current_chunk.raw_len))
        /\ n <= current_chunk.remaining
  <2>1. len \in Nat
    BY <1>1, ConstantsAssumption DEF FromInput
  <2>2. current_chunk.raw_cap - current_chunk.raw_len \in Nat /\ current_chunk.remaining \in Nat
    BY <1>3 DEF ReadChunkData, ChunkStates
  <2>3. QED
    BY <2>1, <2>2 DEF lesser
<1>6. PICK crc_ \in Nat : /\ crc_ = Hash(current_chunk.crc, n)
                          /\ ~ decode_options.ignore_crc => crc_ = current_chunk.crc + n
  BY <1>3 DEF Hash, ChunkStates
<1>7. PICK raw_len_ \in Nat :
        raw_len_ = IF current_chunk.action = "Process" THEN current_chunk.raw_len + n
                   ELSE current_chunk.raw_len
  BY <1>3 DEF ChunkStates
<1>8. PICK remaining_ \in Nat : remaining_ = current_chunk.remaining - n
  BY <1>3, <1>5 DEF ChunkStates
<1>9. /\ current_chunk' = [current_chunk EXCEPT !.remaining = remaining_,
                             !.crc = crc_, !.raw_len = raw_len_]
      /\ state' = IF remaining_ = 0 THEN State("Crc") ELSE state
      /\ pos' = pos + n
  BY <1>4, <1>5, <1>6, <1>7, <1>8
<1>10. /\ current_chunk' \in ChunkStates
      /\ current_chunk'.raw_cap = current_chunk.raw_cap
      /\ current_chunk'.remaining = remaining_
      /\ current_chunk'.raw_len = raw_len_
      /\ current_chunk'.crc = crc_
      /\ current_chunk'.action = current_chunk.action
      /\ current_chunk'.type_ = current_chunk.type_
  BY <1>3, <1>5, <1>9 DEF ChunkStates
<1>11. /\ state' \in States
       /\ state'.kind = "ReadChunkData" \/ (/\ state'.kind = "Crc"
                                            /\ state'.accumulated_count = 0
                                            /\ remaining_ = 0)
  BY <1>1, <1>2, <1>9, StateTypes DEF Typed, U32Kinds
<1>12. UNCHANGED << apng, metadata, flags, given, chunk, before >>
  BY DEF ReadChunkData
<1>13. Typed'
  BY <1>1, <1>3, <1>5, <1>9, <1>10, <1>11, <1>12 DEF Typed, apng, metadata, flags
<1>14. FromInput' /\ Fields'
  BY <1>1, <1>2, <1>11, <1>12 DEF FromInput, Fields, given
<1>15. Gathered'
  <2>1. /\ pos = 8 + (chunk.length - current_chunk.remaining)
        /\ current_chunk.remaining <= chunk.length /\ current_chunk.type_ = chunk.type
        /\ chunk.type \notin DataTypes
        /\ info # NoInfo \/ chunk.type = "IHDR"
        /\ ~ decode_options.ignore_crc =>
              current_chunk.crc = 4 + (chunk.length - current_chunk.remaining)
        /\ current_chunk.action = "Process" =>
              current_chunk.raw_len + current_chunk.remaining = chunk.length
    BY <1>1, <1>2 DEF Gathered, Inside
  <2>2. current_chunk.remaining \in Nat /\ current_chunk.raw_len \in Nat
    BY <1>3 DEF ChunkStates
  <2>3. QED
    BY <1>3, <1>5, <1>6, <1>7, <1>9, <1>10, <1>11, <1>12, <1>8, <2>1, <2>2
       DEF Gathered, Inside, given, metadata
<1>16. Charged'
  BY <1>1, <1>10, <1>12 DEF Charged, given, metadata, MetadataSize
<1>17. QED
  BY <1>13, <1>14, <1>15, <1>16 DEF PlaceInv

\* Image data.
LEMMA ImagePlace == PlaceInv /\ ImageData => PlaceInv'
<1> SUFFICES ASSUME PlaceInv, ImageData PROVE PlaceInv'
  OBVIOUS
<1>1. Typed /\ FromInput /\ Fields /\ Charged /\ Gathered
  BY DEF PlaceInv
<1>2. state.kind = "ImageData" /\ chunk \in input.chunks /\ ChunkOK(chunk)
  BY <1>1, ChunkIsOK DEF ImageData, FromInput
<1>3. current_chunk \in ChunkStates /\ pos \in Nat /\ chunk.length \in Nat
  BY <1>1, <1>2 DEF Typed, ChunkOK
<1>4. UNCHANGED << current_seq_no, metadata, flags, given, chunk >>
  BY DEF ImageData, Fatal, wire
<1>5. CASE state' = NoState /\ UNCHANGED << wire, current_chunk, inflater >>
  BY <1>4, <1>5, PlainStopPlace DEF apng
<1>6. ASSUME NEW len \in input.buf_lens, NEW consumed \in Nat,
             consumed <= lesser(len, current_chunk.remaining),
             current_chunk' = [current_chunk EXCEPT
                                 !.remaining = current_chunk.remaining - consumed,
                                 !.crc = Hash(current_chunk.crc, consumed)],
             state' = IF current_chunk.remaining - consumed = 0 THEN State("Crc") ELSE state,
             pos' = pos + consumed,
             inflater' \in {"fresh", "running", "done"}
      PROVE  PlaceInv'
  <2>1. len \in Nat /\ current_chunk.remaining \in Nat
    BY <1>1, <1>3, ConstantsAssumption DEF FromInput, ChunkStates
  <2>2. consumed <= current_chunk.remaining
    BY <1>6, <2>1 DEF lesser
  <2>3. PICK crc_ \in Nat : /\ crc_ = Hash(current_chunk.crc, consumed)
                            /\ ~ decode_options.ignore_crc => crc_ = current_chunk.crc + consumed
    BY <1>3, <1>6 DEF Hash, ChunkStates
  <2>4. /\ current_chunk' \in ChunkStates
        /\ current_chunk'.raw_cap = current_chunk.raw_cap
        /\ current_chunk'.remaining = current_chunk.remaining - consumed
        /\ current_chunk'.crc = crc_
        /\ current_chunk'.type_ = current_chunk.type_
    <3>1. PICK remaining_ \in Nat : remaining_ = current_chunk.remaining - consumed
      BY <2>1, <2>2
    <3>2. current_chunk' = [current_chunk EXCEPT !.remaining = remaining_, !.crc = crc_]
      BY <1>6, <2>3, <3>1
    <3>3. QED
      BY <1>3, <2>3, <3>1, <3>2 DEF ChunkStates
  <2>5. /\ state' \in States
        /\ state'.kind = "ImageData" \/ (/\ state'.kind = "Crc"
                                         /\ state'.accumulated_count = 0
                                         /\ current_chunk.remaining - consumed = 0)
    BY <1>1, <1>2, <1>6, StateTypes DEF Typed, U32Kinds
  <2>6. Typed'
    BY <1>1, <1>3, <1>4, <1>6, <2>4, <2>5 DEF Typed, metadata, flags
  <2>7. FromInput' /\ Fields'
    BY <1>1, <1>2, <1>4, <2>5 DEF FromInput, Fields, given
  <2>8. Gathered'
    <3>1. /\ pos = 8 + (chunk.length - current_chunk.remaining)
          /\ current_chunk.remaining <= chunk.length /\ current_chunk.type_ = chunk.type
          /\ chunk.type \in DataTypes
          /\ info # NoInfo \/ chunk.type = "IHDR"
          /\ ~ decode_options.ignore_crc =>
                current_chunk.crc = 4 + (chunk.length - current_chunk.remaining)
      BY <1>1, <1>2 DEF Gathered, Inside
    <3>2. QED
      BY <1>3, <1>4, <1>6, <2>1, <2>2, <2>3, <2>4, <2>5, <3>1
         DEF Gathered, Inside, given, metadata
  <2>9. Charged'
    BY <1>1, <1>4, <2>4 DEF Charged, given, metadata, MetadataSize
  <2>10. QED
    BY <2>6, <2>7, <2>8, <2>9 DEF PlaceInv
<1>7. CASE ~ (state' = NoState /\ UNCHANGED << wire, current_chunk, inflater >>)
  <2>1. PICK len \in input.buf_lens, image_data \in BOOLEAN :
          LET most == lesser(len, current_chunk.remaining)
              inflating == image_data /\ inflater # "done"
          IN \E consumed \in IF inflating THEN 0 .. most ELSE {most} :
               LET remaining == current_chunk.remaining - consumed
               IN /\ current_chunk' = [current_chunk EXCEPT
                                        !.remaining = remaining,
                                        !.crc = Hash(@, HashedBytes(most, consumed))]
                  /\ inflater' \in IF inflating THEN {"running", "done"} ELSE {inflater}
                  /\ state' = IF remaining = 0 THEN State("Crc") ELSE state
                  /\ pos' = pos + consumed
    BY <1>7 DEF ImageData, Fatal, Return
  <2>2. len \in Nat /\ current_chunk.remaining \in Nat
    BY <1>1, <1>3, ConstantsAssumption DEF FromInput, ChunkStates
  <2>3. lesser(len, current_chunk.remaining) \in Nat
    BY <2>2 DEF lesser
  <2>4. inflater \in {"fresh", "running", "done"}
    BY <1>1 DEF Typed
  <2>5. PICK consumed \in (IF image_data /\ inflater # "done"
                          THEN 0 .. lesser(len, current_chunk.remaining)
                          ELSE {lesser(len, current_chunk.remaining)}) :
          /\ current_chunk' = [current_chunk EXCEPT
                                 !.remaining = current_chunk.remaining - consumed,
                                 !.crc = Hash(current_chunk.crc, consumed)]
          /\ inflater' \in IF image_data /\ inflater # "done"
                           THEN {"running", "done"} ELSE {inflater}
          /\ state' = IF current_chunk.remaining - consumed = 0 THEN State("Crc") ELSE state
          /\ pos' = pos + consumed
    BY <2>1 DEF HashedBytes
  <2>6. consumed \in Nat /\ consumed <= lesser(len, current_chunk.remaining)
    BY <2>3, <2>5
  <2>7. inflater' \in {"fresh", "running", "done"}
    BY <2>4, <2>5
  <2>8. QED
    BY <1>6, <2>5, <2>6, <2>7
<1>8. QED
  BY <1>5, <1>7

\* The end of a chunk, whatever it has changed.
LEMMA EndPlace ==
  PlaceInv /\ (NextChunk \/ (state' = NoState /\ UNCHANGED wire)) /\ UNCHANGED given
           /\ current_chunk' = current_chunk /\ inflater' \in {"fresh", "running", "done"}
           /\ info' \in Infos /\ current_seq_no' \in Nat \cup {NoSeq} /\ limits' \in Nat
           /\ flags' \in BOOLEAN \X BOOLEAN \X BOOLEAN /\ have_iccp' \in BOOLEAN
           /\ MetadataSize(info)' + limits' <= MetadataSize(info) + limits
  => PlaceInv'
<1> SUFFICES ASSUME PlaceInv, NextChunk \/ (state' = NoState /\ UNCHANGED wire), UNCHANGED given,
                    current_chunk' = current_chunk, inflater' \in {"fresh", "running", "done"},
                    info' \in Infos, current_seq_no' \in Nat \cup {NoSeq}, limits' \in Nat,
                    flags' \in BOOLEAN \X BOOLEAN \X BOOLEAN, have_iccp' \in BOOLEAN,
                    MetadataSize(info)' + limits' <= MetadataSize(info) + limits
             PROVE  PlaceInv'
  OBVIOUS
<1>1. Typed /\ FromInput /\ Charged
  BY DEF PlaceInv
<1>2. /\ state' \in States /\ state'.kind \in {"Length", "None"} /\ pos' \in Nat
      /\ state'.kind = "Length" => pos' = 0 /\ state'.accumulated_count = 0
      /\ chunk' = chunk
  <2>1. CASE NextChunk
    <3>1. PICK stop \in BOOLEAN : state' = IF stop THEN NoState ELSE State("Length")
      BY <2>1 DEF NextChunk
    <3>2. NoState.kind = "None" /\ State("Length").kind = "Length"
          /\ State("Length").accumulated_count = 0
      BY StateTypes DEF U32Kinds, NoState
    <3>3. QED
      BY <2>1, <3>1, <3>2, StateTypes DEF NextChunk, U32Kinds
  <2>2. CASE state' = NoState /\ UNCHANGED wire
    BY <1>1, <2>2, StateTypes DEF NoState, wire, Typed
  <2>3. QED
    BY <2>1, <2>2
<1>3. Typed'
  BY <1>1, <1>2 DEF Typed, flags
<1>4. FromInput' /\ Gathered' /\ Fields'
  BY <1>1, <1>2 DEF FromInput, Gathered, Inside, Fields, given
<1>5. Charged'
  <2>1. PICK before_ \in Nat, after \in Nat, l \in Nat, k \in Nat, bound \in Nat, cap \in Nat,
             size \in Nat :
          /\ before_ = MetadataSize(info) /\ after = MetadataSize(info)' /\ l = limits
          /\ k = limits' /\ bound = input.limit /\ cap = current_chunk.raw_cap
          /\ size = CHUNK_BUFFER_SIZE
    <3>1. MetadataSize(info) \in Nat
      BY <1>1, MetadataSizeType DEF Typed
    <3>2. MetadataSize(info)' \in Nat
      BY <1>3, MetadataSizeType DEF Typed
    <3>3. input.limit \in Nat /\ CHUNK_BUFFER_SIZE \in Nat
      BY <1>1, ConstantsAssumption DEF FromInput
    <3>4. current_chunk.raw_cap \in Nat /\ limits \in Nat
      BY <1>1 DEF Typed, ChunkStates
    <3>5. QED
      BY <3>1, <3>2, <3>3, <3>4
  <2>2. (cap - size) + before_ + l <= bound /\ after + k <= before_ + l
    BY <1>1, <2>1 DEF Charged
  <2>3. (cap - size) + after + k <= bound
    BY <2>2
  <2>4. input' = input
    BY DEF given
  <2>5. QED
    BY <2>1, <2>3, <2>4 DEF Charged
<1>6. QED
  BY <1>3, <1>4, <1>5 DEF PlaceInv

\* A chunk with a bad checksum, or one that was passed over.
LEMMA PassPlace == PlaceInv /\ (CrcMismatch \/ EndSkippedChunk) => PlaceInv'
<1> SUFFICES ASSUME PlaceInv, CrcMismatch \/ EndSkippedChunk PROVE PlaceInv'
  OBVIOUS
<1>1. UNCHANGED << current_chunk, apng, metadata, flags, given >>
  BY DEF CrcMismatch, EndSkippedChunk
<1>2. NextChunk \/ (state' = NoState /\ UNCHANGED wire)
  BY DEF CrcMismatch, EndSkippedChunk, Fatal
<1>3. Typed
  BY DEF PlaceInv
<1>4. MetadataSize(info) \in Nat /\ MetadataSize(info)' = MetadataSize(info)
  BY <1>1, <1>3, MetadataSizeType DEF Typed, metadata, MetadataSize
<1>5. limits' = limits /\ limits \in Nat
  BY <1>1, <1>3 DEF Typed, metadata
<1>6. MetadataSize(info)' + limits' <= MetadataSize(info) + limits
  BY <1>4, <1>5
<1>7. /\ info' \in Infos /\ have_iccp' \in BOOLEAN /\ flags' \in BOOLEAN \X BOOLEAN \X BOOLEAN
      /\ current_seq_no' \in Nat \cup {NoSeq} /\ inflater' \in {"fresh", "running", "done"}
  BY <1>1, <1>3 DEF Typed, metadata, flags, apng
<1>8. QED
  BY <1>1, <1>2, <1>5, <1>6, <1>7, EndPlace

\* How parse_chunk concludes.
LEMMA ConcludeEnds ==
  ASSUME NEW verdict, Conclude(verdict)
  PROVE  NextChunk \/ (state' = NoState /\ UNCHANGED wire)
BY DEF Conclude, Fatal

\* A chunk that is parsed.
LEMMA ParsePlace == PlaceInv /\ ParseChunk => PlaceInv'
<1> SUFFICES ASSUME PlaceInv, ParseChunk PROVE PlaceInv'
  OBVIOUS
<1>1. Typed
  BY DEF PlaceInv
<1>2. PICK r : r = Parsed /\ ParsesTo(chunk, info, limits, have_idat, have_iccp, r)
  BY EveryParserParses DEF ParseChunk, Processes, Complete
<1>3. /\ info' = r.info /\ limits' = r.limits
      /\ have_iccp' = (have_iccp \/ (chunk.type = "iCCP" /\ r.verdict = "Ok"))
      /\ UNCHANGED << current_chunk, apng, flags, given >>
      /\ Conclude(r.verdict)
  BY <1>2 DEF ParseChunk
<1>4. NextChunk \/ (state' = NoState /\ UNCHANGED wire)
  BY <1>3, ConcludeEnds
<1>5. /\ info' \in Infos /\ limits' \in Nat
      /\ MetadataSize(info)' + limits' <= MetadataSize(info) + limits
  BY <1>2, <1>3 DEF ParsesTo, MetadataSize
<1>6. /\ have_iccp' \in BOOLEAN /\ flags' \in BOOLEAN \X BOOLEAN \X BOOLEAN
      /\ current_seq_no' \in Nat \cup {NoSeq} /\ inflater' \in {"fresh", "running", "done"}
  BY <1>1, <1>3 DEF Typed, flags, apng
<1>7. QED
  BY <1>3, <1>4, <1>5, <1>6, EndPlace

\* What parse_frame_control may do.
LEMMA FrameControlParses ==
  ASSUME NEW c, ChunkOK(c), NEW i \in FullInfos, NEW l, NEW have_image \in BOOLEAN,
         NEW r, r = parse_frame_control(c, i, l, have_image)
  PROVE  /\ r.info \in FullInfos
         /\ r.info.meta = i.meta /\ r.info.color = i.color /\ r.info.texts = i.texts
         /\ r.verdict \in {"Ok", "Format"}
         /\ r.verdict = "Format" => r.info = i
         /\ r.verdict = "Ok" =>
              /\ r.info.frame_control \in [bounds : {"whole", "inside"}, seq : Nat, behind : BOOLEAN]
              /\ r.info.frame_control.seq = c.seq
              /\ r.info.frame_control.behind = have_image
              /\ r.info.frame_control.bounds = "whole" \/ have_image
<1>1. CASE c.valid /\ FrameFits(c, have_image)
  <2>1. PICK f \in [bounds : {"whole", "inside"}, seq : Nat, behind : BOOLEAN] :
          f = [bounds |-> c.bounds, seq |-> c.seq, behind |-> have_image]
    BY <1>1 DEF FrameFits, ChunkOK
  <2>2. r.info = [i EXCEPT !.frame_control = f] /\ r.verdict = "Ok"
    BY <1>1, <2>1 DEF parse_frame_control, Result
  <2>3. r.info \in FullInfos /\ r.info.frame_control = f /\ r.info.meta = i.meta
        /\ r.info.color = i.color /\ r.info.texts = i.texts
    BY <2>2 DEF FullInfos, FrameControls
  <2>4. f.seq = c.seq /\ f.behind = have_image /\ (f.bounds = "whole" \/ have_image)
    BY <1>1, <2>1 DEF FrameFits
  <2>5. QED
    BY <2>2, <2>3, <2>4
<1>2. CASE ~ (c.valid /\ FrameFits(c, have_image))
  BY <1>2 DEF parse_frame_control, Result
<1>3. QED
  BY <1>1, <1>2

\* A frame control.
LEMMA FctlPlace == PlaceInv /\ ParseFctl => PlaceInv'
<1> SUFFICES ASSUME PlaceInv, ParseFctl PROVE PlaceInv'
  OBVIOUS
<1>1. Typed /\ FromInput /\ Gathered
  BY DEF PlaceInv
<1>2. state.kind = "Crc" /\ chunk.type = "fcTL" /\ ChunkOK(chunk)
  BY <1>1, ChunkIsOK DEF ParseFctl, Processes, Complete, FromInput
<1>3. info \in FullInfos /\ info # NoInfo
  BY <1>1, <1>2 DEF Gathered, Inside, Typed, Infos
<1>4. UNCHANGED << current_chunk, have_iccp, limits, have_idat, ready_for_idat_chunks, given >>
  BY DEF ParseFctl
<1>5. PICK r : r = parse_frame_control(chunk, info, limits, have_idat)
  OBVIOUS
<1>6. r.info \in FullInfos /\ r.info.meta = info.meta /\ r.info.texts = info.texts
  BY <1>1, <1>2, <1>3, <1>5, FrameControlParses DEF Typed
<1>7. /\ NextChunk \/ (state' = NoState /\ UNCHANGED wire)
      /\ info' \in {info, r.info}
      /\ current_seq_no' \in {current_seq_no, chunk.seq}
      /\ inflater' \in {inflater, "fresh"}
      /\ ready_for_fdat_chunks' \in {ready_for_fdat_chunks, have_idat}
  BY <1>5, ConcludeEnds DEF ParseFctl, Fatal
<1>8. /\ info' \in Infos /\ MetadataSize(info)' = MetadataSize(info) /\ MetadataSize(info) \in Nat
  <2>1. info' \in FullInfos /\ info'.meta = info.meta /\ info'.texts = info.texts
    BY <1>3, <1>6, <1>7
  <2>2. info' # NoInfo
    BY <2>1, FullInfoIsInfo
  <2>3. QED
    BY <1>1, <1>3, <2>1, <2>2, MetadataSizeType DEF Infos, MetadataSize, Typed
<1>9. limits' = limits /\ limits \in Nat
  BY <1>1, <1>4 DEF Typed
<1>10. MetadataSize(info)' + limits' <= MetadataSize(info) + limits
  BY <1>8, <1>9
<1>11. /\ have_iccp' \in BOOLEAN /\ flags' \in BOOLEAN \X BOOLEAN \X BOOLEAN
       /\ current_seq_no' \in Nat \cup {NoSeq} /\ inflater' \in {"fresh", "running", "done"}
  BY <1>1, <1>2, <1>4, <1>7 DEF Typed, flags, ChunkOK
<1>12. QED
  BY <1>4, <1>7, <1>8, <1>9, <1>10, <1>11, EndPlace

\* A reset keeps what raw_bytes has grown to, and gives nothing back.
LEMMA ResetPlace == PlaceInv /\ Reset => PlaceInv'
<1> SUFFICES ASSUME PlaceInv, Reset PROVE PlaceInv'
  OBVIOUS
<1>1. Typed /\ FromInput /\ Charged
  BY DEF PlaceInv
<1>2. /\ current_chunk' \in ChunkStates
      /\ current_chunk'.raw_cap = current_chunk.raw_cap
  BY <1>1 DEF Reset, Typed, ChunkStates
<1>3. /\ state' \in States /\ state'.kind = "Signature1stU32" /\ state'.accumulated_count = 0
  BY StateTypes DEF Reset, U32Kinds
<1>4. Typed'
  BY <1>1, <1>2, <1>3 DEF Reset, Typed, Infos
<1>5. FromInput' /\ Gathered' /\ Fields'
  BY <1>1, <1>3 DEF Reset, FromInput, Gathered, Inside, Fields, given
<1>6. Charged'
  <2>1. MetadataSize(info)' = 0
    BY DEF Reset, MetadataSize
  <2>2. MetadataSize(info) \in Nat /\ limits \in Nat /\ current_chunk.raw_cap \in Nat
    BY <1>1, MetadataSizeType DEF Typed, ChunkStates
  <2>3. input.limit \in Nat /\ CHUNK_BUFFER_SIZE \in Nat /\ limits' = limits /\ input' = input
    BY <1>1, ConstantsAssumption DEF FromInput, Reset, given
  <2>4. QED
    BY <1>1, <1>2, <2>1, <2>2, <2>3 DEF Charged
<1>7. QED
  BY <1>4, <1>5, <1>6 DEF PlaceInv

\* Stuttering.
LEMMA StutterPlace == PlaceInv /\ UNCHANGED vars => PlaceInv'
BY DEF PlaceInv, Typed, FromInput, Gathered, Inside, Fields, Charged, MetadataSize, vars, wire,
       flags, given

\* Every step, with resets.
LEMMA PlaceStep == PlaceInv /\ [Next \/ Reset]_vars => PlaceInv'
BY AccumulatePlace, SignaturePlace, FlushPlace, BeginPlace, SequenceNumberPlace, GrowPlace,
   ReadPlace, ImagePlace, PassPlace, ParsePlace, FctlPlace, ResetPlace, StutterPlace DEF Next

\* The invariant of SpecWithReset.
LEMMA PlaceInvariant == SpecWithReset => []PlaceInv
BY InitPlace, PlaceStep, PTL DEF SpecWithReset

\* Every variable has its type; what the parser counts with stays unsigned, also when chunks and
\* resets come in any order.
THEOREM ParserTypes == SpecWithReset => []TypeOK
<1>1. PlaceInv => TypeOK
  BY DEF PlaceInv, Typed, FromInput, TypeOK, States, ChunkStates
<1>2. QED
  BY <1>1, PlaceInvariant, PTL

\* However the input is cut into calls, through rewinds and calls that consume nothing, the
\* parser's state agrees with its place in the chunk: no byte is read twice or left out.
THEOREM ParserKeepsItsPlace == SpecWithReset => []KeepsItsPlace
<1>1. PlaceInv => KeepsItsPlace
  <2> SUFFICES ASSUME PlaceInv PROVE KeepsItsPlace
    OBVIOUS
  <2>1. state.kind \in U32Kinds \cup {"ReadChunkData", "ImageData", "None"}
    BY DEF PlaceInv, Typed, States
  <2>2. CASE state.kind \in {"Signature1stU32", "Signature2ndU32", "Length", "Type"}
    BY <2>2 DEF PlaceInv, Fields, KeepsItsPlace
  <2>3. CASE state.kind = "ApngSequenceNumber"
    BY <2>3 DEF PlaceInv, Gathered, Inside, KeepsItsPlace
  <2>4. CASE state.kind \in {"ReadChunkData", "ImageData"}
    BY <2>4 DEF PlaceInv, Gathered, Inside, KeepsItsPlace
  <2>5. CASE state.kind = "Crc"
    BY <2>5 DEF PlaceInv, Gathered, Inside, KeepsItsPlace
  <2>6. CASE state.kind = "None"
    BY <2>6 DEF KeepsItsPlace
  <2>7. QED
    BY <2>1, <2>2, <2>3, <2>4, <2>5, <2>6 DEF U32Kinds
<1>2. QED
  BY <1>1, PlaceInvariant, PTL

\* A checksum is compared only when it covers the type and all of the contents, and a parser
\* sees all of the contents.
THEOREM ParserReadsWhole == SpecWithReset => []ChunkReadWhole
<1>1. PlaceInv => ChunkReadWhole
  <2> SUFFICES ASSUME PlaceInv, state.kind = "Crc"
               PROVE  /\ decode_options.ignore_crc \/ current_chunk.crc = 4 + chunk.length
                      /\ current_chunk.action = "Process" /\ chunk.type \notin DataTypes =>
                           current_chunk.raw_len = chunk.length
    BY DEF ChunkReadWhole
  <2>1. chunk.length \in Nat /\ current_chunk.raw_len \in Nat
    BY ChunkIsOK DEF PlaceInv, FromInput, Typed, ChunkStates, ChunkOK
  <2>2. QED
    BY <2>1 DEF PlaceInv, Gathered, Inside
<1>2. QED
  BY <1>1, PlaceInvariant, PTL

\* The growth of raw_bytes, the profile and the bytes of the text chunks that are kept are taken
\* from the limits, and no more than there is, over any number of chunks and resets.
THEOREM ParserWithinLimits == SpecWithReset => []WithinLimits
<1>1. PlaceInv => WithinLimits
  <2> SUFFICES ASSUME PlaceInv PROVE WithinLimits
    OBVIOUS
  <2>1. PICK size \in Nat : size = MetadataSize(info)
    BY MetadataSizeType DEF PlaceInv, Typed
  <2>2. limits \in Nat /\ current_chunk.raw_cap \in Nat
    BY DEF PlaceInv, Typed, ChunkStates
  <2>3. input.limit \in Nat /\ CHUNK_BUFFER_SIZE \in Nat
    BY ConstantsAssumption DEF PlaceInv, FromInput
  <2>4. (current_chunk.raw_cap - CHUNK_BUFFER_SIZE) + size + limits <= input.limit
    BY <2>1 DEF PlaceInv, Charged
  <2>5. (current_chunk.raw_cap - CHUNK_BUFFER_SIZE) + size <= input.limit - limits
    BY <2>2, <2>3, <2>4
  <2>6. QED
    BY <2>1, <2>2, <2>5 DEF WithinLimits, MetadataSize
<1>2. QED
  BY <1>1, PlaceInvariant, PTL

-------------------------------------------------------------------------------
(* Runs of data chunks, and the frame controls they belong to.                 *)

\* What is ready goes with the run that is under way.
Sequenced ==
  /\ have_idat => info # NoInfo
  /\ ~ have_idat => inflater = "fresh"
  /\ ready_for_fdat_chunks => have_idat /\ ~ ready_for_idat_chunks
  /\ have_idat /\ ready_for_idat_chunks => current_chunk.type_ = "IDAT"
  /\ ready_for_fdat_chunks => current_chunk.type_ = "fdAT" \/ inflater = "fresh"

\* The last chunk was of a run that is under way, or a data chunk outside of a run is about to be
\* refused.
Running(type) == state.kind # "None" /\ current_chunk.type_ = type

Underway ==
  /\ Running("IDAT") =>
       (ready_for_idat_chunks /\ have_idat) \/ (state.kind = "Type" /\ chunk.type = "IDAT")
  /\ Running("fdAT") =>
       ready_for_fdat_chunks \/ (state.kind = "Type" /\ chunk.type = "fdAT")

\* The frame control in force is that of the run.
Governed ==
  /\ info # NoInfo /\ ready_for_idat_chunks => info.frame_control.bounds \in {"none", "whole"}
  /\ state.kind # "None" /\ ready_for_fdat_chunks =>
       /\ info.frame_control # NoFrameControl
       /\ info.frame_control.behind
       /\ current_chunk.type_ # "fdAT" => info.frame_control.seq = current_seq_no

\* A profile is only there if it was read.
Profiled == info # NoInfo /\ info.meta["iCCP"] # Absent => have_iccp

\* Nothing changes before a chunk that holds no image data is parsed.
Untouched ==
  \/ state.kind = "ReadChunkData"
  \/ state.kind = "Crc" /\ chunk.type \notin DataTypes
  => Known = before

RunInv == Sequenced /\ Underway /\ Governed /\ Profiled /\ Untouched

\* At the start.
LEMMA InitRun == Init => RunInv
BY DEF Init, RunInv, Sequenced, Underway, Running, Governed, Profiled, Untouched, State, U32,
       FreshChunkState

\* Steps that touch neither the flags nor anything the decoder knows.
LEMMA QuietRun ==
  RunInv
  /\ UNCHANGED << info, inflater, current_seq_no, flags, have_iccp, current_chunk.type_ >>
  /\ (state.kind = "Type" /\ state'.kind # "None" => state'.kind = "Type" /\ chunk' = chunk)
  /\ (state.kind = "None" => state'.kind = "None")
  /\ (state'.kind = "ImageData" => state.kind = "ImageData")
  /\ (state'.kind \in {"ReadChunkData", "Crc"} =>
         /\ chunk' = chunk /\ before' = before
         /\ state.kind \in {state'.kind, "ReadChunkData"})
  => RunInv'
<1> SUFFICES ASSUME RunInv,
               UNCHANGED << info, inflater, current_seq_no, flags, have_iccp, current_chunk.type_ >>,
               state.kind = "Type" /\ state'.kind # "None" => state'.kind = "Type" /\ chunk' = chunk,
               state.kind = "None" => state'.kind = "None",
               state'.kind = "ImageData" => state.kind = "ImageData",
               state'.kind \in {"ReadChunkData", "Crc"} =>
                 /\ chunk' = chunk /\ before' = before
                 /\ state.kind \in {state'.kind, "ReadChunkData"}
             PROVE  RunInv'
  OBVIOUS
<1>1. Sequenced' /\ Profiled'
  BY DEF RunInv, Sequenced, Profiled, flags
<1>2. Underway'
  BY DEF RunInv, Underway, Running, flags
<1>3. Governed'
  BY DEF RunInv, Governed, flags
<1>4. Known' = Known
  BY DEF Known, flags
<1>5. Untouched'
  BY <1>4 DEF RunInv, Untouched
<1>6. QED
  BY <1>1, <1>2, <1>3, <1>5 DEF RunInv

\* Fields, and contents that are gathered or passed over.
LEMMA FieldRun ==
  PlaceInv /\ RunInv /\ (AccumulateU32 \/ Signature1stU32 \/ Signature2ndU32 \/ Length
                        \/ ChunkBeforeIhdr \/ CrcMismatch \/ EndSkippedChunk) => RunInv'
<1> SUFFICES ASSUME PlaceInv, RunInv,
                    AccumulateU32 \/ Signature1stU32 \/ Signature2ndU32 \/ Length
                    \/ ChunkBeforeIhdr \/ CrcMismatch \/ EndSkippedChunk
             PROVE  RunInv'
  OBVIOUS
<1>1. UNCHANGED << info, inflater, current_seq_no, flags, have_iccp, current_chunk.type_ >>
  BY DEF AccumulateU32, Signature1stU32, Signature2ndU32, Length, ChunkBeforeIhdr, CrcMismatch,
         EndSkippedChunk, apng, metadata
<1>2. CASE AccumulateU32
  <2>1. state'.kind = state.kind /\ UNCHANGED << chunk, before >>
    BY <1>2 DEF AccumulateU32, PlaceInv, Typed, States
  <2>2. QED
    BY <1>1, <2>1, QuietRun
<1>3. CASE ~ AccumulateU32
  <2>1. /\ state'.kind \in {"None", "Signature2ndU32", "Length", "Type"}
        /\ state.kind \in {"Signature1stU32", "Signature2ndU32", "Length", "Crc", "Type"}
        /\ state.kind = "Type" => state'.kind = "None"
    BY <1>3 DEF Signature1stU32, Signature2ndU32, Length, ChunkBeforeIhdr, CrcMismatch,
                EndSkippedChunk, Complete, Fatal, NextChunk, NoState, State, U32
  <2>2. QED
    BY <1>1, <2>1, QuietRun
<1>4. QED
  BY <1>2, <1>3

\* Contents that are gathered or passed over.
LEMMA ContentsRun == PlaceInv /\ RunInv /\ (GrowRawBytes \/ ReadChunkData) => RunInv'
<1> SUFFICES ASSUME PlaceInv, RunInv, GrowRawBytes \/ ReadChunkData PROVE RunInv'
  OBVIOUS
<1>1. UNCHANGED << info, inflater, current_seq_no, flags, have_iccp, chunk, before >>
  BY DEF GrowRawBytes, ReadChunkData, Fatal, Return, apng, metadata, wire
<1>2. current_chunk'.type_ = current_chunk.type_
  BY DEF GrowRawBytes, ReadChunkData, PlaceInv, Typed, ChunkStates
<1>3. state.kind = "ReadChunkData" /\ state'.kind \in {"ReadChunkData", "Crc", "None"}
  <2>1. state.kind = "ReadChunkData" /\ state' \in {state, State("Crc"), NoState}
    BY DEF GrowRawBytes, ReadChunkData, Fatal
  <2>2. QED
    BY ONLY <2>1 DEF NoState, State, U32
<1>4. QED
  BY <1>1, <1>2, <1>3, QuietRun

\* The end of a run.
LEMMA FlushRun == PlaceInv /\ RunInv /\ FlushImageData => RunInv'
<1> SUFFICES ASSUME PlaceInv, RunInv, FlushImageData PROVE RunInv'
  OBVIOUS
<1>1. /\ state.kind = "Type" /\ current_chunk.type_ \in DataTypes
      /\ chunk.type # current_chunk.type_
      /\ UNCHANGED << chunk, before, current_seq_no, metadata, have_idat, given >>
  BY DEF FlushImageData, Complete, EndsDataSequence, Fatal, wire
<1>2. have_idat
  BY <1>1 DEF RunInv, Sequenced, Underway, Running, DataTypes
<1>3. state'.kind \in {"Type", "None"}
  BY DEF FlushImageData, Fatal, NoState, State, U32
<1>4. Untouched' /\ Profiled'
  BY <1>1, <1>3 DEF RunInv, Untouched, Profiled, metadata
<1>5. CASE /\ current_chunk' = [current_chunk EXCEPT !.type_ = chunk.type]
           /\ ready_for_idat_chunks' = FALSE /\ ready_for_fdat_chunks' = FALSE
           /\ state' = U32("Type", 4 - consumed_bytes)
  <2>1. current_chunk'.type_ = chunk.type /\ state'.kind = "Type"
    BY <1>5 DEF PlaceInv, Typed, ChunkStates, U32
  <2>2. QED
    BY <1>1, <1>2, <1>4, <1>5, <2>1
       DEF RunInv, Sequenced, Underway, Running, Governed, metadata
<1>6. CASE UNCHANGED << inflater, current_chunk, ready_for_idat_chunks, ready_for_fdat_chunks >>
  BY <1>1, <1>2, <1>3, <1>4, <1>6 DEF RunInv, Sequenced, Underway, Running, Governed, metadata
<1>7. QED
  BY <1>5, <1>6 DEF FlushImageData

\* The beginning of a chunk.
LEMMA BeginRun == PlaceInv /\ RunInv /\ BeginChunk => RunInv'
<1> SUFFICES ASSUME PlaceInv, RunInv, BeginChunk PROVE RunInv'
  OBVIOUS
<1>1. /\ state.kind = "Type"
      /\ info # NoInfo \/ chunk.type = "IHDR"
      /\ current_chunk.type_ \in DataTypes => chunk.type = current_chunk.type_
      /\ UNCHANGED << apng, metadata, ready_for_idat_chunks, ready_for_fdat_chunks, given, chunk >>
  BY DEF BeginChunk, Complete, EndsDataSequence, Fatal, wire
<1>2. current_chunk'.type_ = chunk.type
  BY DEF BeginChunk, PlaceInv, Typed, ChunkStates
<1>3. have_idat \in BOOLEAN /\ ready_for_idat_chunks \in BOOLEAN /\ ready_for_fdat_chunks \in BOOLEAN
  BY DEF PlaceInv, Typed
<1>4. Profiled'
  BY <1>1 DEF RunInv, Profiled, metadata
<1>5. CASE ChunkStart = "Error"
  <2>1. state'.kind = "None" /\ have_idat' = have_idat
    BY <1>5 DEF BeginChunk, Fatal, NoState, State, U32
  <2>2. Sequenced'
    BY <1>1, <1>2, <2>1 DEF RunInv, Sequenced, apng, metadata, DataTypes
  <2>3. QED
    BY <1>1, <1>2, <1>4, <2>1, <2>2
       DEF RunInv, Underway, Running, Governed, Untouched, metadata, DataTypes
<1>6. CASE ChunkStart # "Error"
  <2>1. /\ chunk.type = "fdAT" => ready_for_fdat_chunks
        /\ chunk.type = "IDAT" => ready_for_idat_chunks
    BY <1>6 DEF ChunkStart
  <2>2. /\ have_idat' = (have_idat \/ chunk.type = "IDAT")
        /\ before' = Known
    BY <1>6 DEF BeginChunk
  <2>3. /\ chunk.type = "fdAT" => state'.kind = "ApngSequenceNumber"
        /\ chunk.type = "IDAT" => state'.kind = "ImageData"
        /\ chunk.type \notin DataTypes => state'.kind = "ReadChunkData"
    BY <1>6 DEF BeginChunk, State, U32, DataTypes
  <2>4. Sequenced'
    BY <1>1, <1>2, <1>3, <2>1, <2>2 DEF RunInv, Sequenced, apng, metadata, DataTypes
  <2>5. Underway'
    BY <1>1, <1>2, <2>1, <2>2 DEF RunInv, Underway, Running
  <2>6. Governed'
    BY <1>1, <1>2, <2>1, <2>3 DEF RunInv, Governed, apng, metadata, DataTypes
  <2>7. Untouched'
    <3>1. CASE chunk.type \in DataTypes
      BY <1>1, <2>3, <3>1 DEF Untouched, DataTypes
    <3>2. CASE chunk.type \notin DataTypes
      <4>1. have_idat' = have_idat
        BY <1>3, <2>2, <3>2 DEF DataTypes
      <4>2. Known' = Known
        BY <1>1, <4>1 DEF Known, flags, apng, metadata
      <4>3. QED
        BY <2>2, <4>2 DEF Untouched
    <3>3. QED
      BY <3>1, <3>2
  <2>8. QED
    BY <1>4, <2>4, <2>5, <2>6, <2>7 DEF RunInv
<1>7. QED
  BY <1>5, <1>6

\* Once the data of a frame has begun numbers go on.
LEMMA SequenceNumberRun == PlaceInv /\ RunInv /\ ApngSequenceNumber => RunInv'
<1> SUFFICES ASSUME PlaceInv, RunInv, ApngSequenceNumber PROVE RunInv'
  OBVIOUS
<1>1. /\ state.kind = "ApngSequenceNumber" /\ chunk.type = "fdAT"
      /\ current_chunk.type_ = "fdAT"
      /\ UNCHANGED << inflater, metadata, flags, given, chunk, before >>
  BY DEF ApngSequenceNumber, Complete, Fatal, wire, PlaceInv, Gathered, Inside
<1>2. current_chunk'.type_ = current_chunk.type_
  BY DEF ApngSequenceNumber, PlaceInv, Typed, ChunkStates
<1>3. ready_for_fdat_chunks /\ info # NoInfo
  BY <1>1 DEF RunInv, Underway, Running, Sequenced
<1>4. Sequenced' /\ Profiled'
  BY <1>1, <1>2 DEF RunInv, Sequenced, Profiled, metadata, flags
<1>5. Underway'
  BY <1>1, <1>2, <1>3 DEF Underway, Running, flags
<1>6. \/ /\ state'.kind = "ImageData" /\ current_seq_no # NoSeq
         /\ current_seq_no' = current_seq_no + 1
      \/ state'.kind = "None" /\ current_seq_no' = current_seq_no
  BY DEF ApngSequenceNumber, SequenceFits, Fatal, NoState, State, U32
<1>7. Governed'
  <2>1. info.frame_control # NoFrameControl /\ info.frame_control.behind
    BY <1>1, <1>3 DEF RunInv, Governed
  <2>2. QED
    BY <1>1, <1>2, <1>3, <2>1 DEF RunInv, Governed, Sequenced, metadata, flags
<1>8. Untouched'
  BY <1>6 DEF Untouched
<1>9. QED
  BY <1>4, <1>5, <1>7, <1>8 DEF RunInv

\* Data of a run.
LEMMA ImageRun == PlaceInv /\ RunInv /\ ImageData => RunInv'
<1> SUFFICES ASSUME PlaceInv, RunInv, ImageData PROVE RunInv'
  OBVIOUS
<1>1. /\ state.kind = "ImageData" /\ chunk.type \in DataTypes
      /\ current_chunk.type_ = chunk.type
      /\ UNCHANGED << current_seq_no, metadata, flags, given, chunk, before >>
  BY DEF ImageData, Fatal, wire, PlaceInv, Gathered, Inside
<1>2. current_chunk'.type_ = current_chunk.type_
  BY DEF ImageData, PlaceInv, Typed, ChunkStates
<1>3. state'.kind \in {"ImageData", "Crc", "None"}
  <2>1. state' \in {state, State("Crc"), NoState}
    BY DEF ImageData, Fatal
  <2>2. QED
    BY ONLY <1>1, <2>1 DEF NoState, State, U32
<1>4. /\ current_chunk.type_ = "IDAT" => ready_for_idat_chunks /\ have_idat
      /\ current_chunk.type_ = "fdAT" => ready_for_fdat_chunks
      /\ have_idat
  BY <1>1 DEF RunInv, Underway, Running, Sequenced, DataTypes
<1>5. Sequenced' /\ Profiled'
  BY <1>1, <1>2, <1>4 DEF RunInv, Sequenced, Profiled, metadata, flags, DataTypes
<1>6. Underway'
  BY <1>1, <1>2, <1>4 DEF Underway, Running, flags
<1>7. Governed'
  BY <1>1, <1>2, <1>3 DEF RunInv, Governed, metadata, flags
<1>8. Untouched'
  BY <1>1, <1>3 DEF Untouched
<1>9. QED
  BY <1>5, <1>6, <1>7, <1>8 DEF RunInv

\* A chunk that is parsed.
LEMMA ParseRun == PlaceInv /\ RunInv /\ ParseChunk => RunInv'
<1> SUFFICES ASSUME PlaceInv, RunInv, ParseChunk PROVE RunInv'
  OBVIOUS
<1>1. PICK r : r = Parsed /\ ParsesTo(chunk, info, limits, have_idat, have_iccp, r)
  BY EveryParserParses DEF ParseChunk, Processes, Complete
<1>2. /\ state.kind = "Crc" /\ info' = r.info
      /\ have_iccp' = (have_iccp \/ (chunk.type = "iCCP" /\ r.verdict = "Ok"))
      /\ UNCHANGED << current_chunk, apng, flags, given >>
  BY <1>1 DEF ParseChunk, Processes, Complete
<1>3. state'.kind \in {"Length", "None"}
  BY DEF ParseChunk, Conclude, NextChunk, Fatal, NoState, State, U32
<1>4. /\ info' # NoInfo => IF info # NoInfo THEN info'.frame_control = info.frame_control
                           ELSE info'.frame_control = NoFrameControl
      /\ info # NoInfo => info' # NoInfo
  BY <1>1, <1>2 DEF ParsesTo
<1>5. Sequenced'
  BY <1>2, <1>4 DEF RunInv, Sequenced, apng, flags
<1>6. Underway'
  BY <1>2, <1>3 DEF RunInv, Underway, Running, flags
<1>7. Governed'
  BY <1>2, <1>3, <1>4 DEF RunInv, Governed, Sequenced, apng, flags, NoFrameControl
<1>8. Profiled'
  <2>1. CASE info = NoInfo
    BY <1>1, <1>2, <2>1 DEF ParsesTo, Profiled
  <2>2. CASE info # NoInfo
    <3>1. "iCCP" \in MetaTypes
      BY DEF MetaTypes
    <3>2. \/ r.info.meta["iCCP"] = info.meta["iCCP"]
          \/ chunk.type = "iCCP" /\ r.verdict = "Ok"
      BY <1>1, <2>2, <3>1 DEF ParsesTo
    <3>3. QED
      BY <1>2, <2>2, <3>2 DEF RunInv, Profiled
  <2>3. QED
    BY <2>1, <2>2
<1>9. Untouched'
  BY <1>3 DEF Untouched
<1>10. QED
  BY <1>5, <1>6, <1>7, <1>8, <1>9 DEF RunInv

\* A frame control.
LEMMA FctlRun == PlaceInv /\ RunInv /\ ParseFctl => RunInv'
<1> SUFFICES ASSUME PlaceInv, RunInv, ParseFctl PROVE RunInv'
  OBVIOUS
<1>1. /\ state.kind = "Crc" /\ chunk.type = "fcTL" /\ ChunkOK(chunk)
      /\ current_chunk.type_ = "fcTL"
  BY ChunkIsOK DEF ParseFctl, Processes, Complete, PlaceInv, FromInput, Gathered, Inside
<1>2. info \in FullInfos /\ info # NoInfo
  BY <1>1 DEF PlaceInv, Gathered, Inside, Typed, Infos
<1>3. UNCHANGED << current_chunk, have_iccp, limits, have_idat, ready_for_idat_chunks, given >>
  BY DEF ParseFctl
<1>4. PICK r : r = parse_frame_control(chunk, info, limits, have_idat)
  OBVIOUS
<1>5. /\ r.info \in FullInfos
      /\ r.info.meta = info.meta
      /\ r.verdict \in {"Ok", "Format"}
      /\ r.verdict = "Format" => r.info = info
      /\ r.verdict = "Ok" =>
           /\ r.info.frame_control \in [bounds : {"whole", "inside"}, seq : Nat, behind : BOOLEAN]
           /\ r.info.frame_control.seq = chunk.seq
           /\ r.info.frame_control.behind = have_idat
           /\ r.info.frame_control.bounds = "whole" \/ have_idat
  <2>1. have_idat \in BOOLEAN
    BY DEF PlaceInv, Typed
  <2>2. QED
    BY <1>1, <1>2, <1>4, <2>1, FrameControlParses
<1>6. r.info # NoInfo
  BY <1>5, FullInfoIsInfo
<1>7. have_idat => ~ ready_for_idat_chunks
  BY <1>1 DEF RunInv, Sequenced
<1>8. state'.kind \in {"Length", "None"}
  BY DEF ParseFctl, Conclude, NextChunk, Fatal, NoState, State, U32
<1>9. CASE ~ SequenceFits
  <2>1. UNCHANGED << info, current_seq_no, inflater, ready_for_fdat_chunks >> /\ state'.kind = "None"
    BY <1>9 DEF ParseFctl, Fatal, NoState, State, U32
  <2>2. QED
    BY <1>3, <2>1 DEF RunInv, Sequenced, Underway, Running, Governed, Profiled, Untouched
<1>10. CASE SequenceFits
  <2>1. /\ info' = r.info /\ current_seq_no' = chunk.seq /\ inflater' = "fresh"
        /\ ready_for_fdat_chunks' = have_idat
        /\ Conclude(r.verdict)
    BY <1>4, <1>10 DEF ParseFctl
  <2>2. state'.kind # "None" => r.verdict = "Ok"
    BY <1>1, <1>5, <2>1 DEF Conclude, Fatal, NoState, State, U32
  <2>3. Sequenced'
    BY <1>1, <1>2, <1>3, <1>6, <1>7, <2>1 DEF RunInv, Sequenced
  <2>4. Underway'
    BY <1>1, <1>3 DEF Underway, Running
  <2>5. Governed'
    <3>1. CASE r.verdict = "Ok"
      <4>1. r.info.frame_control # NoFrameControl
        BY <1>5, <3>1, FrameControlIsOne
      <4>2. chunk.seq \in Nat
        BY <1>1 DEF ChunkOK
      <4>3. QED
        BY <1>3, <1>5, <1>7, <1>8, <2>1, <3>1, <4>1, <4>2 DEF Governed
    <3>2. CASE r.verdict = "Format"
      BY <1>2, <1>3, <1>5, <1>8, <2>1, <2>2, <3>2 DEF RunInv, Governed
    <3>3. QED
      BY <1>5, <3>1, <3>2
  <2>6. Profiled' /\ Untouched'
    BY <1>2, <1>3, <1>5, <1>8, <2>1 DEF RunInv, Profiled, Untouched
  <2>7. QED
    BY <2>3, <2>4, <2>5, <2>6 DEF RunInv
<1>11. QED
  BY <1>9, <1>10

\* Stuttering.
LEMMA StutterRun == RunInv /\ UNCHANGED vars => RunInv'
BY DEF RunInv, Sequenced, Underway, Running, Governed, Profiled, Untouched, Known, vars, wire,
       flags, given

\* Every step.
LEMMA RunStep == PlaceInv /\ RunInv /\ [Next]_vars => RunInv'
BY FieldRun, ContentsRun, FlushRun, BeginRun, SequenceNumberRun, ImageRun, ParseRun, FctlRun,
   StutterRun DEF Next

ParserInv == PlaceInv /\ RunInv

\* The invariant of Spec.
LEMMA ParserInvariant == Spec => []ParserInv
<1>1. Init => ParserInv
  BY InitPlace, InitRun DEF ParserInv
<1>2. ParserInv /\ [Next]_vars => ParserInv'
  BY PlaceStep, RunStep DEF ParserInv
<1>3. QED
  BY <1>1, <1>2, PTL DEF Spec

\* What a call that does not end a chunk may report.
LEMMA EventKinds ==
  /\ AccumulateU32 \/ Signature1stU32 \/ Signature2ndU32 \/ Length \/ ChunkBeforeIhdr
     \/ FlushImageData \/ ApngSequenceNumber \/ GrowRawBytes \/ ReadChunkData \/ ImageData
     => event'.kind \in {"Nothing", "Error", "ImageData", "ImageDataFlushed"}
  /\ BeginChunk =>
       IF ChunkStart = "Error" THEN event'.kind = "Error"
       ELSE event'.kind = "ChunkBegin" /\ event'.type = chunk.type
  /\ CrcMismatch \/ EndSkippedChunk \/ ParseChunk \/ ParseFctl =>
       event'.kind \in {"Error", "SkippedAncillaryChunk", "BadAncillaryChunk", "ChunkComplete"}
<1>1. AccumulateU32 => event'.kind = "Nothing"
  BY DEF AccumulateU32, Return, Nothing, Event
<1>2. Signature1stU32 \/ Signature2ndU32 \/ Length \/ ChunkBeforeIhdr =>
        event'.kind \in {"Nothing", "Error"}
  BY DEF Signature1stU32, Signature2ndU32, Length, ChunkBeforeIhdr, Fatal, Return, Nothing, Event
<1>3. FlushImageData => event'.kind \in {"Error", "ImageData", "ImageDataFlushed"}
  BY DEF FlushImageData, Fatal, Rewind, Return, Event
<1>4. ApngSequenceNumber \/ GrowRawBytes => event'.kind \in {"Nothing", "Error"}
  BY DEF ApngSequenceNumber, GrowRawBytes, Fatal, Return, Nothing, Event
<1>5. ReadChunkData => event'.kind = "Nothing"
  <2>1. ReadChunkData => event' = Nothing
    BY DEF ReadChunkData, Return
  <2>2. QED
    BY <2>1 DEF Nothing, Event
<1>6. ImageData => event'.kind \in {"ImageData", "Error"}
  <2>1. ImageData => event' \in {Event("ImageData", "none"), Event("Error", "CorruptFlateStream")}
    BY DEF ImageData, Return, Fatal
  <2>2. QED
    BY <2>1 DEF Event
<1>7. BeginChunk => IF ChunkStart = "Error" THEN event'.kind = "Error"
                    ELSE event'.kind = "ChunkBegin" /\ event'.type = chunk.type
  <2>1. BeginChunk => IF ChunkStart = "Error" THEN event' = Event("Error", chunk.type)
                      ELSE event' = Event("ChunkBegin", chunk.type)
    BY DEF BeginChunk, Fatal, Return
  <2>2. QED
    BY <2>1 DEF Event
<1>8. CrcMismatch \/ EndSkippedChunk \/ ParseChunk \/ ParseFctl =>
        event'.kind \in {"Error", "SkippedAncillaryChunk", "BadAncillaryChunk", "ChunkComplete"}
  BY DEF CrcMismatch, EndSkippedChunk, ParseChunk, ParseFctl, Conclude, Fatal, Event
<1>9. QED
  BY <1>1, <1>2, <1>3, <1>4, <1>5, <1>6, <1>7, <1>8

\* Data is read under the frame control it belongs to: a run of IDAT chunks begins under none or
\* under one that covers the image; a run of fdAT chunks under one that stands behind the image
\* data and is the last numbered chunk before it; and within a run it does not change.
THEOREM FrameControlAlwaysGoverns == Spec => FrameControlGoverns
<1> DEFINE OfImage == event'.kind = "ChunkBegin" /\ event'.type = "IDAT" =>
                        info.frame_control.bounds \in {"none", "whole"}
           OfFrame == event'.kind = "ChunkBegin" /\ event'.type = "fdAT"
                      /\ current_chunk.type_ # "fdAT" =>
                        /\ info.frame_control # NoFrameControl
                        /\ info.frame_control.behind
                        /\ info.frame_control.seq = current_seq_no
           InForce == current_chunk.type_ \in DataTypes =>
                        info'.frame_control = info.frame_control
<1>1. ParserInv /\ Next => OfImage /\ OfFrame
  <2> SUFFICES ASSUME ParserInv, Next, event'.kind = "ChunkBegin", event'.type \in DataTypes
               PROVE  OfImage /\ OfFrame
    BY DEF DataTypes
  <2>1. BeginChunk /\ ChunkStart # "Error"
    BY EventKinds DEF Next
  <2>2. event'.type = chunk.type /\ state.kind = "Type"
    BY <2>1, EventKinds DEF BeginChunk, Complete
  <2>3. /\ chunk.type = "fdAT" => ready_for_fdat_chunks
        /\ chunk.type = "IDAT" => ready_for_idat_chunks
    BY <2>1 DEF ChunkStart
  <2>4. info # NoInfo
    BY <2>1, <2>2 DEF BeginChunk, DataTypes
  <2>5. QED
    BY <2>2, <2>3, <2>4 DEF ParserInv, RunInv, Governed
<1>2. ParserInv /\ Next => InForce
  <2> SUFFICES ASSUME ParserInv, Next, current_chunk.type_ \in DataTypes
               PROVE  info'.frame_control = info.frame_control
    OBVIOUS
  <2>1. CASE ParseFctl
    <3>1. current_chunk.type_ = "fcTL"
      BY <2>1 DEF ParseFctl, Processes, Complete, ParserInv, PlaceInv, Gathered, Inside
    <3>2. QED
      BY <3>1 DEF DataTypes
  <2>2. CASE ParseChunk
    <3>1. state.kind = "Crc" /\ info' = Parsed.info
      BY <2>2 DEF ParseChunk, Processes, Complete
    <3>2. ParsesTo(chunk, info, limits, have_idat, have_iccp, Parsed)
      BY <3>1, EveryParserParses DEF ParserInv
    <3>3. current_chunk.type_ = chunk.type /\ (info # NoInfo \/ chunk.type = "IHDR")
      BY <3>1 DEF ParserInv, PlaceInv, Gathered, Inside
    <3>4. info # NoInfo
      BY <3>3 DEF DataTypes
    <3>5. QED
      BY <3>1, <3>2, <3>4 DEF ParsesTo
  <2>3. CASE ~ ParseFctl /\ ~ ParseChunk
    <3>1. UNCHANGED info
      BY <2>3 DEF Next, AccumulateU32, Signature1stU32, Signature2ndU32, Length, ChunkBeforeIhdr,
                  FlushImageData, BeginChunk, ApngSequenceNumber, GrowRawBytes, ReadChunkData,
                  ImageData, CrcMismatch, EndSkippedChunk, metadata
    <3>2. QED
      BY <3>1
  <2>4. QED
    BY <2>1, <2>2, <2>3
<1>3. ParserInv /\ [Next]_vars => [OfImage /\ OfFrame /\ InForce]_vars
  BY <1>1, <1>2
<1>4. QED
  BY <1>3, ParserInvariant, PTL DEF Spec, FrameControlGoverns

\* The inflater never continues the compressed stream of an earlier frame: every run of data
\* chunks begins with a new stream.
THEOREM EveryRunIsFresh == Spec => FreshStreamPerRun
<1> DEFINE Fresh == /\ event'.kind = "ChunkBegin"
                    /\ event'.type \in DataTypes
                    /\ current_chunk.type_ # event'.type
                    => inflater = "fresh"
<1>1. ParserInv /\ Next => Fresh
  <2> SUFFICES ASSUME ParserInv, Next, event'.kind = "ChunkBegin", event'.type \in DataTypes,
                      current_chunk.type_ # event'.type
               PROVE  inflater = "fresh"
    OBVIOUS
  <2>1. BeginChunk /\ ChunkStart # "Error"
    BY EventKinds DEF Next
  <2>2. event'.type = chunk.type
    BY <2>1, EventKinds
  <2>3. /\ chunk.type = "fdAT" => ready_for_fdat_chunks
        /\ chunk.type = "IDAT" => ready_for_idat_chunks
    BY <2>1 DEF ChunkStart
  <2>4. QED
    BY <2>2, <2>3 DEF ParserInv, RunInv, Sequenced, DataTypes
<1>2. ParserInv /\ [Next]_vars => [Fresh]_vars
  BY <1>1
<1>3. QED
  BY <1>2, ParserInvariant, PTL DEF Spec, FreshStreamPerRun

\* A chunk reported as skipped or bad has changed nothing the decoder knows.
THEOREM IgnoredChunksLeaveNoTrace == Spec => []IgnoredLeavesNoTrace
<1>1. Init => IgnoredLeavesNoTrace
  BY DEF Init, IgnoredLeavesNoTrace, Nothing, Event
<1>2. ParserInv /\ IgnoredLeavesNoTrace /\ [Next]_vars => IgnoredLeavesNoTrace'
  <2> SUFFICES ASSUME ParserInv, IgnoredLeavesNoTrace, [Next]_vars,
                      event'.kind \in {"SkippedAncillaryChunk", "BadAncillaryChunk"},
                      event'.type \notin DataTypes
               PROVE  Known' = before'
    BY DEF IgnoredLeavesNoTrace
  <2>1. CASE UNCHANGED vars
    BY <2>1 DEF IgnoredLeavesNoTrace, Known, vars, wire, flags
  <2>2. CASE CrcMismatch \/ EndSkippedChunk
    <3>1. /\ state.kind = "Crc" /\ event'.type = chunk.type
          /\ UNCHANGED << apng, metadata, flags, before >>
      BY <2>2 DEF CrcMismatch, EndSkippedChunk, Complete, Fatal, NextChunk, Event, wire
    <3>2. Known = before
      BY <3>1 DEF ParserInv, RunInv, Untouched
    <3>3. QED
      BY <3>1, <3>2 DEF Known, apng, metadata, flags
  <2>3. CASE ParseChunk
    <3>1. PICK r : r = Parsed /\ ParsesTo(chunk, info, limits, have_idat, have_iccp, r)
      BY <2>3, EveryParserParses DEF ParserInv, ParseChunk, Processes, Complete
    <3>2. /\ state.kind = "Crc" /\ event'.type = chunk.type /\ r.verdict # "Ok"
          /\ UNCHANGED << apng, flags, before >> /\ info' = r.info
      BY <2>3, <3>1 DEF ParseChunk, Processes, Complete, Conclude, Fatal, NextChunk, Event, wire
    <3>3. Known = before
      BY <3>2 DEF ParserInv, RunInv, Untouched
    <3>4. info' = info
      BY <3>1, <3>2 DEF ParsesTo
    <3>5. QED
      BY <3>2, <3>3, <3>4 DEF Known, apng, flags
  <2>4. CASE ParseFctl
    <3>1. PICK verdict : Conclude(verdict) \/ Fatal("ApngOrder")
      BY <2>4 DEF ParseFctl
    <3>2. chunk.type = "fcTL"
      BY <2>4 DEF ParseFctl
    <3>3. event'.kind \in {"ChunkComplete", "Error"}
      BY <3>1, <3>2 DEF Conclude, Fatal, Event
    <3>4. QED
      BY <3>3
  <2>5. CASE AccumulateU32 \/ Signature1stU32 \/ Signature2ndU32 \/ Length \/ ChunkBeforeIhdr
             \/ FlushImageData \/ BeginChunk \/ ApngSequenceNumber \/ GrowRawBytes
             \/ ReadChunkData \/ ImageData
    BY <2>5, EventKinds
  <2>6. QED
    BY <2>1, <2>2, <2>3, <2>4, <2>5 DEF Next
<1>3. QED
  BY <1>1, <1>2, ParserInvariant, PTL DEF Spec

\* How a step changes what is known of the image.
LEMMA MetaStep ==
  ParserInv /\ Next /\ info # NoInfo =>
    /\ info' # NoInfo
    /\ \A t \in MetaTypes :
         \/ info'.meta[t] = info.meta[t]
         \/ /\ t = chunk.type
            /\ ~ Duplicate(chunk, info, have_iccp)
            /\ ~ AfterIdat(chunk, info, have_idat)
<1> SUFFICES ASSUME ParserInv, Next, info # NoInfo
             PROVE  /\ info' # NoInfo
                    /\ \A t \in MetaTypes :
                         \/ info'.meta[t] = info.meta[t]
                         \/ /\ t = chunk.type
                            /\ ~ Duplicate(chunk, info, have_iccp)
                            /\ ~ AfterIdat(chunk, info, have_idat)
  OBVIOUS
<1>1. CASE info' = info
  BY <1>1
<1>2. CASE ParseChunk
  <2>1. PICK r : r = Parsed /\ ParsesTo(chunk, info, limits, have_idat, have_iccp, r)
    BY <1>2, EveryParserParses DEF ParserInv, ParseChunk, Processes, Complete
  <2>2. info' = r.info
    BY <1>2, <2>1 DEF ParseChunk
  <2>3. QED
    BY <2>1, <2>2 DEF ParsesTo
<1>3. CASE ParseFctl
  <2>1. info \in FullInfos
    BY DEF ParserInv, PlaceInv, Typed, Infos
  <2>2. ChunkOK(chunk)
    BY <1>3, ChunkIsOK DEF ParserInv, PlaceInv, FromInput, ParseFctl, Processes, Complete
  <2>3. PICK r : r = parse_frame_control(chunk, info, limits, have_idat)
    OBVIOUS
  <2>4. r.info \in FullInfos /\ r.info.meta = info.meta
    BY <2>1, <2>2, <2>3, FrameControlParses DEF ParserInv, PlaceInv, Typed
  <2>5. info' \in {info, r.info}
    BY <1>3, <2>3 DEF ParseFctl
  <2>6. QED
    BY <2>4, <2>5, FullInfoIsInfo
<1>4. QED
  BY <1>1, <1>2, <1>3
     DEF Next, AccumulateU32, Signature1stU32, Signature2ndU32, Length, ChunkBeforeIhdr,
         FlushImageData, BeginChunk, ApngSequenceNumber, GrowRawBytes, ReadChunkData, ImageData,
         CrcMismatch, EndSkippedChunk, metadata

\* Of two chunks that may occur once the first one counts, wherever the second stands.
THEOREM FirstChunkAlwaysCounts == Spec => FirstChunkCounts
<1> DEFINE Counts == info # NoInfo =>
                       \A t \in MetaTypes :
                         info.meta[t] # Absent => info'.meta[t] = info.meta[t]
<1>1. ParserInv /\ Next => Counts
  <2> SUFFICES ASSUME ParserInv, Next, info # NoInfo, NEW t \in MetaTypes, info.meta[t] # Absent,
                      info'.meta[t] # info.meta[t]
               PROVE  FALSE
    OBVIOUS
  <2>1. t = chunk.type /\ ~ Duplicate(chunk, info, have_iccp)
    BY MetaStep
  <2>2. t = "iCCP" => have_iccp
    BY DEF ParserInv, RunInv, Profiled
  <2>3. QED
    BY <2>1, <2>2 DEF Duplicate
<1>2. ParserInv /\ [Next]_vars => [Counts]_vars
  BY <1>1
<1>3. QED
  BY <1>2, ParserInvariant, PTL DEF Spec, FirstChunkCounts

\* What the image data means is settled when it begins.
THEOREM SettledWhenDataBegins == Spec => SettledBeforeData
<1> DEFINE Settled == have_idat =>
                        \A t \in MetaTypes \ {"PLTE", "cLLI", "eXIf"} :
                          \/ t = "tRNS" /\ info.color # "Indexed"
                          \/ info'.meta[t] = info.meta[t]
<1>1. ParserInv /\ Next => Settled
  <2> SUFFICES ASSUME ParserInv, Next, have_idat, NEW t \in MetaTypes \ {"PLTE", "cLLI", "eXIf"},
                      info'.meta[t] # info.meta[t]
               PROVE  t = "tRNS" /\ info.color # "Indexed"
    OBVIOUS
  <2>1. info # NoInfo
    BY DEF ParserInv, RunInv, Sequenced
  <2>2. t = chunk.type /\ ~ AfterIdat(chunk, info, have_idat)
    BY <2>1, MetaStep
  <2>3. QED
    BY <2>2 DEF AfterIdat, MetaTypes
<1>2. ParserInv /\ [Next]_vars => [Settled]_vars
  BY <1>1
<1>3. QED
  BY <1>2, ParserInvariant, PTL DEF Spec, SettledBeforeData

-------------------------------------------------------------------------------
(* The parser keeps the promises of DataSequences.                             *)

\* The variables of DataSequences as the parser has them.
RunOf ==
  IF current_chunk.type_ = "IDAT" /\ ready_for_idat_chunks /\ have_idat THEN "IDAT"
  ELSE IF current_chunk.type_ = "fdAT" /\ ready_for_fdat_chunks THEN "fdAT"
  ELSE "none"

ImageOf ==
  IF ~ have_idat THEN "ahead" ELSE IF ready_for_idat_chunks THEN "begun" ELSE "over"

ToldOf ==
  CASE event.kind = "ImageData" -> "data"
    [] event.kind = "ImageDataFlushed" -> "flushed"
    [] OTHER -> "other"

\* The actions of DataSequences in these terms.
LEMMA AnnouncedActions ==
  /\ RunOf = "none" /\ ImageOf = "ahead" /\ RunOf' = "IDAT" /\ ImageOf' = "begun"
       /\ ToldOf' = "other" /\ ready_for_fdat_chunks' = ready_for_fdat_chunks => Announced!Next
  /\ RunOf = "none" /\ ready_for_fdat_chunks' = (ImageOf # "ahead") /\ ToldOf' = "other"
       /\ RunOf' = RunOf /\ ImageOf' = ImageOf => Announced!Next
  /\ RunOf = "none" /\ ready_for_fdat_chunks /\ RunOf' = "fdAT" /\ ToldOf' = "other"
       /\ ImageOf' = ImageOf /\ ready_for_fdat_chunks' = ready_for_fdat_chunks => Announced!Next
  /\ RunOf # "none" /\ ToldOf' = "data" /\ RunOf' = RunOf /\ ImageOf' = ImageOf
       /\ ready_for_fdat_chunks' = ready_for_fdat_chunks => Announced!Next
  /\ RunOf # "none" /\ RunOf' = "none" /\ ImageOf' = "over" /\ ready_for_fdat_chunks' = FALSE
       /\ ToldOf' = "flushed" => Announced!Next
  /\ ToldOf' = "other" /\ RunOf' = RunOf /\ ImageOf' = ImageOf
       /\ ready_for_fdat_chunks' = ready_for_fdat_chunks => Announced!Next
BY DEF RunOf, ImageOf, ToldOf, Announced!Next, Announced!BeginImage, Announced!FrameControl,
       Announced!BeginFrame, Announced!Data, Announced!EndRun, Announced!Other

\* What is told depends on the kind of the event.
LEMMA ToldValue ==
  /\ event.kind = "ImageData" => ToldOf = "data"
  /\ event.kind = "ImageDataFlushed" => ToldOf = "flushed"
  /\ event.kind \notin {"ImageData", "ImageDataFlushed"} => ToldOf = "other"
BY DEF ToldOf

\* Steps that touch neither the flags nor the type.
LEMMA QuietAnnounced ==
  UNCHANGED << flags, current_chunk.type_ >> =>
    /\ RunOf' = RunOf /\ ImageOf' = ImageOf /\ ready_for_fdat_chunks' = ready_for_fdat_chunks
BY DEF flags, RunOf, ImageOf

\* Data, and the end of a run.
LEMMA FlushAnnounced == ParserInv /\ FlushImageData => Announced!Next
<1> SUFFICES ASSUME ParserInv, FlushImageData PROVE Announced!Next
  OBVIOUS
<1>1. /\ state.kind = "Type" /\ current_chunk.type_ \in DataTypes
      /\ chunk.type # current_chunk.type_ /\ have_idat' = have_idat
  BY DEF FlushImageData, Complete, EndsDataSequence
<1>2. RunOf # "none" /\ have_idat
  BY <1>1 DEF ParserInv, RunInv, Sequenced, Underway, Running, DataTypes, RunOf
<1>3. CASE /\ ready_for_idat_chunks' = FALSE /\ ready_for_fdat_chunks' = FALSE
           /\ Rewind(Event("ImageDataFlushed", "none"))
  <2>1. event'.kind = "ImageDataFlushed"
    BY <1>3 DEF Rewind, Return, Event
  <2>2. ToldOf' = "flushed"
    BY <2>1, ToldValue DEF ToldOf
  <2>3. RunOf' = "none" /\ ImageOf' = "over"
    BY <1>1, <1>2, <1>3 DEF RunOf, ImageOf
  <2>4. QED
    BY <1>2, <1>3, <2>2, <2>3, AnnouncedActions
<1>4. CASE /\ UNCHANGED << current_chunk, ready_for_idat_chunks, ready_for_fdat_chunks >>
           /\ Rewind(Event("ImageData", "none")) \/ Fatal("CorruptFlateStream")
  <2>1. event'.kind \in {"ImageData", "Error"}
    BY <1>4 DEF Rewind, Return, Fatal, Event
  <2>2. ToldOf' \in {"data", "other"}
    BY <2>1 DEF ToldOf
  <2>3. RunOf' = RunOf /\ ImageOf' = ImageOf /\ ready_for_fdat_chunks' = ready_for_fdat_chunks
    BY <1>1, <1>4, QuietAnnounced DEF flags
  <2>4. QED
    BY <1>2, <2>2, <2>3, AnnouncedActions
<1>5. QED
  BY <1>3, <1>4 DEF FlushImageData

\* A run begins, goes on in another chunk, or is refused.
LEMMA BeginAnnounced == ParserInv /\ BeginChunk => Announced!Next
<1> SUFFICES ASSUME ParserInv, BeginChunk PROVE Announced!Next
  OBVIOUS
<1>1. /\ state.kind = "Type"
      /\ current_chunk.type_ \in DataTypes => chunk.type = current_chunk.type_
      /\ UNCHANGED << ready_for_idat_chunks, ready_for_fdat_chunks, chunk >>
  BY DEF BeginChunk, Complete, EndsDataSequence, Fatal, wire
<1>2. current_chunk'.type_ = chunk.type
  BY DEF BeginChunk, ParserInv, PlaceInv, Typed, ChunkStates
<1>3. event'.kind \in {"ChunkBegin", "Error"}
  BY EventKinds
<1>4. ToldOf' = "other"
  BY <1>3 DEF ToldOf
<1>5. /\ have_idat \in BOOLEAN /\ ready_for_idat_chunks \in BOOLEAN
      /\ ready_for_fdat_chunks \in BOOLEAN
  BY DEF ParserInv, PlaceInv, Typed
<1>6. /\ ready_for_fdat_chunks => have_idat /\ ~ ready_for_idat_chunks
      /\ have_idat /\ ready_for_idat_chunks => current_chunk.type_ = "IDAT"
  BY DEF ParserInv, RunInv, Sequenced
<1>7. /\ chunk.type = "IDAT" /\ ready_for_idat_chunks => have_idat'
      /\ chunk.type = "IDAT" /\ ~ ready_for_idat_chunks => have_idat' = have_idat
      /\ chunk.type # "IDAT" => have_idat' = have_idat
  BY <1>5 DEF BeginChunk, ChunkStart
<1>8. CASE chunk.type = "IDAT"
  <2>1. CASE ready_for_idat_chunks /\ ~ have_idat
    <3>1. RunOf = "none" /\ ImageOf = "ahead"
      BY <1>6, <2>1 DEF RunOf, ImageOf
    <3>2. RunOf' = "IDAT" /\ ImageOf' = "begun"
      BY <1>1, <1>2, <1>7, <1>8, <2>1 DEF RunOf, ImageOf
    <3>3. QED
      BY <1>1, <1>4, <3>1, <3>2, AnnouncedActions
  <2>2. CASE ~ (ready_for_idat_chunks /\ ~ have_idat)
    <3>1. ready_for_idat_chunks => current_chunk.type_ = "IDAT" /\ have_idat' = have_idat
      BY <1>5, <1>6, <1>7, <1>8, <2>2 DEF BeginChunk
    <3>2. RunOf' = RunOf
      BY <1>1, <1>2, <1>6, <1>7, <1>8, <2>2, <3>1 DEF RunOf, DataTypes
    <3>3. ImageOf' = ImageOf
      BY <1>1, <1>5, <1>7, <1>8, <2>2, <3>1 DEF ImageOf
    <3>4. QED
      BY <1>1, <1>4, <3>2, <3>3, AnnouncedActions
  <2>3. QED
    BY <2>1, <2>2
<1>9. CASE chunk.type = "fdAT"
  <2>1. have_idat' = have_idat
    BY <1>7, <1>9
  <2>2. ImageOf' = ImageOf
    BY <1>1, <2>1 DEF ImageOf
  <2>3. current_chunk.type_ # "IDAT"
    BY <1>1, <1>9 DEF DataTypes
  <2>4. RunOf' = IF ready_for_fdat_chunks THEN "fdAT" ELSE "none"
    BY <1>1, <1>2, <1>9 DEF RunOf
  <2>5. RunOf = "none" \/ (RunOf = "fdAT" /\ ready_for_fdat_chunks)
    BY <2>3 DEF RunOf
  <2>6. QED
    BY <1>1, <1>4, <2>2, <2>4, <2>5, AnnouncedActions
<1>10. CASE chunk.type \notin DataTypes
  <2>1. have_idat' = have_idat /\ current_chunk.type_ \notin DataTypes
    BY <1>1, <1>7, <1>10 DEF DataTypes
  <2>2. RunOf = "none" /\ RunOf' = "none"
    BY <1>2, <1>10, <2>1 DEF RunOf, DataTypes
  <2>3. ImageOf' = ImageOf
    BY <1>1, <2>1 DEF ImageOf
  <2>4. QED
    BY <1>1, <1>4, <2>2, <2>3, AnnouncedActions
<1>11. QED
  BY <1>8, <1>9, <1>10 DEF DataTypes

\* Image data comes within a run.
LEMMA ImageAnnounced == ParserInv /\ ImageData => Announced!Next
<1> SUFFICES ASSUME ParserInv, ImageData PROVE Announced!Next
  OBVIOUS
<1>1. state.kind = "ImageData" /\ UNCHANGED flags /\ current_chunk.type_ \in DataTypes
  BY DEF ImageData, ParserInv, PlaceInv, Gathered, Inside
<1>2. current_chunk'.type_ = current_chunk.type_
  BY DEF ImageData, ParserInv, PlaceInv, Typed, ChunkStates
<1>3. event'.kind \in {"ImageData", "Error"}
  <2>1. event' \in {Event("ImageData", "none"), Event("Error", "CorruptFlateStream")}
    BY DEF ImageData, Return, Fatal
  <2>2. QED
    BY <2>1 DEF Event
<1>4. ToldOf' \in {"data", "other"}
  BY <1>3 DEF ToldOf
<1>5. RunOf # "none"
  BY <1>1 DEF ParserInv, RunInv, Underway, Running, DataTypes, RunOf
<1>6. QED
  BY <1>1, <1>2, <1>4, <1>5, QuietAnnounced, AnnouncedActions

\* A frame control allows a run of fdAT chunks once the image data is over.
LEMMA FctlAnnounced == ParserInv /\ ParseFctl => Announced!Next
<1> SUFFICES ASSUME ParserInv, ParseFctl PROVE Announced!Next
  OBVIOUS
<1>1. UNCHANGED << current_chunk, have_idat, ready_for_idat_chunks >>
  BY DEF ParseFctl
<1>2. current_chunk.type_ = "fcTL"
  BY DEF ParseFctl, Processes, Complete, ParserInv, PlaceInv, Gathered, Inside
<1>3. event'.kind \in {"Error", "SkippedAncillaryChunk", "BadAncillaryChunk", "ChunkComplete"}
  BY EventKinds
<1>4. ToldOf' = "other"
  BY <1>3 DEF ToldOf
<1>5. RunOf = "none" /\ RunOf' = "none" /\ ImageOf' = ImageOf
  BY <1>1, <1>2 DEF RunOf, ImageOf
<1>6. have_idat \in BOOLEAN /\ (have_idat = (ImageOf # "ahead"))
  BY DEF ImageOf, ParserInv, PlaceInv, Typed
<1>7. ready_for_fdat_chunks' = have_idat \/ ready_for_fdat_chunks' = ready_for_fdat_chunks
  BY DEF ParseFctl
<1>8. QED
  BY <1>4, <1>5, <1>6, <1>7, AnnouncedActions

\* Everything else is of no concern to those who wait for image data.
LEMMA OtherAnnounced ==
  ParserInv /\ (AccumulateU32 \/ Signature1stU32 \/ Signature2ndU32 \/ Length \/ ChunkBeforeIhdr
                \/ ApngSequenceNumber \/ GrowRawBytes \/ ReadChunkData \/ CrcMismatch
                \/ EndSkippedChunk \/ ParseChunk)
  => Announced!Next
<1> SUFFICES ASSUME ParserInv,
                    AccumulateU32 \/ Signature1stU32 \/ Signature2ndU32 \/ Length
                    \/ ChunkBeforeIhdr \/ ApngSequenceNumber \/ GrowRawBytes \/ ReadChunkData
                    \/ CrcMismatch \/ EndSkippedChunk \/ ParseChunk
             PROVE  Announced!Next
  OBVIOUS
<1>1. UNCHANGED flags
  BY DEF AccumulateU32, Signature1stU32, Signature2ndU32, Length, ChunkBeforeIhdr,
         ApngSequenceNumber, GrowRawBytes, ReadChunkData, CrcMismatch, EndSkippedChunk, ParseChunk
<1>2. current_chunk'.type_ = current_chunk.type_
  <2>1. CASE ApngSequenceNumber \/ GrowRawBytes \/ ReadChunkData
    BY <2>1 DEF ApngSequenceNumber, GrowRawBytes, ReadChunkData, ParserInv, PlaceInv, Typed,
                ChunkStates
  <2>2. CASE ~ (ApngSequenceNumber \/ GrowRawBytes \/ ReadChunkData)
    BY <2>2 DEF AccumulateU32, Signature1stU32, Signature2ndU32, Length, ChunkBeforeIhdr,
                CrcMismatch, EndSkippedChunk, ParseChunk
  <2>3. QED
    BY <2>1, <2>2
<1>3. event'.kind \notin {"ImageData", "ImageDataFlushed"}
  <2>1. CASE AccumulateU32
    BY <2>1 DEF AccumulateU32, Return, Nothing, Event
  <2>2. CASE Signature1stU32 \/ Signature2ndU32 \/ Length \/ ChunkBeforeIhdr
    BY <2>2 DEF Signature1stU32, Signature2ndU32, Length, ChunkBeforeIhdr, Fatal, Return, Nothing,
                Event
  <2>3. CASE ApngSequenceNumber \/ GrowRawBytes
    BY <2>3 DEF ApngSequenceNumber, GrowRawBytes, Fatal, Return, Nothing, Event
  <2>4. CASE ReadChunkData
    <3>1. event' = Nothing
      BY <2>4 DEF ReadChunkData, Return
    <3>2. QED
      BY <3>1 DEF Nothing, Event
  <2>5. CASE CrcMismatch \/ EndSkippedChunk \/ ParseChunk
    BY <2>5, EventKinds
  <2>6. QED
    BY <2>1, <2>2, <2>3, <2>4, <2>5
<1>4. ToldOf' = "other"
  BY <1>3 DEF ToldOf
<1>5. QED
  BY <1>1, <1>2, <1>4, QuietAnnounced, AnnouncedActions

\* Image data is announced as DataSequences promises: one run of IDAT chunks at most, a run of fdAT
\* chunks only after a frame control behind the image data, the end of a run exactly once.
THEOREM ParserAnnouncesData == Spec => AnnouncesData
<1>1. Init => Announced!Init
  BY DEF Init, Announced!Init, Nothing, Event, FreshChunkState
<1>2. ParserInv /\ [Next]_vars => [Announced!Next]_(Announced!vars)
  <2> SUFFICES ASSUME ParserInv, [Next]_vars PROVE [Announced!Next]_(Announced!vars)
    OBVIOUS
  <2>1. CASE UNCHANGED vars
    BY <2>1 DEF vars, flags, Announced!vars
  <2>2. CASE Next
    <3>1. Announced!Next
      BY <2>2, FlushAnnounced, BeginAnnounced, ImageAnnounced, FctlAnnounced, OtherAnnounced DEF Next
    <3>2. QED
      BY <3>1
  <2>3. QED
    BY <2>1, <2>2
<1>3. QED
  BY <1>1, <1>2, ParserInvariant, PTL DEF Spec, AnnouncesData, Announced!Spec
===============================================================================
