----------------------- MODULE PngReaderFrames_proofs -----------------------
(***************************************************************************)
(* Which chunks PNGImageReader::Parse puts into which frame, for every set *)
(* of files, however their bytes arrive: on top of the invariant of        *)
(* PngReader_proofs, what the parser has made of the chunks behind it.     *)
(***************************************************************************)
EXTENDS PngReader_proofs, FiniteSetTheorems

(* What the parser has made of the chunks behind it, as long as it takes   *)
(* the file for an animation.                                              *)
IsControl(o) == file.chunk[o].type = "fcTL"
IsNumbered(o) == file.chunk[o].type \in {"fcTL", "fdAT"}
Numbered == {o \in Passed : IsNumbered(o)}
NumberedBefore(o) == {p \in Numbered : p < o}

FileInv == file \in Files

(* Before the size is known the parser has passed no image data, and it    *)
(* has not begun.                                                          *)
SizeInv ==
  /\ ~parsed_signature => Passed = {}
  /\ ~size_available =>
       expect_idats /\ \A o \in Passed : file.chunk[o].type # "IDAT"
  /\ size_available /\ is_animated => ~ignore_animation

SequenceInv ==
  ~ignore_animation =>
    /\ next_sequence_number = Cardinality(Numbered)
    /\ \A o \in Numbered : file.chunk[o].seq = Cardinality(NumberedBefore(o))

(* An fcTL separates the IDATs from the fdATs, which come behind it.       *)
KindsInv ==
  /\ ~ignore_animation /\ expect_idats =>
       \A o \in Passed : file.chunk[o].type # "fdAT"
  /\ ~expect_idats =>
       \E q \in Passed : /\ IsControl(q)
                         /\ \A o \in Passed : file.chunk[o].type = "IDAT" => o < q
  /\ ~ignore_animation =>
       \A o, p \in Passed :
         file.chunk[o].type = "IDAT" /\ file.chunk[p].type = "fdAT"
           => \E q \in Passed : IsControl(q) /\ o < q /\ q < p

LastControl(o) ==
  o \in Passed /\ IsControl(o) /\ \A p \in Passed : o < p => ~IsControl(p)

(* new_frame has the fields of the last fcTL.                              *)
ControlInv ==
  ~ignore_animation /\ (idat_is_part_of_animation \/ ~expect_idats) =>
    \E o \in Passed :
      /\ LastControl(o)
      /\ new_frame = WithControl(new_frame, file.chunk[o])
      /\ new_frame.start_offset # 0 => o < new_frame.start_offset

(* A frame begins only behind its fcTL.                                    *)
BeginInv ==
  new_frame.start_offset # 0 => idat_is_part_of_animation \/ ~expect_idats

EndsFrame(o) == file.chunk[o].type \in {"fcTL", "IEND"}

HasControl(i) ==
  \E o \in Passed :
    /\ IsControl(o)
    /\ o < FrameStart(i)
    /\ \A p \in Passed : o < p /\ p < FrameStart(i) => ~IsControl(p)
    /\ frame_info[i] = WithControl(frame_info[i], file.chunk[o])

(* The chunks of the frames, and of the one under construction.            *)
RunsInv ==
  size_available /\ is_animated =>
    /\ \A i \in DOMAIN frame_info :
         \A o \in Passed : InFrame(i, o) => ~EndsFrame(o)
    /\ new_frame.start_offset # 0 =>
         \A o \in Passed : new_frame.start_offset <= o => ~EndsFrame(o)
    /\ \A i \in DOMAIN frame_info : HasControl(i)

CoverInv ==
  size_available /\ is_animated =>
    \A o \in Passed : IsFrameData(o) =>
      \/ new_frame.start_offset # 0 /\ new_frame.start_offset <= o
      \/ \E i \in DOMAIN frame_info : InFrame(i, o)

DataInv ==
  /\ FileInv /\ SizeInv /\ SequenceInv /\ KindsInv
  /\ ControlInv /\ BeginInv /\ RunsInv /\ CoverInv

-----------------------------------------------------------------------------
(* Chunks.                                                                 *)

(* The parser leaves a chunk behind.                                       *)
LeavesChunk ==
  /\ parsed_signature /\ HeaderArrived
  /\ read_offset' = chunk_end_offset
  /\ UNCHANGED <<file, parsed_signature>>

(* It stays where it is.                                                   *)
Stays == UNCHANGED <<file, read_offset>>

LEMMA PassedTyped ==
  ASSUME IInv, NEW o \in Passed
  PROVE  /\ o \in DOMAIN file.chunk /\ o \in Nat /\ o < read_offset
         /\ file.chunk[o] \in Chunk
BY DEF IInv, TypeOK, InputOK, IsFile, Passed

LEMMA PassedStays ==
  ASSUME Stays
  PROVE  Passed' = Passed
BY DEF Stays, Passed

(* Exactly the chunk at read_offset is passed.                             *)
LEMMA PassedGrows ==
  ASSUME IInv, DataInv, LeavesChunk
  PROVE  /\ Passed' = Passed \cup {read_offset}
         /\ read_offset \in DOMAIN file.chunk
         /\ read_offset \notin Passed
         /\ read_offset \in Nat
         /\ read_offset < read_offset'
         /\ chunk \in Chunk /\ chunk = file.chunk[read_offset]
<1>1. TypeOK /\ read_offset \in Nat /\ IsFile(file) /\ file \in Files
  BY DEF IInv, TypeOK, InputOK, ScalarsOK, DataInv, FileInv
<1>2. read_offset \in DOMAIN file.chunk
  BY <1>1, ReaderAssumption
     DEF TypeOK, InputOK, StandsAtChunk, IsFile, LeavesChunk, HeaderArrived
<1>3. chunk \in Chunk /\ chunk = file.chunk[read_offset]
  BY <1>1, ChunkTyped DEF LeavesChunk, chunk
<1>4. read_offset' = read_offset + 12 + chunk.length /\ chunk.length \in Nat
  BY <1>3 DEF LeavesChunk, chunk_end_offset, Chunk
<1>5. ASSUME NEW o \in DOMAIN file.chunk
      PROVE  o < read_offset' <=> o < read_offset \/ o = read_offset
  <2>1. o \in Nat
    BY <1>1 DEF IsFile
  <2>2. read_offset < o => read_offset' <= o
    BY <1>1, <1>2, <1>3, <1>4, ChunksAssumption
  <2> QED
    BY <1>1, <1>4, <2>1, <2>2
<1>6. Passed' = {o \in DOMAIN file.chunk : o < read_offset'}
  BY DEF Passed, LeavesChunk
<1>7. Passed' = Passed \cup {read_offset}
  BY <1>2, <1>5, <1>6 DEF Passed
<1> QED
  BY <1>1, <1>2, <1>3, <1>4, <1>7 DEF Passed

-----------------------------------------------------------------------------
(* The fields of an fcTL in a frame.                                       *)

SameControl(f, g) ==
  /\ f.frame_rect = g.frame_rect
  /\ f.duration = g.duration
  /\ f.disposal_method = g.disposal_method
  /\ f.alpha_blend = g.alpha_blend

LEMMA ControlFields ==
  ASSUME NEW f \in FrameInfo, NEW c
  PROVE  f = WithControl(f, c)
           <=> /\ f.frame_rect = [x |-> c.fctl.x, y |-> c.fctl.y,
                                  width |-> c.fctl.width,
                                  height |-> c.fctl.height]
               /\ f.duration = DelayToDuration(c.fctl.delay_num,
                                               c.fctl.delay_den)
               /\ f.disposal_method = DisposalMethod(c.fctl.dispose)
               /\ f.alpha_blend = AlphaBlendSource(c.fctl.blend)
<1> DEFINE r == [x |-> c.fctl.x, y |-> c.fctl.y, width |-> c.fctl.width,
                 height |-> c.fctl.height]
           d == DelayToDuration(c.fctl.delay_num, c.fctl.delay_den)
           m == DisposalMethod(c.fctl.dispose)
           b == AlphaBlendSource(c.fctl.blend)
<1>1. WithControl(f, c) = [f EXCEPT !.frame_rect = r, !.duration = d,
                                    !.disposal_method = m, !.alpha_blend = b]
  BY DEF WithControl
<1> HIDE DEF r, d, m, b
<1>2. f = [f EXCEPT !.frame_rect = r, !.duration = d,
                    !.disposal_method = m, !.alpha_blend = b]
        <=> /\ f.frame_rect = r /\ f.duration = d
            /\ f.disposal_method = m /\ f.alpha_blend = b
  BY DEF FrameInfo
<1> QED
  BY <1>1, <1>2 DEF r, d, m, b

(* A frame with the same fields has the same fcTL.                         *)
LEMMA ControlKept ==
  ASSUME NEW f \in FrameInfo, NEW g \in FrameInfo, SameControl(f, g),
         NEW c, f = WithControl(f, c)
  PROVE  g = WithControl(g, c)
BY ControlFields DEF SameControl

LEMMA ControlGiven ==
  ASSUME NEW base \in FrameInfo, NEW c \in Chunk, NEW f,
         f = WithControl(base, c)
  PROVE  /\ f \in FrameInfo
         /\ f = WithControl(f, c)
         /\ f.start_offset = base.start_offset
<1>1. /\ f \in FrameInfo /\ f.start_offset = base.start_offset
  BY WithControlTyped
<1>2. /\ f.frame_rect = [x |-> c.fctl.x, y |-> c.fctl.y,
                         width |-> c.fctl.width, height |-> c.fctl.height]
      /\ f.duration = DelayToDuration(c.fctl.delay_num, c.fctl.delay_den)
      /\ f.disposal_method = DisposalMethod(c.fctl.dispose)
      /\ f.alpha_blend = AlphaBlendSource(c.fctl.blend)
  BY DEF WithControl, FrameInfo
<1> QED
  BY <1>1, <1>2, ControlFields

-----------------------------------------------------------------------------
(* Sequence numbers and kinds of data.                                     *)

LEMMA NumberedFinite ==
  ASSUME IInv, NEW S \in SUBSET Passed
  PROVE  IsFiniteSet(S) /\ Cardinality(S) \in Nat
<1>1. read_offset \in Nat
  BY DEF IInv, TypeOK, ScalarsOK
<1>2. S \subseteq 0 .. read_offset
  BY <1>1, PassedTyped
<1>3. IsFiniteSet(0 .. read_offset)
  BY <1>1, FS_Interval
<1>4. IsFiniteSet(S)
  BY <1>2, <1>3, FS_Subset
<1> QED
  BY <1>4, FS_CardinalityType

(* The chunk that is passed has its number, and is counted.                *)
Counted ==
  IF IsNumbered(read_offset)
    THEN /\ chunk.seq = next_sequence_number
         /\ next_sequence_number' = next_sequence_number + 1
    ELSE UNCHANGED next_sequence_number

LEMMA SequencePassed ==
  ASSUME IInv, DataInv, LeavesChunk,
         ~ignore_animation' => ~ignore_animation /\ Counted
  PROVE  SequenceInv'
<1> SUFFICES ASSUME ~ignore_animation'
             PROVE  /\ next_sequence_number' = Cardinality(Numbered')
                    /\ \A o \in Numbered' :
                         file'.chunk[o].seq = Cardinality(NumberedBefore(o)')
  BY DEF SequenceInv
<1>1. /\ next_sequence_number = Cardinality(Numbered)
      /\ \A o \in Numbered : file.chunk[o].seq = Cardinality(NumberedBefore(o))
      /\ Counted
  BY DEF DataInv, SequenceInv
<1>2. /\ Passed' = Passed \cup {read_offset}
      /\ read_offset \notin Passed /\ read_offset \in Nat
      /\ chunk = file.chunk[read_offset]
  BY PassedGrows
<1>3. file' = file
  BY DEF LeavesChunk
<1>4. Numbered' = IF IsNumbered(read_offset) THEN Numbered \cup {read_offset}
                                            ELSE Numbered
  BY <1>2, <1>3 DEF Numbered, IsNumbered
<1>5. ASSUME NEW o \in Numbered
      PROVE  NumberedBefore(o)' = NumberedBefore(o)
  <2>1. o \in Nat /\ o < read_offset
    BY PassedTyped DEF Numbered
  <2>2. ~(read_offset < o)
    BY <1>2, <2>1
  <2> QED
    BY <1>4, <2>2 DEF NumberedBefore
<1>6. CASE ~IsNumbered(read_offset)
  BY <1>1, <1>3, <1>4, <1>5, <1>6 DEF Counted
<1>7. CASE IsNumbered(read_offset)
  <2>0. PICK r : r = read_offset
    OBVIOUS
  <2>1. NumberedBefore(r)' = Numbered
    <3>1. \A p \in Numbered : p < read_offset
      BY PassedTyped DEF Numbered
    <3>2. ~(read_offset < read_offset)
      BY <1>2
    <3> QED
      BY <1>4, <1>7, <2>0, <3>1, <3>2 DEF NumberedBefore
  <2>2. IsFiniteSet(Numbered) /\ read_offset \notin Numbered
    BY <1>2, NumberedFinite DEF Numbered
  <2>3. Cardinality(Numbered') = Cardinality(Numbered) + 1
    BY <1>4, <1>7, <2>2, FS_AddElement
  <2>4. /\ chunk.seq = next_sequence_number
        /\ next_sequence_number' = next_sequence_number + 1
    BY <1>1, <1>7 DEF Counted
  <2>5. next_sequence_number' = Cardinality(Numbered')
    BY <1>1, <2>3, <2>4
  <2>6. ASSUME NEW o \in Numbered'
        PROVE  file'.chunk[o].seq = Cardinality(NumberedBefore(o)')
    <3>1. CASE o \in Numbered
      BY <1>1, <1>3, <1>5, <3>1
    <3>2. CASE o = r
      BY <1>1, <1>2, <1>3, <2>0, <2>1, <2>4, <3>2
    <3> QED
      BY <1>4, <1>7, <2>0, <3>1, <3>2
  <2> QED
    BY <2>5, <2>6
<1> QED
  BY <1>6, <1>7

LEMMA KindsPassed ==
  ASSUME IInv, DataInv, LeavesChunk,
         ~ignore_animation' => ~ignore_animation,
         expect_idats' => expect_idats,
         ~expect_idats' => ~expect_idats \/ chunk.type = "fcTL",
         chunk.type = "fdAT" /\ ~ignore_animation' => ~expect_idats,
         chunk.type = "IDAT" => expect_idats
  PROVE  KindsInv'
<1>1. KindsInv
  BY DEF DataInv
<1>2. /\ Passed' = Passed \cup {read_offset}
      /\ read_offset \in Nat
      /\ chunk = file.chunk[read_offset]
      /\ file' = file
  BY PassedGrows DEF LeavesChunk
<1>3. \A o \in Passed : o < read_offset
  BY PassedTyped
<1>4. ~ignore_animation' /\ expect_idats' =>
        \A o \in Passed' : file'.chunk[o].type # "fdAT"
  BY <1>1, <1>2 DEF KindsInv
<1>5. ASSUME ~expect_idats'
      PROVE  \E q \in Passed' :
               /\ IsControl(q)'
               /\ \A o \in Passed' : file'.chunk[o].type = "IDAT" => o < q
  <2>1. CASE ~expect_idats
    <3>1. PICK q \in Passed :
            /\ IsControl(q)
            /\ \A o \in Passed : file.chunk[o].type = "IDAT" => o < q
      BY <1>1, <2>1 DEF KindsInv
    <3> QED
      BY <1>2, <2>1, <3>1 DEF IsControl
  <2>2. CASE chunk.type = "fcTL"
    BY <1>2, <1>3, <2>2 DEF IsControl
  <2> QED
    BY <1>5, <2>1, <2>2
<1>6. ASSUME ~ignore_animation', NEW o \in Passed', NEW p \in Passed',
             file'.chunk[o].type = "IDAT", file'.chunk[p].type = "fdAT"
      PROVE  \E q \in Passed' : IsControl(q)' /\ o < q /\ q < p
  <2>1. CASE o \in Passed /\ p \in Passed
    <3>1. PICK q \in Passed : IsControl(q) /\ o < q /\ q < p
      BY <1>1, <1>2, <1>6, <2>1 DEF KindsInv
    <3> QED
      BY <1>2, <3>1 DEF IsControl
  <2>2. CASE o \in Passed /\ p = read_offset
    <3>1. ~expect_idats
      BY <1>2, <1>6, <2>2
    <3>2. PICK q \in Passed : IsControl(q) /\ o < q
      BY <1>1, <1>2, <1>6, <2>2, <3>1 DEF KindsInv
    <3> QED
      BY <1>2, <1>3, <2>2, <3>2 DEF IsControl
  <2>3. CASE o = read_offset
    BY <1>1, <1>2, <1>6, <2>3 DEF KindsInv
  <2> QED
    BY <1>2, <2>1, <2>2, <2>3
<1> QED
  BY <1>4, <1>5, <1>6 DEF KindsInv

-----------------------------------------------------------------------------
(* The fcTL of the frame under construction.                               *)

(* It remains the last one.                                                *)
LEMMA ControlRemains ==
  ASSUME IInv, DataInv, Stays \/ (LeavesChunk /\ chunk.type # "fcTL"),
         ~ignore_animation' => ~ignore_animation,
         UNCHANGED <<idat_is_part_of_animation, expect_idats>>,
         new_frame' \in FrameInfo, SameControl(new_frame, new_frame'),
         new_frame'.start_offset \in {0, new_frame.start_offset, read_offset}
  PROVE  ControlInv'
<1> SUFFICES ASSUME ~ignore_animation',
                    idat_is_part_of_animation \/ ~expect_idats
             PROVE  \E o \in Passed' :
                      /\ LastControl(o)'
                      /\ new_frame' = WithControl(new_frame', file'.chunk[o])
                      /\ new_frame'.start_offset # 0
                           => o < new_frame'.start_offset
  BY DEF ControlInv
<1>1. PICK o \in Passed :
        /\ LastControl(o)
        /\ new_frame = WithControl(new_frame, file.chunk[o])
        /\ new_frame.start_offset # 0 => o < new_frame.start_offset
  BY DEF DataInv, ControlInv
<1>2. new_frame \in FrameInfo
  BY DEF IInv, TypeOK, RecordsOK
<1>3. o \in Nat /\ o < read_offset
  BY PassedTyped
<1>4. new_frame' = WithControl(new_frame', file.chunk[o])
  BY <1>1, <1>2, ControlKept
<1>5. new_frame'.start_offset # 0 => o < new_frame'.start_offset
  BY <1>1, <1>3
<1>6. CASE Stays
  BY <1>1, <1>4, <1>5, <1>6, PassedStays DEF Stays, LastControl, IsControl
<1>7. CASE LeavesChunk /\ chunk.type # "fcTL"
  <2>1. /\ Passed' = Passed \cup {read_offset}
        /\ chunk = file.chunk[read_offset]
        /\ file' = file
    BY <1>7, PassedGrows DEF LeavesChunk
  <2>2. LastControl(o)'
    BY <1>1, <1>7, <2>1 DEF LastControl, IsControl
  <2> QED
    BY <1>4, <1>5, <2>1, <2>2
<1> QED
  BY <1>6, <1>7

(* A new one is accepted.                                                  *)
LEMMA ControlAccepted ==
  ASSUME IInv, DataInv, LeavesChunk, chunk.type = "fcTL",
         NEW base \in FrameInfo, base.start_offset = 0,
         new_frame' = WithControl(base, chunk)
  PROVE  ControlInv'
<1>1. /\ Passed' = Passed \cup {read_offset}
      /\ read_offset \in Nat
      /\ chunk = file.chunk[read_offset] /\ chunk \in Chunk
      /\ file' = file
  BY PassedGrows DEF LeavesChunk
<1>2. \A o \in Passed : o \in Nat /\ o < read_offset
  BY PassedTyped
<1> PICK r : r = read_offset
  OBVIOUS
<1>3. LastControl(r)'
  BY <1>1, <1>2 DEF LastControl, IsControl
<1>4. /\ new_frame' = WithControl(new_frame', file'.chunk[r])
      /\ new_frame'.start_offset = 0
  BY <1>1, ControlGiven
<1> QED
  BY <1>1, <1>3, <1>4 DEF ControlInv

-----------------------------------------------------------------------------
(* The chunks of the frames.                                               *)

(* What a step with frame data does to the frames: nothing, or it begins   *)
(* the first or a later one at read_offset.                                *)
Begins ==
  \/ UNCHANGED <<new_frame, frame_info>>
  \/ /\ frame_info = <<>> /\ new_frame.start_offset = 0
     /\ frame_info' = <<new_frame'>>
     /\ new_frame'.byte_length = kFirstFrameIndicator
     /\ new_frame'.start_offset = read_offset
  \/ /\ frame_info # <<>> /\ new_frame.start_offset = 0
     /\ frame_info' = frame_info
     /\ new_frame'.start_offset = read_offset

LEMMA FrameTyped ==
  ASSUME IInv, is_animated, NEW i \in DOMAIN frame_info
  PROVE  /\ i \in Nat /\ frame_info[i] \in FrameInfo
         /\ FrameStart(i) \in Nat /\ FrameEnd(i) \in Nat
         /\ FrameStart(i) <= read_offset /\ FrameEnd(i) <= read_offset
         /\ i > 1 => ~FirstFrameIsOpen
<1>1. frame_info \in Seq(FrameInfo) /\ new_frame \in FrameInfo
      /\ read_offset \in Nat
  BY DEF IInv, TypeOK, RecordsOK, ScalarsOK
<1>2. /\ i \in Nat /\ frame_info[i] \in FrameInfo
      /\ FrameStart(i) \in Nat /\ frame_info[i].byte_length \in Nat
  <2>1. i \in Nat /\ frame_info[i] \in FrameInfo
    BY <1>1
  <2> QED
    BY <2>1 DEF FrameStart, FrameInfo
<1>3. CASE i = 1 /\ FirstFrameIsOpen
  <2>1. /\ new_frame.start_offset # 0
        /\ frame_info[1].start_offset = new_frame.start_offset
        /\ \/ new_frame.start_offset + 12 <= read_offset
           \/ new_frame.start_offset = read_offset
    BY <1>3 DEF IInv, ReaderInv, ConstructionInv
  <2>2. FrameStart(i) <= read_offset
    BY <1>1, <1>2, <1>3, <2>1 DEF FrameStart, FrameInfo
  <2> QED
    BY <1>1, <1>2, <1>3, <2>2 DEF FrameEnd
<1>4. CASE ~(i = 1 /\ FirstFrameIsOpen)
  <2>1. frame_info[i].byte_length # kFirstFrameIndicator
    BY <1>1, <1>2, <1>4
       DEF IInv, ReaderInv, LaterFramesClosed, FirstFrameIsOpen
  <2>2. FrameStart(i) + frame_info[i].byte_length <= read_offset
    BY <2>1, ClosedFrame DEF FrameStart
  <2>3. i > 1 => ~FirstFrameIsOpen
    BY <1>1, <1>2 DEF IInv, ReaderInv, ConstructionInv
  <2> QED
    BY <1>1, <1>2, <1>4, <2>2, <2>3 DEF FrameEnd
<1> QED
  BY <1>2, <1>3, <1>4

LEMMA RunsExtend ==
  ASSUME IInv, IInv', DataInv, ControlInv',
         size_available, is_animated, UNCHANGED <<size_available, is_animated>>,
         ~ignore_animation', UNCHANGED idat_is_part_of_animation,
         idat_is_part_of_animation' \/ ~expect_idats' \/ UNCHANGED frame_info,
         Begins,
         Stays \/ (LeavesChunk /\ ~EndsFrame(read_offset)),
         LeavesChunk /\ IsFrameData(read_offset) => new_frame'.start_offset # 0
  PROVE  RunsInv' /\ CoverInv'
<1>1. /\ frame_info \in Seq(FrameInfo) /\ frame_info' \in Seq(FrameInfo)
      /\ new_frame \in FrameInfo /\ new_frame' \in FrameInfo
      /\ read_offset \in Nat
  BY DEF IInv, TypeOK, RecordsOK, ScalarsOK
<1>2. /\ \A i \in DOMAIN frame_info :
           \A o \in Passed : InFrame(i, o) => ~EndsFrame(o)
      /\ new_frame.start_offset # 0 =>
           \A o \in Passed : new_frame.start_offset <= o => ~EndsFrame(o)
      /\ \A i \in DOMAIN frame_info : HasControl(i)
      /\ \A o \in Passed : IsFrameData(o) =>
           \/ new_frame.start_offset # 0 /\ new_frame.start_offset <= o
           \/ \E i \in DOMAIN frame_info : InFrame(i, o)
  BY DEF DataInv, RunsInv, CoverInv
<1> PICK r : r = read_offset
  OBVIOUS
<1>3. /\ Passed' = Passed \/ (Passed' = Passed \cup {r} /\ ~EndsFrame(r))
      /\ file' = file
      /\ r \in Passed' => LeavesChunk \/ r \in Passed
  BY PassedStays, PassedGrows DEF Stays, LeavesChunk
<1>4. \A o \in Passed : o \in Nat /\ o < r
  BY PassedTyped
<1>5. read_offset' \in Nat /\ r <= read_offset'
  BY <1>1, PassedGrows DEF Stays, IInv, TypeOK, ScalarsOK
<1>6. \A o : /\ EndsFrame(o)' <=> EndsFrame(o)
             /\ IsFrameData(o)' <=> IsFrameData(o)
             /\ IsControl(o)' <=> IsControl(o)
  BY <1>3 DEF EndsFrame, IsFrameData, IsControl
<1>7. new_frame.start_offset \in Nat /\ new_frame.start_offset <= r
  BY <1>1 DEF IInv, ReaderInv, ConstructionInv, FrameInfo
<1>8. CASE frame_info' = frame_info
  <2>1. ASSUME NEW i \in DOMAIN frame_info, NEW o \in Passed
        PROVE  InFrame(i, o)' <=> InFrame(i, o)
    <3>1. FirstFrameIsOpen' <=> FirstFrameIsOpen
      BY <1>8 DEF FirstFrameIsOpen
    <3>2. FrameStart(i)' = FrameStart(i)
      BY <1>8 DEF FrameStart
    <3>3. CASE i = 1 /\ FirstFrameIsOpen
      <4>1. FrameEnd(i) = r /\ FrameEnd(i)' = read_offset'
        BY <3>1, <3>3 DEF FrameEnd
      <4>2. o < r /\ o < read_offset'
        BY <1>1, <1>4, <1>5
      <4> QED
        BY <3>2, <4>1, <4>2 DEF InFrame
    <3>4. CASE ~(i = 1 /\ FirstFrameIsOpen)
      BY <1>8, <3>1, <3>2, <3>4 DEF FrameEnd, InFrame
    <3> QED
      BY <3>3, <3>4
  <2>2. ASSUME NEW i \in DOMAIN frame_info', NEW o \in Passed', InFrame(i, o)'
        PROVE  ~EndsFrame(o)'
    BY <1>2, <1>3, <1>6, <1>8, <2>1, <2>2
  <2>3. ASSUME new_frame'.start_offset # 0, NEW o \in Passed',
               new_frame'.start_offset <= o
        PROVE  ~EndsFrame(o)'
    <3>1. CASE o \in Passed
      <4>1. ~(r <= o)
        BY <1>1, <1>4, <3>1
      <4>2. new_frame' = new_frame
        BY <1>8, <2>3, <4>1 DEF Begins
      <4> QED
        BY <1>2, <1>6, <2>3, <3>1, <4>2
    <3> QED
      BY <1>3, <1>6, <3>1
  <2>4. ASSUME NEW i \in DOMAIN frame_info'
        PROVE  HasControl(i)'
    <3>1. HasControl(i)
      BY <1>2, <1>8
    <3>2. FrameStart(i)' = FrameStart(i) /\ frame_info'[i] = frame_info[i]
      BY <1>8 DEF FrameStart
    <3>3. FrameStart(i) \in Nat /\ FrameStart(i) <= r
      BY <1>8, FrameTyped
    <3>4. ~(r < FrameStart(i))
      BY <1>1, <3>3
    <3>5. PICK o \in Passed :
            /\ IsControl(o)
            /\ o < FrameStart(i)
            /\ \A p \in Passed : o < p /\ p < FrameStart(i) => ~IsControl(p)
            /\ frame_info[i] = WithControl(frame_info[i], file.chunk[o])
      BY <3>1 DEF HasControl
    <3> QED
      BY <1>3, <1>6, <3>2, <3>4, <3>5 DEF HasControl
  <2>5. ASSUME NEW o \in Passed', IsFrameData(o)'
        PROVE  \/ new_frame'.start_offset # 0 /\ new_frame'.start_offset <= o
               \/ \E i \in DOMAIN frame_info' : InFrame(i, o)'
    <3>1. CASE o \in Passed
      BY <1>2, <1>6, <1>8, <2>1, <2>5, <3>1 DEF Begins
    <3>2. CASE o = r /\ o \notin Passed
      <4>1. new_frame'.start_offset # 0
        BY <1>3, <1>6, <2>5, <3>2
      <4>2. new_frame'.start_offset = r \/ new_frame' = new_frame
        BY <1>8 DEF Begins
      <4> QED
        BY <1>1, <1>7, <3>2, <4>1, <4>2
    <3> QED
      BY <1>3, <3>1, <3>2
  <2> QED
    BY <2>2, <2>3, <2>4, <2>5 DEF RunsInv, CoverInv
<1>9. CASE frame_info' # frame_info
  <2>1. /\ frame_info = <<>> /\ new_frame.start_offset = 0
        /\ frame_info' = <<new_frame'>>
        /\ new_frame'.byte_length = kFirstFrameIndicator
        /\ new_frame'.start_offset = r
    BY <1>9 DEF Begins
  <2>2. /\ DOMAIN frame_info' = {1} /\ frame_info'[1] = new_frame'
        /\ FrameStart(1)' = r
    BY <2>1 DEF FrameStart
  <2>3. \A o \in Passed : ~IsFrameData(o)
    BY <1>2, <2>1
  <2>4. ASSUME NEW o \in Passed', r <= o
        PROVE  ~EndsFrame(o)'
    BY <1>1, <1>3, <1>4, <1>6, <2>4
  <2>6. ASSUME NEW o \in Passed', InFrame(1, o)'
        PROVE  ~EndsFrame(o)'
    BY <2>2, <2>4, <2>6 DEF InFrame
  <2>7. HasControl(1)'
    <3>1. PICK o \in Passed' :
            /\ LastControl(o)'
            /\ new_frame' = WithControl(new_frame', file'.chunk[o])
            /\ new_frame'.start_offset # 0 => o < new_frame'.start_offset
      BY <1>9 DEF ControlInv
    <3>2. r # 0
      BY <2>1, <2>2 DEF IInv, ReaderInv, ConstructionInv, FirstFrameIsOpen
    <3> QED
      BY <2>1, <2>2, <3>1, <3>2 DEF HasControl, LastControl
  <2>8. ASSUME NEW o \in Passed', IsFrameData(o)'
        PROVE  new_frame'.start_offset # 0 /\ new_frame'.start_offset <= o
    BY <1>1, <1>3, <1>6, <2>1, <2>3, <2>8
  <2> QED
    BY <2>1, <2>2, <2>4, <2>6, <2>7, <2>8 DEF RunsInv, CoverInv
<1> QED
  BY <1>8, <1>9

(* Where the frame under construction is closed at read_offset, each frame *)
(* is one that was closed before, or ends there.                           *)
LEMMA ClosedRuns ==
  ASSUME IInv, InMetadata, chunk.type \in {"fcTL", "IEND"},
         NEW i \in DOMAIN ClosedFrames
  PROVE  /\ ClosedFrames[i] \in FrameInfo
         /\ ClosedFrames[i].byte_length # kFirstFrameIndicator
         /\ \/ /\ i \in DOMAIN frame_info
               /\ ClosedFrames[i] = frame_info[i]
            \/ /\ new_frame.start_offset # 0
               /\ ClosedFrames[i].start_offset = new_frame.start_offset
               /\ ClosedFrames[i].start_offset + ClosedFrames[i].byte_length
                    = read_offset
               /\ \/ SameControl(new_frame, ClosedFrames[i]) /\ ~FirstFrameIsOpen
                  \/ /\ i = 1 /\ FirstFrameIsOpen
                     /\ SameControl(frame_info[1], ClosedFrames[1])
<1>1. frame_info \in Seq(FrameInfo) /\ new_frame \in FrameInfo
  BY DEF IInv, TypeOK, RecordsOK
<1>2. ClosedFrames \in Seq(FrameInfo)
  BY ClosedTyped
<1>3. i \in Nat /\ ClosedFrames[i] \in FrameInfo
  BY <1>2
<1>4. is_animated
  BY DEF IInv, ReaderInv, CallInv, InMetadata
<1>5. CASE new_frame.start_offset = 0
  <2>1. ClosedFrames = frame_info
    BY <1>5 DEF ClosedFrames
  <2>2. ~FirstFrameIsOpen
    BY <1>4, <1>5 DEF IInv, ReaderInv, ConstructionInv
  <2>3. frame_info[i].byte_length # kFirstFrameIndicator
    BY <1>1, <2>1, <2>2
       DEF IInv, ReaderInv, LaterFramesClosed, FirstFrameIsOpen
  <2> QED
    BY <1>3, <2>1, <2>3
<1>6. CASE new_frame.start_offset # 0
  <2>1. /\ ClosedLength \in Nat /\ ClosedLength >= 12
        /\ new_frame.start_offset + ClosedLength = read_offset
    BY <1>6, ClosedLengthBound
  <2>2. ClosedLength # kFirstFrameIndicator
    BY <2>1 DEF kFirstFrameIndicator
  <2>3. CASE FirstFrameIsOpen
    <3>1. /\ Len(frame_info) = 1 /\ Len(ClosedFrames) = 1
          /\ ClosedFrames = [frame_info EXCEPT ![1].byte_length = ClosedLength]
          /\ ClosedFrames[1].start_offset = new_frame.start_offset
          /\ ClosedFrames[1].byte_length = ClosedLength
      BY <1>6, <2>3, ClosedFacts
    <3>2. i = 1 /\ frame_info[1] \in FrameInfo
      BY <1>1, <1>2, <3>1
    <3>3. ClosedFrames[1] = [frame_info[1] EXCEPT !.byte_length = ClosedLength]
      BY <1>1, <3>1
    <3>4. SameControl(frame_info[1], ClosedFrames[1])
      BY <3>2, <3>3 DEF SameControl, FrameInfo
    <3> QED
      BY <1>3, <1>6, <2>1, <2>2, <2>3, <3>1, <3>2, <3>4
  <2>4. CASE ~FirstFrameIsOpen
    <3> DEFINE f == [new_frame EXCEPT !.byte_length = ClosedLength]
    <3>1. ClosedFrames = Append(frame_info, f)
      BY <1>6, <2>4, ClosedFacts
    <3>2. /\ f.start_offset = new_frame.start_offset
          /\ f.byte_length = ClosedLength
          /\ SameControl(new_frame, f)
      BY <1>1 DEF SameControl, FrameInfo
    <3> HIDE DEF f
    <3>3. CASE i \in DOMAIN frame_info
      <4>1. ClosedFrames[i] = frame_info[i]
        BY <1>1, <3>1, <3>3
      <4>2. frame_info[i].byte_length # kFirstFrameIndicator
        BY <1>1, <2>4, <3>3
           DEF IInv, ReaderInv, LaterFramesClosed, FirstFrameIsOpen
      <4> QED
        BY <1>3, <3>3, <4>1, <4>2
    <3>4. CASE i \notin DOMAIN frame_info
      <4>1. ClosedFrames[i] = f
        BY <1>1, <1>2, <3>1, <3>4
      <4> QED
        BY <1>3, <1>6, <2>1, <2>2, <2>4, <3>2, <4>1
    <3> QED
      BY <3>3, <3>4
  <2> QED
    BY <2>3, <2>4
<1> QED
  BY <1>5, <1>6

(* And none is lost.                                                       *)
LEMMA ClosedCovers ==
  ASSUME IInv, InMetadata, chunk.type \in {"fcTL", "IEND"}
  PROVE  /\ DOMAIN frame_info \subseteq DOMAIN ClosedFrames
         /\ new_frame.start_offset # 0 =>
              \E i \in DOMAIN ClosedFrames :
                /\ ClosedFrames[i].start_offset = new_frame.start_offset
                /\ ClosedFrames[i].start_offset + ClosedFrames[i].byte_length
                     = read_offset
<1>1. frame_info \in Seq(FrameInfo) /\ new_frame \in FrameInfo
      /\ ClosedFrames \in Seq(FrameInfo)
  BY ClosedTyped DEF IInv, TypeOK, RecordsOK
<1>2. \/ new_frame.start_offset = 0 /\ ClosedFrames = frame_info
      \/ /\ new_frame.start_offset # 0
         /\ Len(frame_info) <= Len(ClosedFrames)
         /\ \E i \in {1, Len(ClosedFrames)} :
              /\ i \in 1 .. Len(ClosedFrames)
              /\ ClosedFrames[i].start_offset = new_frame.start_offset
              /\ ClosedFrames[i].byte_length = ClosedLength
  BY <1>1, ClosedFacts
<1>3. new_frame.start_offset # 0
        => new_frame.start_offset + ClosedLength = read_offset
  BY ClosedLengthBound
<1> QED
  BY <1>1, <1>2, <1>3

LEMMA RunsClose ==
  ASSUME IInv, DataInv, InMetadata, EndsFrame(read_offset),
         UNCHANGED <<size_available, is_animated, idat_is_part_of_animation>>,
         frame_info' = ClosedFrames, new_frame'.start_offset = 0,
         Stays \/ LeavesChunk
  PROVE  RunsInv' /\ CoverInv'
<1>1. /\ chunk.type \in {"fcTL", "IEND"} /\ chunk = file.chunk[read_offset]
      /\ size_available /\ is_animated
  BY DEF EndsFrame, chunk, IInv, ReaderInv, CallInv, InMetadata, TypeOK,
         StandsAtChunk
<1>2. /\ \A i \in DOMAIN frame_info :
           \A o \in Passed : InFrame(i, o) => ~EndsFrame(o)
      /\ new_frame.start_offset # 0 =>
           \A o \in Passed : new_frame.start_offset <= o => ~EndsFrame(o)
      /\ \A i \in DOMAIN frame_info : HasControl(i)
      /\ \A o \in Passed : IsFrameData(o) =>
           \/ new_frame.start_offset # 0 /\ new_frame.start_offset <= o
           \/ \E i \in DOMAIN frame_info : InFrame(i, o)
      /\ ~ignore_animation
  BY <1>1 DEF DataInv, RunsInv, CoverInv, SizeInv
<1> PICK r : r = read_offset
  OBVIOUS
<1>3. /\ Passed' = Passed \/ Passed' = Passed \cup {r}
      /\ file' = file
  BY PassedStays, PassedGrows DEF Stays, LeavesChunk
<1>4. \A o \in Passed : o \in Nat /\ o < r
  BY PassedTyped
<1>5. \A o : /\ EndsFrame(o)' <=> EndsFrame(o)
             /\ IsFrameData(o)' <=> IsFrameData(o)
             /\ IsControl(o)' <=> IsControl(o)
  BY <1>3 DEF EndsFrame, IsFrameData, IsControl
<1>6. r \in Nat /\ EndsFrame(r) /\ ~IsFrameData(r)
  BY <1>1 DEF EndsFrame, IsFrameData, IInv, TypeOK, ScalarsOK
<1>7. ASSUME NEW i \in DOMAIN frame_info'
      PROVE  /\ FrameStart(i)' = ClosedFrames[i].start_offset
             /\ FrameEnd(i)' = ClosedFrames[i].start_offset
                                 + ClosedFrames[i].byte_length
             /\ FrameStart(i)' \in Nat /\ FrameEnd(i)' \in Nat
             /\ FrameEnd(i)' <= r /\ FrameStart(i)' <= r
  <2>1. /\ ClosedFrames[i] \in FrameInfo
        /\ ClosedFrames[i].byte_length # kFirstFrameIndicator
    BY <1>1, <1>7, ClosedRuns
  <2>2. ~(i = 1 /\ FirstFrameIsOpen')
    BY <2>1 DEF FirstFrameIsOpen
  <2>3. /\ FrameStart(i)' = ClosedFrames[i].start_offset
        /\ FrameEnd(i)' = ClosedFrames[i].start_offset
                            + ClosedFrames[i].byte_length
    BY <2>2 DEF FrameStart, FrameEnd
  <2>4. ClosedFrames[i].start_offset \in Nat /\ ClosedFrames[i].byte_length \in Nat
    BY <2>1 DEF FrameInfo
  <2>5. FrameEnd(i)' <= r
    <3>1. CASE i \in DOMAIN frame_info /\ ClosedFrames[i] = frame_info[i]
      BY <2>1, <2>3, <3>1, ClosedFrame
    <3> QED
      BY <1>1, <1>6, <1>7, <2>3, <3>1, ClosedRuns
  <2> QED
    BY <1>6, <2>3, <2>4, <2>5
<1>8. ASSUME NEW i \in DOMAIN frame_info, NEW o \in Passed
      PROVE  i \in DOMAIN frame_info' /\ (InFrame(i, o) => InFrame(i, o)')
  <2>1. i \in DOMAIN frame_info'
    BY <1>1, ClosedCovers
  <2>2. CASE ClosedFrames[i] = frame_info[i]
    <3>1. frame_info[i].byte_length # kFirstFrameIndicator
      BY <1>1, <2>1, <2>2, ClosedRuns
    <3>2. FrameStart(i) = FrameStart(i)' /\ FrameEnd(i) = FrameEnd(i)'
      BY <1>7, <2>1, <2>2, <3>1 DEF FrameStart, FrameEnd, FirstFrameIsOpen
    <3> QED
      BY <2>1, <3>2 DEF InFrame
  <2>3. CASE ClosedFrames[i] # frame_info[i]
    <3>1. /\ i = 1 /\ FirstFrameIsOpen
          /\ ClosedFrames[i].start_offset = new_frame.start_offset
          /\ ClosedFrames[i].start_offset + ClosedFrames[i].byte_length = r
      <4>1. ~FirstFrameIsOpen => ClosedFrames[i] = frame_info[i]
        <5>1. frame_info \in Seq(FrameInfo)
          BY DEF IInv, TypeOK, RecordsOK
        <5> QED
          BY <1>1, <5>1, ClosedFacts
      <4> QED
        BY <1>1, <2>1, <2>3, <4>1, ClosedRuns
    <3>2. FrameStart(i) = new_frame.start_offset /\ FrameEnd(i) = r
      BY <1>1, <3>1
         DEF FrameStart, FrameEnd, IInv, ReaderInv, ConstructionInv
    <3>3. FrameStart(i)' = FrameStart(i) /\ FrameEnd(i)' = FrameEnd(i)
      BY <1>7, <2>1, <3>1, <3>2
    <3> QED
      BY <2>1, <3>3 DEF InFrame
  <2> QED
    BY <2>2, <2>3
<1>9. ASSUME NEW i \in DOMAIN frame_info', NEW o \in Passed', InFrame(i, o)'
      PROVE  ~EndsFrame(o)'
  <2>1. o \in Passed
    <3>1. ~InFrame(i, r)'
      BY <1>6, <1>7 DEF InFrame
    <3> QED
      BY <1>3, <1>9, <3>1
  <2>2. CASE i \in DOMAIN frame_info /\ ClosedFrames[i] = frame_info[i]
    <3>1. frame_info[i].byte_length # kFirstFrameIndicator
      BY <1>1, <1>9, <2>2, ClosedRuns
    <3>2. FrameStart(i) = FrameStart(i)' /\ FrameEnd(i) = FrameEnd(i)'
      BY <1>7, <1>9, <2>2, <3>1 DEF FrameStart, FrameEnd, FirstFrameIsOpen
    <3>3. InFrame(i, o)
      BY <1>9, <3>2 DEF InFrame
    <3> QED
      BY <1>2, <1>5, <2>1, <2>2, <3>3
  <2>3. CASE ~(i \in DOMAIN frame_info /\ ClosedFrames[i] = frame_info[i])
    <3>1. /\ new_frame.start_offset # 0
          /\ FrameStart(i)' = new_frame.start_offset
      BY <1>1, <1>7, <1>9, <2>3, ClosedRuns
    <3>2. new_frame.start_offset <= o
      BY <1>9, <3>1 DEF InFrame
    <3> QED
      BY <1>2, <1>5, <2>1, <3>1, <3>2
  <2> QED
    BY <2>2, <2>3
<1>10. ASSUME NEW i \in DOMAIN frame_info'
       PROVE  HasControl(i)'
  <2>1. ~(r < FrameStart(i)') /\ ClosedFrames[i] \in FrameInfo
    BY <1>1, <1>6, <1>7, <1>10, ClosedRuns
  <2>2. ASSUME NEW o \in Passed, IsControl(o), o < FrameStart(i)',
               \A p \in Passed :
                 o < p /\ p < FrameStart(i)' => ~IsControl(p),
               ClosedFrames[i] = WithControl(ClosedFrames[i], file.chunk[o])
        PROVE  HasControl(i)'
    BY <1>3, <1>5, <2>1, <2>2 DEF HasControl
  <2>3. CASE /\ i \in DOMAIN frame_info
             /\ SameControl(frame_info[i], ClosedFrames[i])
             /\ FrameStart(i) = FrameStart(i)'
    <3>1. PICK o \in Passed :
            /\ IsControl(o)
            /\ o < FrameStart(i)
            /\ \A p \in Passed : o < p /\ p < FrameStart(i) => ~IsControl(p)
            /\ frame_info[i] = WithControl(frame_info[i], file.chunk[o])
      BY <1>2, <2>3 DEF HasControl
    <3>2. frame_info[i] \in FrameInfo
      BY <1>1, <2>3, FrameTyped
    <3>3. ClosedFrames[i] = WithControl(ClosedFrames[i], file.chunk[o])
      BY <2>1, <2>3, <3>1, <3>2, ControlKept
    <3> QED
      BY <2>2, <2>3, <3>1, <3>3
  <2>4. CASE /\ new_frame.start_offset # 0
             /\ SameControl(new_frame, ClosedFrames[i])
             /\ FrameStart(i)' = new_frame.start_offset
    <3>1. PICK o \in Passed :
            /\ LastControl(o)
            /\ new_frame = WithControl(new_frame, file.chunk[o])
            /\ o < new_frame.start_offset
      BY <1>2, <2>4 DEF DataInv, BeginInv, ControlInv
    <3>2. new_frame \in FrameInfo
      BY DEF IInv, TypeOK, RecordsOK
    <3>3. ClosedFrames[i] = WithControl(ClosedFrames[i], file.chunk[o])
      BY <2>1, <2>4, <3>1, <3>2, ControlKept
    <3> QED
      BY <2>2, <2>4, <3>1, <3>3 DEF LastControl
  <2>5. CASE i \in DOMAIN frame_info /\ ClosedFrames[i] = frame_info[i]
    BY <1>7, <1>10, <2>3, <2>5 DEF FrameStart, SameControl
  <2>6. CASE ~(i \in DOMAIN frame_info /\ ClosedFrames[i] = frame_info[i])
    <3>1. CASE i = 1 /\ FirstFrameIsOpen
      <4>1. /\ SameControl(frame_info[1], ClosedFrames[1])
            /\ ClosedFrames[1].start_offset = new_frame.start_offset
        BY <1>1, <1>10, <2>6, <3>1, ClosedRuns
      <4>2. 1 \in DOMAIN frame_info /\ FrameStart(1) = new_frame.start_offset
        BY <1>1, <3>1
           DEF FirstFrameIsOpen, FrameStart, IInv, ReaderInv, ConstructionInv,
               TypeOK, RecordsOK
      <4> QED
        BY <1>7, <1>10, <2>3, <3>1, <4>1, <4>2
    <3>2. CASE ~(i = 1 /\ FirstFrameIsOpen)
      BY <1>1, <1>7, <1>10, <2>4, <2>6, <3>2, ClosedRuns
    <3> QED
      BY <3>1, <3>2
  <2> QED
    BY <2>5, <2>6
<1>11. ASSUME NEW o \in Passed', IsFrameData(o)'
       PROVE  \E i \in DOMAIN frame_info' : InFrame(i, o)'
  <2>1. o \in Passed /\ IsFrameData(o) /\ o \in Nat /\ o < r
    BY <1>3, <1>4, <1>5, <1>6, <1>11
  <2>2. CASE new_frame.start_offset # 0 /\ new_frame.start_offset <= o
    <3>1. PICK i \in DOMAIN ClosedFrames :
            /\ ClosedFrames[i].start_offset = new_frame.start_offset
            /\ ClosedFrames[i].start_offset + ClosedFrames[i].byte_length = r
      BY <1>1, <2>2, ClosedCovers
    <3>2. FrameStart(i)' = new_frame.start_offset /\ FrameEnd(i)' = r
      BY <1>7, <3>1
    <3> QED
      BY <2>1, <2>2, <3>2 DEF InFrame
  <2>3. CASE \E i \in DOMAIN frame_info : InFrame(i, o)
    BY <1>8, <2>1, <2>3
  <2> QED
    BY <1>2, <2>1, <2>2, <2>3
<1> QED
  BY <1>9, <1>10, <1>11 DEF RunsInv, CoverInv

-----------------------------------------------------------------------------
(* The steps.                                                              *)

(* Steps that pass no chunk and begin or end no frame.                     *)
LEMMA DataStays ==
  ASSUME IInv, DataInv, Stays,
         UNCHANGED <<next_sequence_number, expect_idats, ignore_animation>>
  PROVE  SequenceInv' /\ KindsInv'
<1>1. Passed' = Passed /\ file' = file
  BY PassedStays DEF Stays
<1>2. \A o : /\ IsNumbered(o)' <=> IsNumbered(o)
             /\ IsControl(o)' <=> IsControl(o)
  BY <1>1 DEF IsNumbered, IsControl
<1>3. Numbered' = Numbered /\ \A o : NumberedBefore(o)' = NumberedBefore(o)
  BY <1>1, <1>2 DEF Numbered, NumberedBefore
<1>4. SequenceInv'
  BY <1>1, <1>3 DEF DataInv, SequenceInv
<1>5. KindsInv'
  BY <1>1, <1>2 DEF DataInv, KindsInv
<1> QED
  BY <1>4, <1>5

DataVars == <<file, read_offset, parsed_signature, size_available,
              expect_idats, is_animated, ignore_animation,
              idat_is_part_of_animation, next_sequence_number, new_frame>>

LEMMA QuietDataStep ==
  ASSUME IInv, DataInv, UNCHANGED DataVars,
         UNCHANGED frame_info \/ ~is_animated
  PROVE  DataInv'
<1> USE DEF DataVars
<1>1. FileInv' /\ Stays
  BY DEF DataInv, FileInv, Stays
<1>2. Passed' = Passed
  BY <1>1, PassedStays
<1>3. SizeInv'
  BY <1>2 DEF DataInv, SizeInv
<1>4. SequenceInv' /\ KindsInv'
  BY <1>1, DataStays
<1>5. ControlInv'
  BY <1>2 DEF DataInv, ControlInv, LastControl, IsControl
<1>6. BeginInv'
  BY DEF DataInv, BeginInv
<1>7. CASE ~is_animated
  BY <1>1, <1>3, <1>4, <1>5, <1>6, <1>7 DEF DataInv, RunsInv, CoverInv
<1>8. CASE UNCHANGED frame_info
  <2>1. \A i : /\ FrameStart(i)' = FrameStart(i)
               /\ FrameEnd(i)' = FrameEnd(i)
    BY <1>8 DEF FrameStart, FrameEnd, FirstFrameIsOpen
  <2>2. /\ \A i, o : InFrame(i, o)' <=> InFrame(i, o)
        /\ \A o : /\ IsFrameData(o)' <=> IsFrameData(o)
                  /\ EndsFrame(o)' <=> EndsFrame(o)
                  /\ IsControl(o)' <=> IsControl(o)
    BY <2>1 DEF InFrame, IsFrameData, EndsFrame, IsControl
  <2>3. \A i \in DOMAIN frame_info : HasControl(i)' <=> HasControl(i)
    BY <1>2, <1>8, <2>1, <2>2 DEF HasControl
  <2>4. RunsInv'
    BY <1>2, <1>8, <2>2, <2>3 DEF DataInv, RunsInv
  <2>5. CoverInv'
    BY <1>2, <1>8, <2>2 DEF DataInv, CoverInv
  <2> QED
    BY <1>1, <1>3, <1>4, <1>5, <1>6, <2>4, <2>5 DEF DataInv
<1> QED
  BY <1>7, <1>8

(* Behind the signature no chunk has been passed.                          *)
LEMMA SignatureDataStep ==
  ASSUME IInv, DataInv, ParseSignature, ~Fail
  PROVE  DataInv'
<1> USE DEF input, animated, decoder, frames
<1>1. /\ ~size_available /\ ~parsed_signature
      /\ read_offset' = SignatureEnd
      /\ new_frame' = [new_frame EXCEPT !.start_offset = 0]
      /\ UNCHANGED <<file, size_available, expect_idats, is_animated,
                     ignore_animation, idat_is_part_of_animation,
                     next_sequence_number, frame_info>>
  BY DEF ParseSignature
<1>2. Passed = {} /\ file \in Files /\ SizeInv /\ FileInv'
  BY <1>1 DEF DataInv, SizeInv, FileInv
<1>3. Passed' = {}
  <2>1. SignatureEnd \in Nat /\ \A o \in DOMAIN file.chunk :
                                  o \in Nat /\ o >= SignatureEnd
    BY <1>2, ReaderAssumption DEF IsFile, SignatureEnd
  <2> QED
    BY <1>1, <2>1 DEF Passed
<1>4. SizeInv'
  BY <1>1, <1>2, <1>3 DEF SizeInv
<1>5. SequenceInv'
  <2>1. Numbered = {} /\ Numbered' = {}
    BY <1>2, <1>3 DEF Numbered
  <2> QED
    BY <1>1, <2>1 DEF DataInv, SequenceInv
<1>6. KindsInv'
  BY <1>1, <1>2, <1>3 DEF KindsInv, SizeInv
<1>7. ControlInv' /\ BeginInv'
  <2>1. new_frame'.start_offset = 0
    BY <1>1 DEF IInv, TypeOK, RecordsOK, FrameInfo
  <2> QED
    BY <1>1, <1>2, <2>1 DEF DataInv, ControlInv, BeginInv
<1> QED
  BY <1>1, <1>2, <1>4, <1>5, <1>6, <1>7 DEF DataInv, RunsInv, CoverInv

(* The chunks in front of the image data.                                  *)
LEMMA HeaderDataStep ==
  ASSUME IInv, IInv', DataInv, NEW types, HeaderChunk(types),
         "IDAT" \notin types,
         UNCHANGED <<parsed_signature, size_available>>,
         new_frame' = new_frame \/ new_frame' = WithControl(new_frame, chunk),
         ~ignore_animation' =>
           /\ ~ignore_animation /\ chunk.type # "fdAT" /\ Counted
           /\ IF chunk.type = "fcTL"
                THEN new_frame' = WithControl(new_frame, chunk)
                ELSE UNCHANGED <<new_frame, idat_is_part_of_animation>>
  PROVE  DataInv'
<1>1. /\ ~size_available /\ chunk.type \in types /\ LeavesChunk
      /\ UNCHANGED <<file, expect_idats, frame_info>>
  BY HeaderIsHere DEF HeaderChunk, InHeader, LeavesChunk, input, frames, IInv
<1>2. expect_idats /\ \A o \in Passed : file.chunk[o].type # "IDAT"
  BY <1>1 DEF DataInv, SizeInv
<1>3. /\ Passed' = Passed \cup {read_offset}
      /\ chunk = file.chunk[read_offset] /\ chunk \in Chunk
  BY <1>1, PassedGrows
<1>4. FileInv' /\ SizeInv'
  BY <1>1, <1>2, <1>3 DEF DataInv, FileInv, SizeInv, LeavesChunk
<1>5. SequenceInv'
  BY <1>1, SequencePassed
<1>6. KindsInv'
  BY <1>1, <1>2, KindsPassed
<1>7. new_frame \in FrameInfo /\ new_frame.start_offset = 0
  BY <1>1, HeaderHasNoFrames
     DEF IInv, TypeOK, RecordsOK, HeaderChunk, InHeader
<1>8. BeginInv'
  <2>1. new_frame'.start_offset = 0
    BY <1>3, <1>7, WithControlTyped
  <2> QED
    BY <2>1 DEF BeginInv
<1>9. ControlInv'
  <2>1. CASE ignore_animation'
    BY <2>1 DEF ControlInv
  <2>2. CASE ~ignore_animation' /\ chunk.type = "fcTL"
    BY <1>1, <1>7, <2>2, ControlAccepted
  <2>3. CASE ~ignore_animation' /\ chunk.type # "fcTL"
    <3>1. UNCHANGED <<new_frame, idat_is_part_of_animation>>
      BY <2>3
    <3>2. SameControl(new_frame, new_frame')
      BY <3>1 DEF SameControl
    <3> QED
      BY <1>1, <1>7, <2>3, <3>1, <3>2, ControlRemains
  <2> QED
    BY <2>1, <2>2, <2>3
<1> QED
  BY <1>1, <1>4, <1>5, <1>6, <1>8, <1>9 DEF DataInv, RunsInv, CoverInv

(* The first IDAT, which is not passed yet.                                *)
LEMMA SizeDataStep ==
  ASSUME IInv, DataInv, HeaderIDAT
  PROVE  DataInv'
<1> USE DEF input, frames
<1>1. /\ ~size_available /\ pc = "size" /\ parsed_signature
      /\ UNCHANGED <<file, read_offset, parsed_signature, expect_idats,
                     ignore_animation, idat_is_part_of_animation,
                     next_sequence_number, new_frame, frame_info>>
      /\ size_available' = TRUE
      /\ is_animated' = (is_animated /\ ~ignore_animation)
  BY DEF HeaderIDAT, InHeader
<1>2. frame_info = <<>> /\ new_frame.start_offset = 0
  BY <1>1, HeaderHasNoFrames
<1>3. FileInv' /\ Stays
  BY <1>1 DEF DataInv, FileInv, Stays
<1>4. Passed' = Passed
  BY <1>3, PassedStays
<1>5. SizeInv'
  BY <1>1 DEF SizeInv
<1>6. SequenceInv' /\ KindsInv'
  BY <1>1, <1>3, DataStays
<1>7. ControlInv' /\ BeginInv'
  BY <1>1, <1>4
     DEF DataInv, ControlInv, BeginInv, LastControl, IsControl
<1>8. RunsInv'
  BY <1>1, <1>2 DEF RunsInv
<1>9. CoverInv'
  <2> SUFFICES ASSUME is_animated', NEW o \in Passed PROVE ~IsFrameData(o)'
    BY <1>4 DEF CoverInv
  <2>1. file.chunk[o].type \notin {"IDAT", "fdAT"}
    BY <1>1 DEF DataInv, SizeInv, KindsInv
  <2> QED
    BY <1>1, <2>1 DEF IsFrameData
<1> QED
  BY <1>3, <1>5, <1>6, <1>7, <1>8, <1>9 DEF DataInv

(* What the metadata loop knows.                                           *)
LEMMA InMetadataData ==
  ASSUME IInv, DataInv, InMetadata
  PROVE  /\ parsed_signature /\ HeaderArrived
         /\ chunk \in Chunk /\ chunk = file.chunk[read_offset]
         /\ size_available /\ is_animated /\ ~ignore_animation
BY InMetadataTyped
   DEF IInv, ReaderInv, CallInv, TypeOK, StandsAtChunk, InMetadata, chunk,
       DataInv, SizeInv

LEMMA StartFrameControl ==
  ASSUME IInv, StartFrame, InMetadata, chunk.type \in {"fdAT", "IDAT"}
  PROVE  /\ Begins
         /\ new_frame' \in FrameInfo /\ SameControl(new_frame, new_frame')
         /\ new_frame'.start_offset # 0
         /\ new_frame'.start_offset \in {new_frame.start_offset, read_offset}
<1> DEFINE started == [new_frame EXCEPT !.start_offset = read_offset]
           first == [started EXCEPT !.byte_length = kFirstFrameIndicator]
<1>1. new_frame \in FrameInfo /\ new_frame' \in FrameInfo
  BY StartFrameTyped DEF IInv, TypeOK, RecordsOK
<1>2. new_frame' \in {new_frame, started, first}
  BY DEF StartFrame
<1>3. SameControl(new_frame, started) /\ SameControl(new_frame, first)
      /\ SameControl(new_frame, new_frame)
  BY <1>1 DEF FrameInfo, SameControl
<1> HIDE DEF started, first
<1>4. SameControl(new_frame, new_frame')
  BY <1>2, <1>3
<1> QED
  BY <1>1, <1>4, FrameDataFacts DEF Begins

LEMMA FrameDataDataStep ==
  ASSUME IInv, IInv', DataInv, FrameData \/ AwaitSequenceNumber
  PROVE  DataInv'
<1> USE DEF input, header, animated, decoder
<1>1. /\ InMetadata /\ StartFrame /\ ~DataOutOfOrder /\ CarriesFrameData
      /\ chunk.type \in {"fdAT", "IDAT"}
      /\ UNCHANGED <<file, parsed_signature, size_available,
                     expect_idats, is_animated, ignore_animation,
                     idat_is_part_of_animation>>
  BY DEF FrameData, AwaitSequenceNumber, CarriesFrameData
<1>2. /\ parsed_signature /\ HeaderArrived
      /\ chunk = file.chunk[read_offset]
      /\ size_available /\ is_animated /\ ~ignore_animation
  BY <1>1, InMetadataData
<1>3. /\ chunk.type = "fdAT" => ~expect_idats
      /\ chunk.type = "IDAT" => expect_idats /\ idat_is_part_of_animation
      /\ IsFrameData(read_offset) /\ ~EndsFrame(read_offset)
  BY <1>1, <1>2 DEF DataOutOfOrder, CarriesFrameData, IsFrameData, EndsFrame
<1>4. /\ Begins
      /\ new_frame' \in FrameInfo /\ SameControl(new_frame, new_frame')
      /\ new_frame'.start_offset # 0
      /\ new_frame'.start_offset \in {new_frame.start_offset, read_offset}
  BY <1>1, StartFrameControl
<1>5. \/ /\ LeavesChunk
         /\ IF chunk.type = "fdAT"
              THEN /\ chunk.seq = next_sequence_number
                   /\ next_sequence_number' = next_sequence_number + 1
              ELSE UNCHANGED next_sequence_number
      \/ Stays /\ UNCHANGED next_sequence_number
  <2>1. CASE FrameData
    <3>1. next_sequence_number \in Nat
      BY DEF IInv, TypeOK, ScalarsOK
    <3>2. LeavesChunk
      BY <1>1, <1>2, <2>1 DEF FrameData, LeavesChunk
    <3> QED
      BY <2>1, <3>1, <3>2 DEF FrameData, SequenceMatches
  <2>2. CASE AwaitSequenceNumber
    BY <2>2 DEF AwaitSequenceNumber, Stays
  <2> QED
    BY <2>1, <2>2
<1>6. FileInv' /\ SizeInv'
  BY <1>1, <1>2 DEF DataInv, FileInv, SizeInv
<1>7. SequenceInv' /\ KindsInv'
  <2>1. CASE LeavesChunk
    <3>1. Counted
      <4>1. ~(Stays /\ LeavesChunk)
        BY <2>1, PassedGrows DEF Stays, IInv, TypeOK, ScalarsOK
      <4> QED
        BY <1>1, <1>2, <1>5, <2>1, <4>1 DEF Counted, IsNumbered
    <3> QED
      BY <1>1, <1>2, <1>3, <2>1, <3>1, SequencePassed, KindsPassed
  <2>2. CASE Stays /\ UNCHANGED next_sequence_number
    BY <1>1, <2>2, DataStays
  <2> QED
    BY <1>5, <2>1, <2>2
<1>8. ControlInv'
  BY <1>1, <1>4, <1>5, ControlRemains
<1>9. BeginInv'
  BY <1>1, <1>3 DEF BeginInv
<1>10. RunsInv' /\ CoverInv'
  <2>1. idat_is_part_of_animation' \/ ~expect_idats'
    BY <1>1, <1>3
  <2> QED
    BY <1>1, <1>2, <1>3, <1>4, <1>5, <1>8, <2>1, RunsExtend
<1> QED
  BY <1>6, <1>7, <1>8, <1>9, <1>10 DEF DataInv

LEMMA SkipDataStep ==
  ASSUME IInv, IInv', DataInv, SkipChunk
  PROVE  DataInv'
<1> USE DEF input, header, animated, decoder, control, frames
<1>1. /\ InMetadata /\ chunk.type \notin {"fcTL", "fdAT", "IEND"}
      /\ chunk.type = "IDAT" => expect_idats /\ ~idat_is_part_of_animation
      /\ read_offset' = chunk_end_offset
      /\ UNCHANGED <<file, parsed_signature, size_available,
                     expect_idats, is_animated, ignore_animation,
                     idat_is_part_of_animation, next_sequence_number,
                     new_frame, frame_info>>
  BY DEF SkipChunk, CarriesFrameData, DataOutOfOrder
<1>2. /\ parsed_signature /\ HeaderArrived
      /\ chunk = file.chunk[read_offset]
      /\ size_available /\ is_animated /\ ~ignore_animation
  BY <1>1, InMetadataData
<1>3. LeavesChunk /\ Counted /\ ~IsFrameData(read_offset) /\ ~EndsFrame(read_offset)
  BY <1>1, <1>2 DEF LeavesChunk, Counted, IsNumbered, IsFrameData, EndsFrame
<1>4. FileInv' /\ SizeInv'
  BY <1>1, <1>2 DEF DataInv, FileInv, SizeInv
<1>5. SequenceInv'
  BY <1>1, <1>3, SequencePassed
<1>6. KindsInv'
  BY <1>1, <1>3, KindsPassed
<1>7. ControlInv'
  <2>1. SameControl(new_frame, new_frame') /\ new_frame' \in FrameInfo
    BY <1>1 DEF SameControl, IInv, TypeOK, RecordsOK
  <2> QED
    BY <1>1, <1>3, <2>1, ControlRemains
<1>8. BeginInv'
  BY <1>1 DEF DataInv, BeginInv
<1>9. RunsInv' /\ CoverInv'
  BY <1>1, <1>2, <1>3, <1>7, RunsExtend DEF Begins
<1> QED
  BY <1>4, <1>5, <1>6, <1>7, <1>8, <1>9 DEF DataInv

LEMMA ClosingDataStep ==
  ASSUME IInv, IInv', DataInv, AwaitFrameEnd \/ EndOfImage \/ NextFrame
  PROVE  DataInv'
<1> USE DEF input, header, animated, decoder
<1>1. /\ InMetadata /\ chunk.type \in {"fcTL", "IEND"}
      /\ frame_info' = ClosedFrames
      /\ UNCHANGED <<file, parsed_signature, size_available,
                     is_animated, ignore_animation,
                     idat_is_part_of_animation>>
  BY DEF AwaitFrameEnd, EndOfImage, NextFrame
<1>2. /\ parsed_signature /\ HeaderArrived
      /\ chunk \in Chunk /\ chunk = file.chunk[read_offset]
      /\ size_available /\ is_animated /\ ~ignore_animation
  BY <1>1, InMetadataData
<1>3. /\ ClosedNewFrame \in FrameInfo /\ ClosedNewFrame.start_offset = 0
      /\ new_frame \in FrameInfo
  BY <1>1, ClosedTyped DEF IInv, TypeOK, RecordsOK
<1>4. SameControl(new_frame, ClosedNewFrame)
  BY <1>3 DEF ClosedNewFrame, SameControl, FrameInfo
<1>5. EndsFrame(read_offset)
  BY <1>1, <1>2 DEF EndsFrame
<1>6. FileInv' /\ SizeInv'
  BY <1>1, <1>2 DEF DataInv, FileInv, SizeInv
<1>7. CASE AwaitFrameEnd \/ EndOfImage
  <2>1. /\ Stays /\ new_frame' = ClosedNewFrame
        /\ UNCHANGED <<expect_idats, next_sequence_number>>
    BY <1>1, <1>7 DEF AwaitFrameEnd, EndOfImage, Stays
  <2>2. SequenceInv' /\ KindsInv'
    BY <1>1, <2>1, DataStays
  <2>3. ControlInv'
    BY <1>1, <1>3, <1>4, <2>1, ControlRemains
  <2>4. BeginInv'
    BY <1>3, <2>1 DEF BeginInv
  <2>5. RunsInv' /\ CoverInv'
    BY <1>1, <1>3, <1>5, <2>1, RunsClose
  <2> QED
    BY <1>6, <2>2, <2>3, <2>4, <2>5 DEF DataInv
<1>8. CASE NextFrame
  <2>1. /\ LeavesChunk /\ chunk.type = "fcTL"
        /\ new_frame' = WithControl(ClosedNewFrame, chunk)
        /\ ~expect_idats'
        /\ next_sequence_number' = next_sequence_number + 1
        /\ chunk.seq = next_sequence_number
    BY <1>1, <1>2, <1>8
       DEF NextFrame, LeavesChunk, AcceptsFrame, SequenceMatches
  <2>2. Counted
    BY <1>2, <2>1 DEF Counted, IsNumbered
  <2>3. SequenceInv'
    BY <1>1, <2>1, <2>2, SequencePassed
  <2>4. KindsInv'
    BY <1>1, <2>1, KindsPassed
  <2>5. ControlInv'
    BY <1>3, <2>1, ControlAccepted
  <2>6. new_frame'.start_offset = 0
    BY <1>2, <1>3, <2>1, WithControlTyped
  <2>7. BeginInv'
    BY <2>6 DEF BeginInv
  <2>8. RunsInv' /\ CoverInv'
    BY <1>1, <1>5, <2>1, <2>6, RunsClose
  <2> QED
    BY <1>6, <2>3, <2>4, <2>5, <2>7, <2>8 DEF DataInv
<1> QED
  BY <1>7, <1>8

LEMMA HeaderActionsDataStep ==
  ASSUME IInv, IInv', DataInv,
         \/ HeaderAcTL \/ HeaderFcTL \/ HeaderFdAT
         \/ HeaderLibpngChunk \/ HeaderIgnored
  PROVE  DataInv'
<1> USE DEF header, animated, control, decoder
<1>1. ~ignore_animation' => ~ignore_animation
  BY DEF HeaderAcTL, HeaderFcTL, HeaderFdAT, HeaderLibpngChunk, HeaderIgnored
<1>2. ASSUME NEW types, HeaderChunk(types)
      PROVE  /\ chunk = file.chunk[read_offset]
             /\ chunk.type \in types
  BY <1>2 DEF HeaderChunk, chunk
<1>3. CASE HeaderAcTL \/ HeaderLibpngChunk \/ HeaderIgnored
  <2>1. PICK types : /\ HeaderChunk(types)
                     /\ types \cap {"IDAT", "fdAT", "fcTL"} = {}
    <3>1. {"acTL"} \cap {"IDAT", "fdAT", "fcTL"} = {}
      OBVIOUS
    <3>2. HandedToLibpng \cap {"IDAT", "fdAT", "fcTL"} = {}
      BY DEF HandedToLibpng
    <3>3. {"other"} \cap {"IDAT", "fdAT", "fcTL"} = {}
      OBVIOUS
    <3> QED
      BY <1>3, <3>1, <3>2, <3>3 DEF HeaderAcTL, HeaderLibpngChunk, HeaderIgnored
  <2>2. UNCHANGED <<parsed_signature, size_available, new_frame,
                    idat_is_part_of_animation, next_sequence_number>>
    BY <1>3 DEF HeaderAcTL, HeaderLibpngChunk, HeaderIgnored
  <2>3. chunk.type \notin {"fdAT", "fcTL"} /\ Counted
    BY <1>2, <2>1, <2>2 DEF Counted, IsNumbered
  <2> QED
    BY <1>1, <2>1, <2>2, <2>3, HeaderDataStep
<1>4. CASE HeaderFdAT
  <2>1. /\ HeaderChunk({"fdAT"}) /\ ignore_animation' /\ UNCHANGED new_frame
        /\ UNCHANGED <<parsed_signature, size_available>>
    BY <1>4 DEF HeaderFdAT
  <2> QED
    BY <2>1, HeaderDataStep
<1>5. CASE HeaderFcTL
  <2>1. /\ HeaderChunk({"fcTL"}) /\ chunk.type = "fcTL"
        /\ UNCHANGED <<parsed_signature, size_available>>
        /\ new_frame' = new_frame \/ new_frame' = WithControl(new_frame, chunk)
    BY <1>2, <1>5 DEF HeaderFcTL
  <2>2. ASSUME ~ignore_animation'
        PROVE  /\ Counted
               /\ new_frame' = WithControl(new_frame, chunk)
    <3>1. /\ AcceptsFrame(chunk) /\ FctlIsReadable /\ ~ignore_animation
          /\ new_frame' = WithControl(new_frame, chunk)
          /\ next_sequence_number' = next_sequence_number + 1
      BY <1>5, <2>2 DEF HeaderFcTL, AcceptsFrame
    <3>2. IsNumbered(read_offset)
      BY <1>2, <2>1 DEF IsNumbered
    <3> QED
      BY <3>1, <3>2 DEF Counted, AcceptsFrame, SequenceMatches
  <2> QED
    BY <1>1, <2>1, <2>2, HeaderDataStep
<1> QED
  BY <1>3, <1>4, <1>5

LEMMA DataStep ==
  ASSUME IInv, IInv', DataInv, Next
  PROVE  DataInv'
<1> USE DEF input, header, animated, control, decoder, frames
<1>1. ASSUME \/ Receive
             \/ \E q \in {"kSize", "kMetaData"} : BeginParse(q)
             \/ ImageIsHighBitDepth
             \/ Fail
             \/ SizeIsKnown
             \/ AwaitHeader
             \/ AwaitChunk
      PROVE  DataInv'
  <2>1. UNCHANGED DataVars /\ UNCHANGED frame_info
    BY <1>1 DEF DataVars, Receive, BeginParse, ImageIsHighBitDepth, Fail,
                SizeIsKnown, AwaitHeader, AwaitChunk
  <2> QED
    BY <2>1, QuietDataStep
<1>2. CASE FinishSize
  <2>1. UNCHANGED DataVars /\ (UNCHANGED frame_info \/ ~is_animated)
    BY <1>2 DEF DataVars, FinishSize
  <2> QED
    BY <2>1, QuietDataStep
<1>3. CASE ParseSignature /\ ~Fail
  BY <1>3, SignatureDataStep
<1>4. CASE \/ HeaderAcTL \/ HeaderFcTL \/ HeaderFdAT
           \/ HeaderLibpngChunk \/ HeaderIgnored
  BY <1>4, HeaderActionsDataStep
<1>5. CASE HeaderIDAT
  BY <1>5, SizeDataStep
<1>6. CASE FrameData \/ AwaitSequenceNumber
  BY <1>6, FrameDataDataStep
<1>7. CASE SkipChunk
  BY <1>7, SkipDataStep
<1>8. CASE AwaitFrameEnd \/ EndOfImage \/ NextFrame
  BY <1>8, ClosingDataStep
<1>9. \/ Receive
      \/ \E q \in {"kSize", "kMetaData"} : BeginParse(q)
      \/ ImageIsHighBitDepth
      \/ Fail \/ SizeIsKnown \/ AwaitHeader \/ AwaitChunk
      \/ FinishSize \/ (ParseSignature /\ ~Fail)
      \/ HeaderAcTL \/ HeaderFcTL \/ HeaderFdAT
      \/ HeaderLibpngChunk \/ HeaderIgnored
      \/ HeaderIDAT \/ FrameData \/ AwaitSequenceNumber \/ SkipChunk
      \/ AwaitFrameEnd \/ EndOfImage \/ NextFrame
  BY DEF Next, ParseSize, ParseMetadata, HeaderLengthError,
         HeaderLibpngError, HeaderSizeError, MetadataLengthError,
         MetadataError
<1> QED
  BY <1>1, <1>2, <1>3, <1>4, <1>5, <1>6, <1>7, <1>8, <1>9, Zenon

LEMMA InitData ==
  ASSUME Init
  PROVE  DataInv
<1>1. Passed = {}
  <2>1. /\ InitialOffset \in Nat /\ SignatureEnd \in Nat
        /\ InitialOffset < SignatureEnd
    BY ReaderAssumption DEF SignatureEnd
  <2>2. \A o \in DOMAIN file.chunk : o \in Nat /\ o >= SignatureEnd
    BY ReaderAssumption DEF Init, IsFile
  <2> QED
    BY <2>1, <2>2 DEF Init, Passed
<1>2. Numbered = {} /\ Cardinality(Numbered) = 0
  BY <1>1, FS_EmptySet DEF Numbered
<1>3. FileInv /\ SizeInv /\ KindsInv /\ ControlInv /\ BeginInv
  BY <1>1 DEF Init, FileInv, SizeInv, KindsInv, ControlInv, BeginInv
<1>4. SequenceInv
  BY <1>2 DEF Init, SequenceInv
<1>5. RunsInv /\ CoverInv
  BY DEF Init, RunsInv, CoverInv
<1> QED
  BY <1>3, <1>4, <1>5 DEF DataInv

LEMMA StepData ==
  ASSUME IInv, IInv', DataInv, [Next]_vars
  PROVE  DataInv'
<1>1. CASE Next
  BY <1>1, DataStep
<1>2. CASE UNCHANGED vars
  BY <1>2, QuietDataStep
     DEF vars, input, header, animated, control, decoder, frames, DataVars
<1> QED
  BY <1>1, <1>2

(* What the parser has made of the chunks behind it.                       *)
THEOREM DataInvariant == Spec => []DataInv
<1>1. Init => DataInv
  BY InitData
<1>2. IInv /\ IInv' /\ DataInv /\ [Next]_vars => DataInv'
  BY StepData
<1> QED
  BY <1>1, <1>2, Invariant, PTL DEF Spec

-----------------------------------------------------------------------------
(* The properties.                                                         *)

(* No image data of an animation is lost and none belongs to two frames,   *)
(* however the calls of Parse were cut (Parse, the fdAT/IDAT and fcTL/IEND *)
(* branches).                                                              *)
THEOREM DataIsInOneFrame == Spec => []EveryDataChunkInOneFrame
<1>1. IInv /\ DataInv => EveryDataChunkInOneFrame
  <2> SUFFICES ASSUME IInv, DataInv, Animating,
                      NEW o \in Passed, IsFrameData(o)
               PROVE  IF Unreported /\ new_frame.start_offset <= o
                        THEN \A i \in DOMAIN frame_info : ~InFrame(i, o)
                        ELSE /\ \E i \in DOMAIN frame_info : InFrame(i, o)
                             /\ \A i, j \in DOMAIN frame_info :
                                  InFrame(i, o) /\ InFrame(j, o) => i = j
    BY DEF EveryDataChunkInOneFrame
  <2>1. /\ size_available /\ is_animated
        /\ o \in Nat /\ o < read_offset /\ read_offset \in Nat
        /\ new_frame \in FrameInfo /\ frame_info \in Seq(FrameInfo)
    BY PassedTyped DEF Animating, IInv, TypeOK, ScalarsOK, RecordsOK
  <2>2. new_frame.start_offset \in Nat
    BY <2>1 DEF FrameInfo
  <2>3. ASSUME NEW i \in DOMAIN frame_info, ~(i = 1 /\ FirstFrameIsOpen)
        PROVE  /\ FrameEnd(i) \in Nat
               /\ \A j \in DOMAIN frame_info :
                    i < j => FrameEnd(i) <= FrameStart(j)
               /\ Unreported => FrameEnd(i) <= new_frame.start_offset
    <3>1. frame_info[i].byte_length # kFirstFrameIndicator
      BY <2>1, <2>3 DEF IInv, ReaderInv, LaterFramesClosed, FirstFrameIsOpen
    <3> QED
      BY <2>3, <3>1, ClosedFrame DEF FrameEnd, FrameStart
  <2>4. CASE Unreported /\ new_frame.start_offset <= o
    <3> SUFFICES ASSUME NEW i \in DOMAIN frame_info, InFrame(i, o) PROVE FALSE
      BY <2>4
    <3>1. o < FrameEnd(i) /\ FrameEnd(i) \in Nat
          /\ FrameEnd(i) <= new_frame.start_offset
      BY <2>3, <2>4 DEF InFrame, Unreported
    <3> QED
      BY <2>1, <2>2, <2>4, <3>1
  <2>5. CASE ~(Unreported /\ new_frame.start_offset <= o)
    <3>1. \E i \in DOMAIN frame_info : InFrame(i, o)
      <4>1. CASE new_frame.start_offset # 0 /\ new_frame.start_offset <= o
        <5>1. /\ FirstFrameIsOpen
              /\ frame_info[1].start_offset = new_frame.start_offset
              /\ 1 \in DOMAIN frame_info
          BY <2>1, <2>5, <4>1
             DEF Unreported, FirstFrameIsOpen, IInv, ReaderInv, ConstructionInv
        <5>2. InFrame(1, o)
          BY <2>1, <4>1, <5>1 DEF InFrame, FrameStart, FrameEnd
        <5> QED
          BY <5>1, <5>2
      <4> QED
        BY <2>1, <4>1 DEF DataInv, CoverInv
    <3>2. ASSUME NEW i \in DOMAIN frame_info, NEW j \in DOMAIN frame_info,
                 InFrame(i, o), InFrame(j, o), i < j
          PROVE  FALSE
      <4>1. ~FirstFrameIsOpen /\ FrameStart(j) \in Nat
        BY <2>1, <3>2, FrameTyped
      <4>2. FrameEnd(i) \in Nat /\ FrameEnd(i) <= FrameStart(j)
        BY <2>3, <3>2, <4>1
      <4>3. FrameStart(j) <= o /\ o < FrameEnd(i)
        BY <3>2 DEF InFrame
      <4> QED
        BY <2>1, <4>1, <4>2, <4>3
    <3>3. \A i, j \in DOMAIN frame_info : i \in Nat /\ j \in Nat
      BY <2>1
    <3>4. \A i, j \in DOMAIN frame_info :
            InFrame(i, o) /\ InFrame(j, o) => i = j
      BY <3>2, <3>3
    <3> QED
      BY <2>5, <3>1, <3>4
  <2> QED
    BY <2>4, <2>5
<1> QED
  BY <1>1, Invariant, DataInvariant, PTL

(* A frame is the run of chunks behind its fcTL, and has that fcTL's       *)
(* fields (ParseFrameInfo, the fcTL/IEND branch).                          *)
THEOREM FramesHaveTheirControl == Spec => []FramesMatchTheirControl
<1>1. DataInv => FramesMatchTheirControl
  <2> SUFFICES ASSUME DataInv, Animating PROVE FramesMatchTheirControl
    BY DEF FramesMatchTheirControl
  <2>1. /\ \A i \in DOMAIN frame_info :
             \A o \in Passed : InFrame(i, o) => ~EndsFrame(o)
        /\ \A i \in DOMAIN frame_info : HasControl(i)
    BY DEF Animating, DataInv, RunsInv
  <2> QED
    BY <2>1 DEF FramesMatchTheirControl, EndsFrame, HasControl, IsControl
<1> QED
  BY <1>1, DataInvariant, PTL

(* The sequence numbers of the fcTLs and fdATs count up from 0, each       *)
(* counted once (CheckSequenceNumber).                                     *)
THEOREM NumbersAreInOrder == Spec => []SequenceNumbersInOrder
<1>1. DataInv => SequenceNumbersInOrder
  BY DEF DataInv, SequenceInv, SequenceNumbersInOrder, Numbered,
         NumberedBefore, IsNumbered
<1> QED
  BY <1>1, DataInvariant, PTL

(* No frame has IDATs and fdATs (expect_idats_).                           *)
THEOREM KindsAreNotMixed == Spec => []NoFrameMixesDataKinds
<1>1. IInv /\ DataInv => NoFrameMixesDataKinds
  <2> SUFFICES ASSUME IInv, DataInv, Animating, NEW i \in DOMAIN frame_info,
                      NEW o \in Passed, NEW p \in Passed,
                      InFrame(i, o), InFrame(i, p),
                      file.chunk[o].type = "IDAT", file.chunk[p].type = "fdAT"
               PROVE  FALSE
    BY DEF NoFrameMixesDataKinds
  <2>1. size_available /\ is_animated /\ ~ignore_animation
    BY DEF Animating, DataInv, SizeInv
  <2>2. PICK q \in Passed : IsControl(q) /\ o < q /\ q < p
    BY <2>1 DEF DataInv, KindsInv
  <2>3. o \in Nat /\ p \in Nat /\ q \in Nat
        /\ FrameStart(i) \in Nat /\ FrameEnd(i) \in Nat
    BY <2>1, PassedTyped, FrameTyped
  <2>4. InFrame(i, q)
    BY <2>2, <2>3 DEF InFrame
  <2> QED
    BY <2>1, <2>2, <2>4 DEF DataInv, RunsInv, EndsFrame, IsControl
<1> QED
  BY <1>1, Invariant, DataInvariant, PTL

(* What SetBitDepth decided: the depth is that of the IHDR, and before the *)
(* size is known, when the repetition count is not final, it never decides *)
(* for half floats.                                                        *)
DepthInv ==
  /\ bit_depth \in {0, ihdr.bit_depth}
  /\ ~parsed_ihdr => bit_depth = 0
  /\ size_available => bit_depth = ihdr.bit_depth
  /\ repetition_count = kAnimationNone => size_available
  /\ decode_to_half_float \in BOOLEAN
  /\ HalfFloatOnlyForOneImage

LEMMA SetBitDepthKeeps ==
  ASSUME DepthInv, SetBitDepth(repetition_count'), parsed_ihdr,
         UNCHANGED <<parsed_ihdr, ihdr>>,
         size_available => UNCHANGED repetition_count,
         size_available => size_available',
         repetition_count' = kAnimationNone => size_available'
  PROVE  DepthInv'
<1>1. CASE bit_depth # 0
  <2>1. UNCHANGED <<bit_depth, decode_to_half_float>>
    BY <1>1 DEF SetBitDepth
  <2> QED
    BY <1>1, <2>1 DEF DepthInv, HalfFloatOnlyForOneImage
<1>2. CASE bit_depth = 0
  <2>1. /\ bit_depth' = ihdr.bit_depth
        /\ decode_to_half_float' =
             (/\ ihdr.bit_depth = 16 /\ HalfFloatOption
              /\ repetition_count' = kAnimationNone)
        /\ decode_to_half_float' \in BOOLEAN
    BY <1>2 DEF SetBitDepth
  <2>2. decode_to_half_float' =>
          /\ HalfFloatOption /\ bit_depth' = 16
          /\ repetition_count' = kAnimationNone
    BY <2>1, Zenon
  <2>3. HalfFloatOnlyForOneImage'
    BY <2>2, Zenon DEF HalfFloatOnlyForOneImage
  <2> QED
    BY <2>1, <2>3 DEF DepthInv
<1> QED
  BY <1>1, <1>2

DepthVars == <<parsed_ihdr, ihdr, size_available, repetition_count, bit_depth,
               decode_to_half_float>>

LEMMA HeaderDepthStep ==
  ASSUME IInv, DepthInv,
         \/ HeaderAcTL \/ HeaderFcTL \/ HeaderFdAT
         \/ HeaderLibpngChunk \/ HeaderIgnored
  PROVE  DepthInv'
<1> USE DEF header, animated, decoder
<1>1. CASE HeaderFcTL \/ HeaderFdAT \/ HeaderIgnored
  <2>1. UNCHANGED DepthVars
    BY <1>1 DEF DepthVars, HeaderFcTL, HeaderFdAT, HeaderIgnored
  <2> QED
    BY <2>1 DEF DepthVars, DepthInv, HalfFloatOnlyForOneImage
<1>2. CASE HeaderAcTL
  <2>1. /\ ~size_available /\ HeaderExpected /\ LengthIsSane
        /\ UNCHANGED <<parsed_ihdr, ihdr, size_available, bit_depth,
                       decode_to_half_float>>
        /\ repetition_count' \in {repetition_count, chunk.actl.plays - 1}
    BY <1>2 DEF HeaderAcTL, HeaderChunk, InHeader
  <2>2. chunk.actl.plays \in Nat
    <3>1. TypeOK /\ parsed_signature /\ HeaderArrived
      BY <1>2, <2>1, HeaderIsHere DEF IInv, HeaderAcTL, HeaderChunk, InHeader
    <3>3. chunk \in Chunk
      BY <3>1, ChunkTyped
    <3> QED
      BY <3>3 DEF Chunk
  <2>3. chunk.actl.plays - 1 # kAnimationNone
    BY <2>2 DEF kAnimationNone
  <2> QED
    BY <2>1, <2>3 DEF DepthInv, HalfFloatOnlyForOneImage
<1>3. CASE HeaderLibpngChunk
  <2>1. UNCHANGED <<size_available, repetition_count, bit_depth,
                    decode_to_half_float>>
    BY <1>3 DEF HeaderLibpngChunk
  <2>2. \/ UNCHANGED <<parsed_ihdr, ihdr>>
        \/ ~parsed_ihdr /\ ~size_available
    BY <1>3 DEF HeaderLibpngChunk, LibpngAccepts, HeaderChunk, InHeader
  <2> QED
    BY <2>1, <2>2 DEF DepthInv, HalfFloatOnlyForOneImage
<1> QED
  BY <1>1, <1>2, <1>3

LEMMA DepthStep ==
  ASSUME IInv, DepthInv, Next
  PROVE  DepthInv'
<1> USE DEF input, header, animated, control, decoder, frames
<1>1. ASSUME UNCHANGED DepthVars PROVE DepthInv'
  BY <1>1 DEF DepthVars, DepthInv, HalfFloatOnlyForOneImage
<1>2. CASE HeaderIDAT
  <2>1. /\ SetBitDepth(repetition_count') /\ parsed_ihdr
        /\ ~size_available /\ size_available'
        /\ UNCHANGED <<parsed_ihdr, ihdr>>
    BY <1>2 DEF HeaderIDAT, InHeader
  <2> QED
    BY <2>1, SetBitDepthKeeps
<1>3. CASE ImageIsHighBitDepth
  <2>1. /\ SetBitDepth(repetition_count) /\ parsed_ihdr
        /\ UNCHANGED <<parsed_ihdr, ihdr, size_available, repetition_count>>
    BY <1>3 DEF ImageIsHighBitDepth
  <2>2. SetBitDepth(repetition_count')
    BY <2>1 DEF SetBitDepth
  <2>3. repetition_count' = kAnimationNone => size_available'
    BY <2>1 DEF DepthInv
  <2> QED
    BY <2>1, <2>2, <2>3, SetBitDepthKeeps
<1>4. CASE \/ HeaderAcTL \/ HeaderFcTL \/ HeaderFdAT
           \/ HeaderLibpngChunk \/ HeaderIgnored
  BY <1>4, HeaderDepthStep
<1>5. ASSUME \/ Receive
             \/ \E q \in {"kSize", "kMetaData"} : BeginParse(q)
             \/ Fail \/ SizeIsKnown \/ AwaitHeader \/ AwaitChunk
             \/ FinishSize \/ (ParseSignature /\ ~Fail)
             \/ FrameData \/ AwaitSequenceNumber \/ SkipChunk
             \/ AwaitFrameEnd \/ EndOfImage \/ NextFrame
      PROVE  UNCHANGED DepthVars
  BY <1>5 DEF DepthVars, Receive, BeginParse, Fail, SizeIsKnown, AwaitHeader,
              AwaitChunk, FinishSize, ParseSignature, FrameData,
              AwaitSequenceNumber, SkipChunk, AwaitFrameEnd, EndOfImage,
              NextFrame
<1>6. \/ Receive
      \/ \E q \in {"kSize", "kMetaData"} : BeginParse(q)
      \/ ImageIsHighBitDepth
      \/ Fail \/ SizeIsKnown \/ AwaitHeader \/ AwaitChunk
      \/ FinishSize \/ (ParseSignature /\ ~Fail)
      \/ HeaderAcTL \/ HeaderFcTL \/ HeaderFdAT
      \/ HeaderLibpngChunk \/ HeaderIgnored
      \/ HeaderIDAT \/ FrameData \/ AwaitSequenceNumber \/ SkipChunk
      \/ AwaitFrameEnd \/ EndOfImage \/ NextFrame
  BY DEF Next, ParseSize, ParseMetadata, HeaderLengthError,
         HeaderLibpngError, HeaderSizeError, MetadataLengthError,
         MetadataError
<1> QED
  BY <1>1, <1>2, <1>3, <1>4, <1>5, <1>6, Zenon

(* Asked by the client, it changes nothing but the bit depth.              *)
LEMMA DepthAsked ==
  ASSUME DepthInv, ImageIsHighBitDepth
  PROVE  /\ UNCHANGED <<input, pc, query, read_offset, header, animated,
                        control, frames, failed, size_available,
                        repetition_count, decode_to_half_float>>
         /\ size_available => UNCHANGED bit_depth
<1>1. CASE bit_depth # 0
  BY <1>1 DEF ImageIsHighBitDepth, SetBitDepth
<1>2. CASE bit_depth = 0
  <2>1. /\ bit_depth' = ihdr.bit_depth
        /\ decode_to_half_float' =
             (/\ ihdr.bit_depth = 16 /\ HalfFloatOption
              /\ repetition_count = kAnimationNone)
    BY <1>2 DEF ImageIsHighBitDepth, SetBitDepth
  <2>2. ~decode_to_half_float /\ decode_to_half_float \in BOOLEAN
    BY <1>2 DEF DepthInv, HalfFloatOnlyForOneImage
  <2>3. ~decode_to_half_float'
    <3>1. repetition_count = kAnimationNone => ihdr.bit_depth = 0
      BY <1>2 DEF DepthInv
    <3>2. ihdr.bit_depth = 0 => ihdr.bit_depth # 16
      OBVIOUS
    <3> QED
      BY <2>1, <3>1, <3>2, Zenon
  <2>4. decode_to_half_float' = FALSE /\ decode_to_half_float = FALSE
    BY <2>1, <2>2, <2>3
  <2> QED
    BY <1>2, <2>1, <2>4 DEF ImageIsHighBitDepth, DepthInv
<1> QED
  BY <1>1, <1>2

LEMMA InitDepth ==
  ASSUME Init
  PROVE  DepthInv
<1>1. /\ bit_depth = 0 /\ ~size_available
      /\ repetition_count # kAnimationNone
  BY DEF Init, kAnimationNone, kAnimationLoopOnce
<1>2. decode_to_half_float \in BOOLEAN /\ ~decode_to_half_float
  BY Zenon DEF Init
<1> QED
  BY <1>1, <1>2 DEF DepthInv, HalfFloatOnlyForOneImage

LEMMA StepDepth ==
  ASSUME IInv, DepthInv, [Next]_vars
  PROVE  DepthInv'
<1>1. UNCHANGED vars => DepthInv'
  BY DEF vars, header, decoder, DepthInv, HalfFloatOnlyForOneImage
<1> QED
  BY <1>1, DepthStep

(* Half-float decoding is only ever chosen for a single image of 16 bits,  *)
(* by the final repetition count, also when the client asks for the bit    *)
(* depth before that count is final (SetBitDepth, called by ParseSize      *)
(* after SetRepetitionCount and by ImageIsHighBitDepth at any time).       *)
THEOREM HalfFloatsForOneImage == Spec => []HalfFloatOnlyForOneImage
<1>1. IInv /\ DepthInv /\ [Next]_vars => DepthInv'
  BY StepDepth
<1>2. DepthInv => HalfFloatOnlyForOneImage
  BY DEF DepthInv
<1> QED
  BY <1>1, <1>2, InitDepth, Invariant, PTL DEF Spec

=============================================================================
