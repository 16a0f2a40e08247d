-------------------------- MODULE PngReader_proofs --------------------------
(***************************************************************************)
(* What holds of PNGImageReader::Parse for every set of files, however     *)
(* their bytes arrive.                                                     *)
(***************************************************************************)
EXTENDS PngReader, TLAPS

(* A header that ParseSize reads is here unless the loop test wrapped, and *)
(* then its length is refused: what is done with a chunk is done with one  *)
(* that arrived.                                                           *)
LEMMA HeaderIsHere ==
  ASSUME TypeOK, HeaderExpected, LengthIsSane
  PROVE  HeaderArrived
<1>1. read_offset \in Nat /\ SizeMax \in Nat
  BY ReaderAssumption DEF TypeOK, ScalarsOK
<1>2. read_offset + 8 \in Nat /\ SizeMax + 1 \in Nat \ {0}
      /\ read_offset + 8 < SizeMax + 1
  BY <1>1 DEF LengthIsSane
<1>3. ASSUME NEW n \in Nat, NEW m \in Nat \ {0}, n < m PROVE n % m = n
  BY <1>3
<1>4. (read_offset + 8) % (SizeMax + 1) = read_offset + 8
  BY <1>2, <1>3
<1> QED
  BY <1>4 DEF HeaderExpected, HeaderArrived

(* The chunk at read_offset, once its header is here, is a chunk of the    *)
(* file, and another one starts where it ends (or the file ends).          *)
LEMMA ChunkTyped ==
  ASSUME TypeOK, parsed_signature, HeaderArrived
  PROVE  /\ chunk \in Chunk
         /\ chunk_end_offset \in Nat
         /\ chunk_end_offset >= read_offset + 12
         /\ chunk_end_offset + 8 <= file.size
              => chunk_end_offset \in DOMAIN file.chunk
<1> USE DEF TypeOK, InputOK, ScalarsOK
<1>1. read_offset \in DOMAIN file.chunk
  BY ReaderAssumption DEF StandsAtChunk, HeaderArrived, IsFile
<1>2. chunk \in Chunk
  BY <1>1 DEF chunk, IsFile
<1>3. chunk.length \in Nat
  BY <1>2 DEF Chunk
<1>4. chunk_end_offset + 8 <= file.size
        => chunk_end_offset \in DOMAIN file.chunk
  BY <1>1 DEF chunk, chunk_end_offset, IsFile
<1> QED
  BY <1>2, <1>3, <1>4 DEF chunk_end_offset

(* new_frame is still a frame after the fields of an accepted fcTL.        *)
LEMMA WithControlTyped ==
  ASSUME NEW base \in FrameInfo, NEW c \in Chunk
  PROVE  /\ WithControl(base, c) \in FrameInfo
         /\ WithControl(base, c).start_offset = base.start_offset
         /\ WithControl(base, c).byte_length = base.byte_length
<1>1. c.fctl \in FrameControl
  BY DEF Chunk
<1>2. DelayToDuration(c.fctl.delay_num, c.fctl.delay_den) \in Nat
  BY <1>1 DEF FrameControl, DelayToDuration
<1>3. DisposalMethod(c.fctl.dispose)
        \in {"kDisposeKeep", "kDisposeOverwriteBgcolor",
             "kDisposeOverwritePrevious"}
  BY DEF DisposalMethod
<1>4. AlphaBlendSource(c.fctl.blend)
        \in {"kBlendAtopBgcolor", "kBlendAtopPreviousFrame"}
  BY DEF AlphaBlendSource
<1>5. [x |-> c.fctl.x, y |-> c.fctl.y, width |-> c.fctl.width,
       height |-> c.fctl.height] \in Rect
  BY <1>1 DEF FrameControl, Rect
<1> QED
  BY <1>2, <1>3, <1>4, <1>5 DEF WithControl, FrameInfo

-----------------------------------------------------------------------------

LEMMA InitType == Init => TypeOK
<1> SUFFICES ASSUME Init PROVE TypeOK
  OBVIOUS
<1>1. InputOK
  BY ReaderAssumption DEF Init, IsFile, InputOK
<1>2. FlagsOK
  BY DEF Init, FlagsOK
<1>3. ScalarsOK
  BY ReaderAssumption DEF Init, ScalarsOK, kAnimationLoopOnce
<1>4. RecordsOK
  BY DEF Init, RecordsOK, FrameInfo, Rect, NoRect
<1>5. StandsAtChunk
  BY DEF Init, StandsAtChunk
<1> QED
  BY <1>1, <1>2, <1>3, <1>4, <1>5 DEF TypeOK


(* A step over a whole chunk lands on the next one.                        *)
LEMMA Advance ==
  ASSUME TypeOK, parsed_signature, HeaderArrived,
         read_offset' = chunk_end_offset,
         UNCHANGED <<file, pc, parsed_signature, size_available>>
  PROVE  read_offset' \in Nat /\ StandsAtChunk'
<1>1. /\ chunk_end_offset \in Nat
      /\ chunk_end_offset >= read_offset + 12
      /\ chunk_end_offset + 8 <= file.size
           => chunk_end_offset \in DOMAIN file.chunk
  BY ChunkTyped
<1>2. read_offset \in Nat /\ SignatureEnd \in Nat
  BY ReaderAssumption DEF TypeOK, ScalarsOK, SignatureEnd
<1>3. parsed_signature' => /\ read_offset' >= SignatureEnd
                           /\ read_offset' + 8 <= file'.size
                                => read_offset' \in DOMAIN file'.chunk
  BY <1>1, <1>2 DEF TypeOK, StandsAtChunk
<1> QED
  BY <1>1, <1>3 DEF TypeOK, StandsAtChunk

(* What the handlers of a header chunk have in common.                     *)
LEMMA HeaderChunkStep ==
  ASSUME TypeOK, NEW types, HeaderChunk(types),
         UNCHANGED <<parsed_signature, size_available>>
  PROVE  /\ chunk \in Chunk
         /\ InputOK'
         /\ read_offset' \in Nat
         /\ StandsAtChunk'
         /\ UNCHANGED <<pc, query, failed, expect_idats, parse_completed,
                        frame_info>>
<1> USE DEF HeaderChunk, InHeader, input, frames
<1>1. HeaderArrived
  BY HeaderIsHere
<1>2. chunk \in Chunk
  BY <1>1, ChunkTyped
<1>3. InputOK'
  BY DEF TypeOK, InputOK, IsFile
<1> QED
  BY <1>1, <1>2, <1>3, Advance

(* What the metadata loop knows about the chunk it looks at.               *)
LEMMA InMetadataTyped ==
  ASSUME TypeOK, InMetadata
  PROVE  parsed_signature /\ HeaderArrived /\ chunk \in Chunk
<1>1. parsed_signature
  BY DEF TypeOK, InMetadata, StandsAtChunk
<1> QED
  BY <1>1, ChunkTyped DEF InMetadata

LEMMA StartFrameTyped ==
  ASSUME RecordsOK, ScalarsOK, StartFrame
  PROVE  new_frame' \in FrameInfo /\ frame_info' \in Seq(FrameInfo)
<1> DEFINE started == [new_frame EXCEPT !.start_offset = read_offset]
           first == [started EXCEPT !.byte_length = kFirstFrameIndicator]
<1>1. started \in FrameInfo
  BY DEF RecordsOK, ScalarsOK, FrameInfo
<1>2. first \in FrameInfo
  BY <1>1 DEF FrameInfo, kFirstFrameIndicator
<1>3. CASE new_frame.start_offset # 0
  BY <1>3 DEF StartFrame, RecordsOK
<1>4. CASE new_frame.start_offset = 0 /\ frame_info = <<>>
  <2>1. new_frame' = first /\ frame_info' = <<first>>
    BY <1>4 DEF StartFrame
  <2> QED
    BY <1>2, <2>1
<1>5. CASE new_frame.start_offset = 0 /\ frame_info # <<>>
  <2>1. new_frame' = started /\ frame_info' = frame_info
    BY <1>5 DEF StartFrame
  <2> QED
    BY <1>1, <2>1 DEF RecordsOK
<1> QED
  BY <1>3, <1>4, <1>5

IInv == TypeOK /\ ReaderInv

(* Where fcTL or IEND ends a frame, the frame has at least one chunk.      *)
LEMMA ClosedLengthBound ==
  ASSUME IInv, InMetadata, chunk.type \in {"fcTL", "IEND"},
         new_frame.start_offset # 0
  PROVE  /\ ClosedLength \in Nat
         /\ ClosedLength >= 12
         /\ new_frame.start_offset + ClosedLength = read_offset
         /\ frame_info # <<>>
<1> USE DEF IInv, ReaderInv
<1>1. new_frame.start_offset \in Nat /\ read_offset \in Nat
  BY DEF TypeOK, RecordsOK, ScalarsOK, FrameInfo
<1>2. new_frame.start_offset + 12 <= read_offset
  BY DEF ConstructionInv, chunk
<1>3. frame_info # <<>>
  BY DEF ConstructionInv
<1> QED
  BY <1>1, <1>2, <1>3 DEF ClosedLength

LEMMA ClosedTyped ==
  ASSUME IInv, InMetadata, chunk.type \in {"fcTL", "IEND"}
  PROVE  /\ ClosedFrames \in Seq(FrameInfo)
         /\ ClosedNewFrame \in FrameInfo
         /\ ClosedNewFrame.start_offset = 0
<1>1. new_frame \in FrameInfo /\ frame_info \in Seq(FrameInfo)
  BY DEF IInv, TypeOK, RecordsOK
<1>2. CASE new_frame.start_offset = 0
  BY <1>1, <1>2 DEF ClosedFrames, ClosedNewFrame
<1>3. CASE new_frame.start_offset # 0
  <2>1. ClosedLength \in Nat /\ frame_info # <<>>
    BY <1>3, ClosedLengthBound
  <2>2. [new_frame EXCEPT !.byte_length = ClosedLength] \in FrameInfo
    BY <1>1, <2>1 DEF FrameInfo
  <2>3. [frame_info[1] EXCEPT !.byte_length = ClosedLength] \in FrameInfo
    <3>1. frame_info[1] \in FrameInfo
      BY <1>1, <2>1
    <3> QED
      BY <2>1, <3>1 DEF FrameInfo
  <2>4. [frame_info EXCEPT ![1].byte_length = ClosedLength] \in Seq(FrameInfo)
    BY <1>1, <2>1, <2>3
  <2>5. ClosedNewFrame \in FrameInfo /\ ClosedNewFrame.start_offset = 0
    BY <1>1, <1>3, <2>1 DEF ClosedNewFrame, FrameInfo
  <2> QED
    BY <1>1, <1>3, <2>2, <2>4, <2>5 DEF ClosedFrames
<1> QED
  BY <1>2, <1>3

-----------------------------------------------------------------------------

LEMMA StepType ==
  ASSUME IInv, Next
  PROVE  TypeOK'
<1> USE DEF input, header, animated, control, frames, decoder
<1>1. TypeOK /\ InputOK /\ FlagsOK /\ ScalarsOK /\ RecordsOK /\ StandsAtChunk
  BY DEF IInv, TypeOK
<1>2. CASE Receive
  <2>1. InputOK'
    BY <1>2, <1>1
       DEF Receive, InputOK, IsFile
  <2>2. FlagsOK'
    BY <1>2, <1>1
       DEF Receive, FlagsOK
  <2>3. ScalarsOK'
    BY <1>2, <1>1
       DEF Receive, ScalarsOK
  <2>4. RecordsOK'
    BY <1>2, <1>1
       DEF Receive, RecordsOK
  <2>5. StandsAtChunk'
    BY <1>2, <1>1
       DEF Receive, StandsAtChunk
  <2> QED
    BY <2>1, <2>2, <2>3, <2>4, <2>5 DEF TypeOK
<1>3. ASSUME NEW q \in {"kSize", "kMetaData"}, BeginParse(q) PROVE TypeOK'
  <2>1. InputOK'
    BY <1>3, <1>1
       DEF BeginParse, InputOK, IsFile
  <2>2. FlagsOK'
    BY <1>3, <1>1
       DEF BeginParse, FlagsOK
  <2>3. ScalarsOK'
    BY <1>3, <1>1
       DEF BeginParse, ScalarsOK
  <2>4. RecordsOK'
    BY <1>3, <1>1
       DEF BeginParse, RecordsOK
  <2>5. StandsAtChunk'
    BY <1>3, <1>1
       DEF BeginParse, StandsAtChunk
  <2> QED
    BY <2>1, <2>2, <2>3, <2>4, <2>5 DEF TypeOK
<1>4. CASE Fail
  <2>1. InputOK'
    BY <1>4, <1>1
       DEF Fail, InputOK, IsFile
  <2>2. FlagsOK'
    BY <1>4, <1>1
       DEF Fail, FlagsOK
  <2>3. ScalarsOK'
    BY <1>4, <1>1
       DEF Fail, ScalarsOK
  <2>4. RecordsOK'
    BY <1>4, <1>1
       DEF Fail, RecordsOK
  <2>5. StandsAtChunk'
    BY <1>4, <1>1
       DEF Fail, StandsAtChunk
  <2> QED
    BY <2>1, <2>2, <2>3, <2>4, <2>5 DEF TypeOK
<1>5. CASE SizeIsKnown
  <2>1. InputOK'
    BY <1>5, <1>1
       DEF SizeIsKnown, InputOK, IsFile
  <2>2. FlagsOK'
    BY <1>5, <1>1
       DEF SizeIsKnown, FlagsOK
  <2>3. ScalarsOK'
    BY <1>5, <1>1
       DEF SizeIsKnown, ScalarsOK
  <2>4. RecordsOK'
    BY <1>5, <1>1
       DEF SizeIsKnown, RecordsOK
  <2>5. StandsAtChunk'
    BY <1>5, <1>1
       DEF SizeIsKnown, StandsAtChunk
  <2> QED
    BY <2>1, <2>2, <2>3, <2>4, <2>5 DEF TypeOK
<1>6. CASE AwaitHeader
  <2>1. InputOK'
    BY <1>6, <1>1
       DEF AwaitHeader, InputOK, IsFile
  <2>2. FlagsOK'
    BY <1>6, <1>1
       DEF AwaitHeader, FlagsOK
  <2>3. ScalarsOK'
    BY <1>6, <1>1
       DEF AwaitHeader, ScalarsOK
  <2>4. RecordsOK'
    BY <1>6, <1>1
       DEF AwaitHeader, RecordsOK
  <2>5. StandsAtChunk'
    BY <1>6, <1>1
       DEF AwaitHeader, StandsAtChunk
  <2> QED
    BY <2>1, <2>2, <2>3, <2>4, <2>5 DEF TypeOK
<1>7. CASE ParseSignature /\ ~Fail
  <2>1. InputOK'
    BY <1>7, <1>1
       DEF ParseSignature, InputOK, IsFile
  <2>2. FlagsOK'
    BY <1>7, <1>1
       DEF ParseSignature, FlagsOK
  <2>3. ScalarsOK'
    BY <1>7, <1>1, ReaderAssumption
       DEF ParseSignature, ScalarsOK, SignatureEnd
  <2>4. RecordsOK'
    <3>1. [new_frame EXCEPT !.start_offset = 0] \in FrameInfo
      BY <1>1 DEF RecordsOK, FrameInfo
    <3>2. \/ new_frame' = new_frame
          \/ new_frame' = [new_frame EXCEPT !.start_offset = 0]
      BY <1>7 DEF ParseSignature
    <3>3. UNCHANGED <<ihdr, frame_info>>
      BY <1>7 DEF ParseSignature
    <3> QED
      BY <1>1, <3>1, <3>2, <3>3 DEF RecordsOK
  <2>5. StandsAtChunk'
    BY <1>7, <1>1, ReaderAssumption
       DEF ParseSignature, StandsAtChunk, SignatureEnd, InputOK, IsFile
  <2> QED
    BY <2>1, <2>2, <2>3, <2>4, <2>5 DEF TypeOK
<1>8. CASE HeaderAcTL
  <2>0. /\ chunk \in Chunk
        /\ InputOK' /\ StandsAtChunk' /\ read_offset' \in Nat
        /\ UNCHANGED <<pc, query, failed, expect_idats, parse_completed,
                       frame_info>>
    BY <1>8, <1>1, HeaderChunkStep DEF HeaderAcTL
  <2>1. InputOK'
    BY <1>8, <1>1, <2>0
       DEF HeaderAcTL, InputOK, IsFile
  <2>2. FlagsOK'
    BY <1>8, <1>1, <2>0
       DEF HeaderAcTL, FlagsOK, HeaderChunk, InHeader
  <2>3. ScalarsOK'
    BY <1>8, <1>1, <2>0
       DEF HeaderAcTL, ScalarsOK, Chunk, HeaderChunk, InHeader
  <2>4. RecordsOK'
    BY <1>8, <1>1, <2>0
       DEF HeaderAcTL, RecordsOK, HeaderChunk, InHeader
  <2>5. StandsAtChunk'
    BY <1>8, <1>1, <2>0
       DEF HeaderAcTL, StandsAtChunk
  <2> QED
    BY <2>1, <2>2, <2>3, <2>4, <2>5 DEF TypeOK
<1>9. CASE HeaderFcTL
  <2>0. /\ chunk \in Chunk
        /\ InputOK' /\ StandsAtChunk' /\ read_offset' \in Nat
        /\ UNCHANGED <<pc, query, failed, expect_idats, parse_completed,
                       frame_info>>
    BY <1>9, <1>1, HeaderChunkStep DEF HeaderFcTL
  <2>1. InputOK'
    BY <1>9, <1>1, <2>0
       DEF HeaderFcTL, InputOK, IsFile
  <2>2. FlagsOK'
    BY <1>9, <1>1, <2>0
       DEF HeaderFcTL, FlagsOK, HeaderChunk, InHeader
  <2>3. ScalarsOK'
    BY <1>9, <1>1, <2>0
       DEF HeaderFcTL, ScalarsOK, HeaderChunk, InHeader
  <2>4. RecordsOK'
    BY <1>9, <1>1, <2>0, WithControlTyped
       DEF HeaderFcTL, RecordsOK, HeaderChunk, InHeader
  <2>5. StandsAtChunk'
    BY <1>9, <1>1, <2>0
       DEF HeaderFcTL, StandsAtChunk
  <2> QED
    BY <2>1, <2>2, <2>3, <2>4, <2>5 DEF TypeOK
<1>10. CASE HeaderFdAT
  <2>0. /\ chunk \in Chunk
        /\ InputOK' /\ StandsAtChunk' /\ read_offset' \in Nat
        /\ UNCHANGED <<pc, query, failed, expect_idats, parse_completed,
                       frame_info>>
    BY <1>10, <1>1, HeaderChunkStep DEF HeaderFdAT
  <2>1. InputOK'
    BY <1>10, <1>1, <2>0
       DEF HeaderFdAT, InputOK, IsFile
  <2>2. FlagsOK'
    BY <1>10, <1>1, <2>0
       DEF HeaderFdAT, FlagsOK, HeaderChunk, InHeader
  <2>3. ScalarsOK'
    BY <1>10, <1>1, <2>0
       DEF HeaderFdAT, ScalarsOK, HeaderChunk, InHeader
  <2>4. RecordsOK'
    BY <1>10, <1>1, <2>0
       DEF HeaderFdAT, RecordsOK, HeaderChunk, InHeader
  <2>5. StandsAtChunk'
    BY <1>10, <1>1, <2>0
       DEF HeaderFdAT, StandsAtChunk
  <2> QED
    BY <2>1, <2>2, <2>3, <2>4, <2>5 DEF TypeOK
<1>11. CASE HeaderLibpngChunk
  <2>0. /\ chunk \in Chunk
        /\ InputOK' /\ StandsAtChunk' /\ read_offset' \in Nat
        /\ UNCHANGED <<pc, query, failed, expect_idats, parse_completed,
                       frame_info>>
    BY <1>11, <1>1, HeaderChunkStep DEF HeaderLibpngChunk
  <2>1. InputOK'
    BY <1>11, <1>1, <2>0
       DEF HeaderLibpngChunk, InputOK, IsFile
  <2>2. FlagsOK'
    BY <1>11, <1>1, <2>0
       DEF HeaderLibpngChunk, FlagsOK, HeaderChunk, InHeader
  <2>3. ScalarsOK'
    BY <1>11, <1>1, <2>0
       DEF HeaderLibpngChunk, ScalarsOK, HeaderChunk, InHeader
  <2>4. RecordsOK'
    BY <1>11, <1>1, <2>0
       DEF HeaderLibpngChunk, RecordsOK, Chunk, HeaderChunk, InHeader
  <2>5. StandsAtChunk'
    BY <1>11, <1>1, <2>0
       DEF HeaderLibpngChunk, StandsAtChunk
  <2> QED
    BY <2>1, <2>2, <2>3, <2>4, <2>5 DEF TypeOK
<1>12. CASE HeaderIgnored
  <2>0. /\ chunk \in Chunk
        /\ InputOK' /\ StandsAtChunk' /\ read_offset' \in Nat
        /\ UNCHANGED <<pc, query, failed, expect_idats, parse_completed,
                       frame_info>>
    BY <1>12, <1>1, HeaderChunkStep DEF HeaderIgnored
  <2>1. InputOK'
    BY <1>12, <1>1, <2>0
       DEF HeaderIgnored, InputOK, IsFile
  <2>2. FlagsOK'
    BY <1>12, <1>1, <2>0
       DEF HeaderIgnored, FlagsOK, HeaderChunk, InHeader
  <2>3. ScalarsOK'
    BY <1>12, <1>1, <2>0
       DEF HeaderIgnored, ScalarsOK, HeaderChunk, InHeader
  <2>4. RecordsOK'
    BY <1>12, <1>1, <2>0
       DEF HeaderIgnored, RecordsOK, HeaderChunk, InHeader
  <2>5. StandsAtChunk'
    BY <1>12, <1>1, <2>0
       DEF HeaderIgnored, StandsAtChunk
  <2> QED
    BY <2>1, <2>2, <2>3, <2>4, <2>5 DEF TypeOK
<1>13. CASE HeaderIDAT
  <2>1. InputOK'
    BY <1>13, <1>1
       DEF HeaderIDAT, InputOK, IsFile
  <2>2. FlagsOK'
    BY <1>13, <1>1
       DEF HeaderIDAT, FlagsOK, SetBitDepth
  <2>3. ScalarsOK'
    <3>1. bit_depth' = bit_depth \/ bit_depth' = ihdr.bit_depth
      BY <1>13 DEF HeaderIDAT, SetBitDepth
    <3>2. bit_depth' \in Nat
      BY <1>1, <3>1 DEF RecordsOK, ScalarsOK
    <3>3. repetition_count' = kAnimationNone
            \/ repetition_count' = repetition_count
      BY <1>13 DEF HeaderIDAT
    <3>4. repetition_count' \in Int
      BY <1>1, <3>3 DEF ScalarsOK, kAnimationNone
    <3> QED
      BY <1>13, <1>1, <3>2, <3>4 DEF HeaderIDAT, ScalarsOK
  <2>4. RecordsOK'
    BY <1>13, <1>1
       DEF HeaderIDAT, RecordsOK
  <2>5. StandsAtChunk'
    BY <1>13, <1>1
       DEF HeaderIDAT, StandsAtChunk, InHeader
  <2> QED
    BY <2>1, <2>2, <2>3, <2>4, <2>5 DEF TypeOK
<1>14. CASE FinishSize
  <2>1. InputOK'
    BY <1>14, <1>1
       DEF FinishSize, InputOK, IsFile
  <2>2. FlagsOK'
    BY <1>14, <1>1
       DEF FinishSize, FlagsOK
  <2>3. ScalarsOK'
    BY <1>14, <1>1
       DEF FinishSize, ScalarsOK
  <2>4. RecordsOK'
    <3> DEFINE still == [start_offset |-> read_offset,
                         byte_length |-> kFirstFrameIndicator,
                         duration |-> 0,
                         frame_rect |-> ImageRect,
                         disposal_method |-> "kDisposeKeep",
                         alpha_blend |-> "kBlendAtopBgcolor"]
    <3>1. ImageRect \in Rect
      BY <1>1 DEF RecordsOK, ImageRect, Rect
    <3>2. still \in FrameInfo
      BY <1>1, <3>1 DEF ScalarsOK, FrameInfo, kFirstFrameIndicator
    <3>3. frame_info' = Append(frame_info, still)
            \/ frame_info' = frame_info
      BY <1>14 DEF FinishSize
    <3> QED
      BY <1>14, <1>1, <3>2, <3>3 DEF FinishSize, RecordsOK
  <2>5. StandsAtChunk'
    BY <1>14, <1>1
       DEF FinishSize, StandsAtChunk
  <2> QED
    BY <2>1, <2>2, <2>3, <2>4, <2>5 DEF TypeOK
<1>15. CASE AwaitChunk
  <2>1. InputOK'
    BY <1>15, <1>1
       DEF AwaitChunk, InputOK, IsFile
  <2>2. FlagsOK'
    BY <1>15, <1>1
       DEF AwaitChunk, FlagsOK
  <2>3. ScalarsOK'
    BY <1>15, <1>1
       DEF AwaitChunk, ScalarsOK
  <2>4. RecordsOK'
    BY <1>15, <1>1
       DEF AwaitChunk, RecordsOK
  <2>5. StandsAtChunk'
    BY <1>15, <1>1
       DEF AwaitChunk, StandsAtChunk
  <2> QED
    BY <2>1, <2>2, <2>3, <2>4, <2>5 DEF TypeOK
<1>16. CASE FrameData
  <2>0. parsed_signature /\ HeaderArrived /\ chunk \in Chunk
    BY <1>16, <1>1, InMetadataTyped DEF FrameData
  <2>1. InputOK'
    BY <1>16, <1>1
       DEF FrameData, InputOK, IsFile
  <2>2. FlagsOK'
    BY <1>16, <1>1
       DEF FrameData, FlagsOK
  <2>3. ScalarsOK'
    BY <1>16, <1>1, <2>0, Advance
       DEF FrameData, ScalarsOK, InMetadata
  <2>4. RecordsOK'
    BY <1>16, <1>1, StartFrameTyped
       DEF FrameData, RecordsOK
  <2>5. StandsAtChunk'
    BY <1>16, <1>1, <2>0, Advance
       DEF FrameData, StandsAtChunk, InMetadata
  <2> QED
    BY <2>1, <2>2, <2>3, <2>4, <2>5 DEF TypeOK
<1>17. CASE AwaitSequenceNumber
  <2>1. InputOK'
    BY <1>17, <1>1
       DEF AwaitSequenceNumber, InputOK, IsFile
  <2>2. FlagsOK'
    BY <1>17, <1>1
       DEF AwaitSequenceNumber, FlagsOK
  <2>3. ScalarsOK'
    BY <1>17, <1>1
       DEF AwaitSequenceNumber, ScalarsOK
  <2>4. RecordsOK'
    BY <1>17, <1>1, StartFrameTyped
       DEF AwaitSequenceNumber, RecordsOK
  <2>5. StandsAtChunk'
    BY <1>17, <1>1
       DEF AwaitSequenceNumber, StandsAtChunk
  <2> QED
    BY <2>1, <2>2, <2>3, <2>4, <2>5 DEF TypeOK
<1>18. CASE AwaitFrameEnd
  <2>1. InputOK'
    BY <1>18, <1>1
       DEF AwaitFrameEnd, InputOK, IsFile
  <2>2. FlagsOK'
    BY <1>18, <1>1
       DEF AwaitFrameEnd, FlagsOK
  <2>3. ScalarsOK'
    BY <1>18, <1>1
       DEF AwaitFrameEnd, ScalarsOK
  <2>4. RecordsOK'
    BY <1>18, <1>1, ClosedTyped
       DEF AwaitFrameEnd, RecordsOK
  <2>5. StandsAtChunk'
    BY <1>18, <1>1
       DEF AwaitFrameEnd, StandsAtChunk
  <2> QED
    BY <2>1, <2>2, <2>3, <2>4, <2>5 DEF TypeOK
<1>19. CASE EndOfImage
  <2>1. InputOK'
    BY <1>19, <1>1
       DEF EndOfImage, InputOK, IsFile
  <2>2. FlagsOK'
    BY <1>19, <1>1
       DEF EndOfImage, FlagsOK
  <2>3. ScalarsOK'
    BY <1>19, <1>1
       DEF EndOfImage, ScalarsOK
  <2>4. RecordsOK'
    BY <1>19, <1>1, ClosedTyped
       DEF EndOfImage, RecordsOK
  <2>5. StandsAtChunk'
    BY <1>19, <1>1
       DEF EndOfImage, StandsAtChunk
  <2> QED
    BY <2>1, <2>2, <2>3, <2>4, <2>5 DEF TypeOK
<1>20. CASE NextFrame
  <2>0. parsed_signature /\ HeaderArrived /\ chunk \in Chunk
    BY <1>20, <1>1, InMetadataTyped DEF NextFrame
  <2>1. InputOK'
    BY <1>20, <1>1
       DEF NextFrame, InputOK, IsFile
  <2>2. FlagsOK'
    BY <1>20, <1>1
       DEF NextFrame, FlagsOK
  <2>3. ScalarsOK'
    BY <1>20, <1>1, <2>0, Advance
       DEF NextFrame, ScalarsOK, InMetadata
  <2>4. RecordsOK'
    BY <1>20, <1>1, <2>0, ClosedTyped, WithControlTyped
       DEF NextFrame, RecordsOK
  <2>5. StandsAtChunk'
    BY <1>20, <1>1, <2>0, Advance
       DEF NextFrame, StandsAtChunk, InMetadata
  <2> QED
    BY <2>1, <2>2, <2>3, <2>4, <2>5 DEF TypeOK
<1>21. CASE SkipChunk
  <2>0. parsed_signature /\ HeaderArrived /\ chunk \in Chunk
    BY <1>21, <1>1, InMetadataTyped DEF SkipChunk
  <2>1. InputOK'
    BY <1>21, <1>1
       DEF SkipChunk, InputOK, IsFile
  <2>2. FlagsOK'
    BY <1>21, <1>1
       DEF SkipChunk, FlagsOK
  <2>3. ScalarsOK'
    BY <1>21, <1>1, <2>0, Advance
       DEF SkipChunk, ScalarsOK, InMetadata
  <2>4. RecordsOK'
    BY <1>21, <1>1
       DEF SkipChunk, RecordsOK
  <2>5. StandsAtChunk'
    BY <1>21, <1>1, <2>0, Advance
       DEF SkipChunk, StandsAtChunk, InMetadata
  <2> QED
    BY <2>1, <2>2, <2>3, <2>4, <2>5 DEF TypeOK
<1>22. CASE ImageIsHighBitDepth
  <2>1. InputOK'
    BY <1>22, <1>1 DEF ImageIsHighBitDepth, InputOK, IsFile
  <2>2. FlagsOK'
    BY <1>22, <1>1 DEF ImageIsHighBitDepth, SetBitDepth, FlagsOK
  <2>3. ScalarsOK'
    <3>1. ihdr.bit_depth \in Nat
      BY <1>1 DEF RecordsOK
    <3> QED
      BY <1>22, <1>1, <3>1 DEF ImageIsHighBitDepth, SetBitDepth, ScalarsOK
  <2>4. RecordsOK'
    BY <1>22, <1>1 DEF ImageIsHighBitDepth, RecordsOK
  <2>5. StandsAtChunk'
    BY <1>22, <1>1 DEF ImageIsHighBitDepth, StandsAtChunk
  <2> QED
    BY <2>1, <2>2, <2>3, <2>4, <2>5 DEF TypeOK
<1> QED
  BY <1>2, <1>3, <1>4, <1>5, <1>6, <1>7, <1>8, <1>9, <1>10, <1>11, <1>12,
     <1>13, <1>14, <1>15, <1>16, <1>17, <1>18, <1>19, <1>20, <1>21, <1>22
     DEF Next, ParseSize, ParseMetadata, HeaderLengthError, HeaderLibpngError,
         HeaderSizeError, MetadataLengthError, MetadataError

-----------------------------------------------------------------------------
(* The strengthening ReaderInv.                                            *)

FrameVars == <<file, read_offset, frame_info, new_frame, is_animated,
               parse_completed, size_available, reported_frame_count,
               fctl_needs_dat_chunk>>

(* Steps that touch no frame keep the invariants about frames.             *)
LEMMA QuietStep ==
  ASSUME ReaderInv, UNCHANGED FrameVars
  PROVE  ConstructionInv' /\ ClosedInv' /\ CountInv'
<1> USE DEF ReaderInv, FrameVars
<1>1. ConstructionInv'
  BY DEF ConstructionInv, FirstFrameIsOpen
<1>2. ClosedInv'
  BY DEF ClosedInv, Unreported, FirstFrameIsOpen
<1>3. CountInv'
  BY DEF CountInv
<1> QED
  BY <1>1, <1>2, <1>3

(* They hold as long as there is no frame.                                 *)
LEMMA NoFrames ==
  ASSUME frame_info' = <<>>, new_frame'.start_offset = 0, ScalarsOK'
  PROVE  ConstructionInv' /\ ClosedInv' /\ CountInv'
<1>1. ConstructionInv'
  BY DEF ConstructionInv, FirstFrameIsOpen
<1>2. ClosedInv'
  BY DEF ClosedInv
<1>3. CountInv'
  BY DEF CountInv, ScalarsOK
<1> QED
  BY <1>1, <1>2, <1>3

(* Before the first IDAT there is none.                                    *)
LEMMA HeaderHasNoFrames ==
  ASSUME IInv, pc = "size", ~size_available
  PROVE  frame_info = <<>> /\ new_frame.start_offset = 0
<1> QED
  BY DEF IInv, ReaderInv, CallInv, ConstructionInv

LEMMA StepCall ==
  ASSUME IInv, Next
  PROVE  CallInv'
<1> USE DEF input, header, animated, control, frames, decoder, CallInv
<1>1. CallInv /\ TypeOK
  BY DEF IInv, ReaderInv
<1>2. CASE Receive
  BY <1>1, <1>2 DEF Receive
<1>3. ASSUME NEW q \in {"kSize", "kMetaData"}, BeginParse(q) PROVE CallInv'
  BY <1>1, <1>3 DEF BeginParse
<1>4. CASE Fail
  BY <1>1, <1>4 DEF Fail
<1>5. CASE SizeIsKnown
  BY <1>1, <1>5 DEF SizeIsKnown
<1>6. CASE AwaitHeader
  BY <1>1, <1>6 DEF AwaitHeader
<1>7. CASE ParseSignature /\ ~Fail
  BY <1>1, <1>7 DEF ParseSignature
<1>8. CASE HeaderAcTL
  <2>1. is_animated' => reported_frame_count' > 0
    <3>1. CASE ignore_animation
      BY <1>1, <1>8, <3>1 DEF HeaderAcTL
    <3>2. CASE ~ignore_animation /\ ActlIsUsable
      <4>1. reported_frame_count' = chunk.actl.frames
        BY <1>8, <3>2 DEF HeaderAcTL
      <4>2. is_animated' => chunk.actl.frames \in 1 .. Uint31Max
        BY <1>8, <3>2 DEF HeaderAcTL, ActlIsUsable
      <4>3. chunk.actl.frames \in 1 .. Uint31Max => chunk.actl.frames > 0
        BY ReaderAssumption
      <4> QED
        BY <4>1, <4>2, <4>3
    <3>3. CASE ~ignore_animation /\ ~ActlIsUsable
      BY <1>1, <1>8, <3>3 DEF HeaderAcTL
    <3> QED
      BY <3>1, <3>2, <3>3
  <2>2. UNCHANGED <<pc, size_available, failed, parse_completed, frame_info>>
    BY <1>8 DEF HeaderAcTL, HeaderChunk
  <2>3. pc = "size" /\ ~size_available
    BY <1>8 DEF HeaderAcTL, HeaderChunk, InHeader
  <2> QED
    BY <1>1, <2>1, <2>2, <2>3
<1>9. CASE HeaderFcTL
  BY <1>1, <1>9 DEF HeaderFcTL, HeaderChunk
<1>10. CASE HeaderFdAT
  BY <1>1, <1>10 DEF HeaderFdAT, HeaderChunk
<1>11. CASE HeaderLibpngChunk
  BY <1>1, <1>11 DEF HeaderLibpngChunk, HeaderChunk
<1>12. CASE HeaderIgnored
  BY <1>1, <1>12 DEF HeaderIgnored, HeaderChunk
<1>13. CASE HeaderIDAT
  BY <1>1, <1>13 DEF HeaderIDAT, InHeader
<1>14. CASE FinishSize
  BY <1>1, <1>14 DEF FinishSize
<1>15. CASE AwaitChunk
  BY <1>1, <1>15 DEF AwaitChunk
<1>16. CASE FrameData
  <2>1. pc = "meta" /\ size_available
    BY <1>1, <1>16 DEF FrameData, InMetadata, TypeOK, StandsAtChunk
  <2> QED
    BY <1>1, <1>16, <2>1 DEF FrameData
<1>17. CASE AwaitSequenceNumber
  <2>1. pc = "meta" /\ size_available
    BY <1>1, <1>17 DEF AwaitSequenceNumber, InMetadata, TypeOK, StandsAtChunk
  <2> QED
    BY <1>1, <1>17, <2>1 DEF AwaitSequenceNumber
<1>18. CASE AwaitFrameEnd
  <2>1. pc = "meta" /\ size_available
    BY <1>1, <1>18 DEF AwaitFrameEnd, InMetadata, TypeOK, StandsAtChunk
  <2> QED
    BY <1>1, <1>18, <2>1 DEF AwaitFrameEnd
<1>19. CASE EndOfImage
  BY <1>1, <1>19 DEF EndOfImage
<1>20. CASE NextFrame
  <2>1. pc = "meta" /\ size_available
    BY <1>1, <1>20 DEF NextFrame, InMetadata, TypeOK, StandsAtChunk
  <2> QED
    BY <1>1, <1>20, <2>1 DEF NextFrame
<1>21. CASE SkipChunk
  BY <1>1, <1>21 DEF SkipChunk
<1>22. CASE ImageIsHighBitDepth
  BY <1>1, <1>22 DEF ImageIsHighBitDepth
<1> QED
  BY <1>2, <1>3, <1>4, <1>5, <1>6, <1>7, <1>8, <1>9, <1>10, <1>11, <1>12,
     <1>13, <1>14, <1>15, <1>16, <1>17, <1>18, <1>19, <1>20, <1>21, <1>22
     DEF Next, ParseSize, ParseMetadata, HeaderLengthError, HeaderLibpngError,
         HeaderSizeError, MetadataLengthError, MetadataError

-----------------------------------------------------------------------------
(* The four steps of the metadata loop that touch frames.                  *)

LEMMA FrameDataFacts ==
  ASSUME IInv, StartFrame, InMetadata, chunk.type \in {"fdAT", "IDAT"}
  PROVE  /\ new_frame'.start_offset # 0
         /\ frame_info' # <<>>
         /\ \/ UNCHANGED <<new_frame, frame_info>>
            \/ /\ frame_info = <<>>
               /\ frame_info' = <<new_frame'>>
               /\ new_frame'.byte_length = kFirstFrameIndicator
               /\ new_frame'.start_offset = read_offset
            \/ /\ frame_info # <<>>
               /\ new_frame.start_offset = 0
               /\ frame_info' = frame_info
               /\ new_frame'.start_offset = read_offset
         /\ new_frame.start_offset = 0
              => new_frame'.start_offset = read_offset
         /\ new_frame.start_offset # 0 => UNCHANGED <<new_frame, frame_info>>
<1> USE DEF IInv, ReaderInv
<1>1. /\ read_offset \in Nat /\ read_offset # 0
      /\ new_frame \in FrameInfo
  <2>1. read_offset \in Nat /\ read_offset >= SignatureEnd /\ new_frame \in FrameInfo
    BY InMetadataTyped DEF TypeOK, ScalarsOK, RecordsOK, StandsAtChunk
  <2> QED
    BY <2>1, ReaderAssumption DEF SignatureEnd
<1>2. CASE new_frame.start_offset # 0
  BY <1>2 DEF StartFrame, ConstructionInv
<1> DEFINE started == [new_frame EXCEPT !.start_offset = read_offset]
           first == [started EXCEPT !.byte_length = kFirstFrameIndicator]
<1>3. /\ started.start_offset = read_offset
      /\ first.start_offset = read_offset
      /\ first.byte_length = kFirstFrameIndicator
  BY <1>1 DEF FrameInfo
<1>4. CASE new_frame.start_offset = 0 /\ frame_info = <<>>
  <2>1. new_frame' = first /\ frame_info' = <<first>>
    BY <1>4 DEF StartFrame
  <2> QED
    BY <1>1, <1>3, <1>4, <2>1
<1>5. CASE new_frame.start_offset = 0 /\ frame_info # <<>>
  <2>1. new_frame' = started /\ frame_info' = frame_info
    BY <1>5 DEF StartFrame
  <2> QED
    BY <1>1, <1>3, <1>5, <2>1
<1> QED
  BY <1>2, <1>4, <1>5

(* What closing does to the frame list.                                    *)
LEMMA ClosedFacts ==
  ASSUME IInv, InMetadata, chunk.type \in {"fcTL", "IEND"}
  PROVE  \/ /\ new_frame.start_offset = 0
            /\ ClosedFrames = frame_info
         \/ /\ new_frame.start_offset # 0
            /\ FirstFrameIsOpen
            /\ Len(frame_info) = 1
            /\ frame_info[1].start_offset = new_frame.start_offset
            /\ ClosedFrames = [frame_info EXCEPT ![1].byte_length = ClosedLength]
            /\ Len(ClosedFrames) = 1
            /\ ClosedFrames[1].start_offset = new_frame.start_offset
            /\ ClosedFrames[1].byte_length = ClosedLength
         \/ /\ new_frame.start_offset # 0
            /\ ~FirstFrameIsOpen
            /\ ClosingAppends
            /\ ClosedFrames
                 = Append(frame_info,
                          [new_frame EXCEPT !.byte_length = ClosedLength])
            /\ Len(ClosedFrames) = Len(frame_info) + 1
            /\ ClosedFrames[Len(ClosedFrames)].start_offset
                 = new_frame.start_offset
            /\ ClosedFrames[Len(ClosedFrames)].byte_length = ClosedLength
<1>1. frame_info \in Seq(FrameInfo) /\ new_frame \in FrameInfo
  BY DEF IInv, TypeOK, RecordsOK
<1>2. CASE new_frame.start_offset = 0
  BY <1>2 DEF ClosedFrames
<1>3. CASE new_frame.start_offset # 0 /\ FirstFrameIsOpen
  <2>1. /\ Len(frame_info) = 1
        /\ frame_info[1].start_offset = new_frame.start_offset
        /\ frame_info[1] \in FrameInfo
    BY <1>1, <1>3
       DEF IInv, ReaderInv, ConstructionInv, CallInv, InMetadata
  <2>2. ClosedFrames = [frame_info EXCEPT ![1].byte_length = ClosedLength]
    BY <1>3 DEF ClosedFrames, ClosingAppends, FirstFrameIsOpen
  <2>3. /\ Len(ClosedFrames) = 1
        /\ ClosedFrames[1] = [frame_info[1] EXCEPT !.byte_length = ClosedLength]
    BY <1>1, <2>1, <2>2
  <2> QED
    BY <1>3, <2>1, <2>2, <2>3 DEF FrameInfo
<1>4. CASE new_frame.start_offset # 0 /\ ~FirstFrameIsOpen
  <2>1. frame_info # <<>>
    BY <1>4, ClosedLengthBound
  <2>2. ClosingAppends
    BY <1>4, <2>1 DEF ClosingAppends, FirstFrameIsOpen
  <2>3. ClosedFrames = Append(frame_info,
                              [new_frame EXCEPT !.byte_length = ClosedLength])
    BY <1>4, <2>2 DEF ClosedFrames
  <2>4. /\ Len(ClosedFrames) = Len(frame_info) + 1
        /\ ClosedFrames[Len(ClosedFrames)]
             = [new_frame EXCEPT !.byte_length = ClosedLength]
    BY <1>1, <2>3
  <2> QED
    BY <1>1, <1>4, <2>2, <2>3, <2>4 DEF FrameInfo
<1> QED
  BY <1>2, <1>3, <1>4

(* What ClosedInv says of one closed frame.                                *)
LEMMA ClosedFrame ==
  ASSUME IInv, NEW i \in DOMAIN frame_info,
         frame_info[i].byte_length # kFirstFrameIndicator
  PROVE  /\ frame_info[i].start_offset + frame_info[i].byte_length \in Nat
         /\ frame_info[i].byte_length >= 12
         /\ frame_info[i].start_offset + frame_info[i].byte_length
              <= read_offset
         /\ \A j \in DOMAIN frame_info : i < j =>
              frame_info[i].start_offset + frame_info[i].byte_length
                <= frame_info[j].start_offset
         /\ Unreported =>
              frame_info[i].start_offset + frame_info[i].byte_length
                <= new_frame.start_offset
<1>1. frame_info[i] \in FrameInfo
  BY DEF IInv, TypeOK, RecordsOK
<1>2. frame_info[i].start_offset + frame_info[i].byte_length \in Nat
  BY <1>1 DEF FrameInfo
<1> QED
  BY <1>2 DEF IInv, ReaderInv, ClosedInv

LEMMA FrameDataStep ==
  ASSUME IInv, StartFrame, InMetadata, chunk.type \in {"fdAT", "IDAT"},
         UNCHANGED <<file, is_animated, size_available, reported_frame_count,
                     parse_completed>>,
         \/ read_offset' \in Nat /\ read_offset' >= read_offset + 12
         \/ read_offset' = read_offset /\ chunk.type = "fdAT"
  PROVE  ConstructionInv' /\ ClosedInv' /\ CountInv'
<1>1. /\ frame_info \in Seq(FrameInfo) /\ new_frame \in FrameInfo
      /\ read_offset \in Nat /\ reported_frame_count \in Nat
      /\ new_frame.start_offset \in Nat
  BY DEF IInv, TypeOK, RecordsOK, ScalarsOK, FrameInfo
<1>2. is_animated /\ size_available /\ ~parse_completed
      /\ reported_frame_count > 0
  BY DEF IInv, TypeOK, StandsAtChunk, ReaderInv, CallInv, InMetadata
<1>3. ConstructionInv /\ ClosedInv /\ CountInv
  BY DEF IInv, ReaderInv
<1>4. CASE new_frame.start_offset # 0
  <2>1. UNCHANGED <<new_frame, frame_info>>
    BY <1>4, FrameDataFacts
  <2>2. \/ new_frame.start_offset + 12 <= read_offset'
        \/ /\ new_frame.start_offset = read_offset'
           /\ file'.chunk[read_offset'].type = "fdAT"
    BY <1>1, <1>3, <1>4 DEF ConstructionInv, chunk
  <2>3. FirstFrameIsOpen' => /\ frame_info[1].start_offset
                                  = new_frame.start_offset
                             /\ Len(frame_info) = 1
    BY <1>2, <1>3, <2>1 DEF ConstructionInv, FirstFrameIsOpen
  <2>4. frame_info # <<>>
    BY <1>3, <1>4 DEF ConstructionInv
  <2>5. ConstructionInv'
    BY <1>2, <1>4, <2>1, <2>2, <2>3, <2>4 DEF ConstructionInv
  <2>6. ClosedInv'
    <3> SUFFICES ASSUME NEW i \in DOMAIN frame_info,
                        frame_info[i].byte_length # kFirstFrameIndicator
                 PROVE  LET end == frame_info[i].start_offset
                                     + frame_info[i].byte_length
                        IN /\ frame_info[i].byte_length >= 12
                           /\ end <= read_offset'
                           /\ \A j \in DOMAIN frame_info :
                                i < j => end <= frame_info[j].start_offset
                           /\ Unreported => end <= new_frame.start_offset
      BY <2>1 DEF ClosedInv, Unreported, FirstFrameIsOpen
    <3> QED
      BY <1>1, ClosedFrame
  <2>7. CountInv'
    BY <1>3, <1>4, <2>1 DEF CountInv
  <2> QED
    BY <2>5, <2>6, <2>7
<1>5. CASE new_frame.start_offset = 0 /\ frame_info = <<>>
  <2>1. /\ frame_info' = <<new_frame'>>
        /\ new_frame'.byte_length = kFirstFrameIndicator
        /\ new_frame'.start_offset = read_offset
        /\ new_frame'.start_offset # 0
    BY <1>5, FrameDataFacts
  <2>2. ConstructionInv'
    BY <1>1, <1>2, <2>1 DEF ConstructionInv, FirstFrameIsOpen, chunk
  <2>3. ClosedInv'
    BY <2>1 DEF ClosedInv
  <2>4. CountInv'
    BY <1>1, <1>2, <2>1 DEF CountInv
  <2> QED
    BY <2>2, <2>3, <2>4
<1>6. CASE new_frame.start_offset = 0 /\ frame_info # <<>>
  <2>1. /\ frame_info' = frame_info
        /\ new_frame'.start_offset = read_offset
        /\ new_frame'.start_offset # 0
    BY <1>6, FrameDataFacts
  <2>2. ~FirstFrameIsOpen
    BY <1>2, <1>3, <1>6 DEF ConstructionInv
  <2>3. ConstructionInv'
    BY <1>1, <1>2, <1>6, <2>1, <2>2
       DEF ConstructionInv, FirstFrameIsOpen, chunk
  <2>4. ClosedInv'
    <3> SUFFICES ASSUME NEW i \in DOMAIN frame_info,
                        frame_info[i].byte_length # kFirstFrameIndicator
                 PROVE  LET end == frame_info[i].start_offset
                                     + frame_info[i].byte_length
                        IN /\ frame_info[i].byte_length >= 12
                           /\ end <= read_offset'
                           /\ \A j \in DOMAIN frame_info :
                                i < j => end <= frame_info[j].start_offset
                           /\ end <= read_offset
      BY <2>1 DEF ClosedInv, Unreported, FirstFrameIsOpen
    <3> QED
      BY <1>1, ClosedFrame
  <2>5. CountInv'
    BY <1>3, <2>1 DEF CountInv
  <2> QED
    BY <2>3, <2>4, <2>5
<1> QED
  BY <1>4, <1>5, <1>6

(* fcTL and IEND: whatever they do besides, they leave no frame open.      *)
LEMMA ClosingStep ==
  ASSUME IInv, InMetadata, chunk.type \in {"fcTL", "IEND"},
         frame_info' = ClosedFrames, new_frame'.start_offset = 0,
         read_offset' \in Nat, read_offset' >= read_offset
  PROVE  /\ ~FirstFrameIsOpen'
         /\ ConstructionInv'
         /\ ClosedInv'
<1>1. /\ frame_info \in Seq(FrameInfo) /\ new_frame \in FrameInfo
      /\ read_offset \in Nat /\ new_frame.start_offset \in Nat
  BY DEF IInv, TypeOK, RecordsOK, ScalarsOK, FrameInfo
<1>2. is_animated /\ ConstructionInv /\ ClosedInv
  BY DEF IInv, ReaderInv, CallInv, InMetadata
<1>3. ~FirstFrameIsOpen' /\ ClosedInv'
  <2>1. CASE new_frame.start_offset = 0
    <3>1. frame_info' = frame_info
      BY <2>1 DEF ClosedFrames
    <3>2. ~FirstFrameIsOpen
      BY <1>2, <2>1 DEF ConstructionInv
    <3>3. ASSUME NEW i \in DOMAIN frame_info,
                 frame_info[i].byte_length # kFirstFrameIndicator
          PROVE  LET end == frame_info[i].start_offset
                              + frame_info[i].byte_length
                 IN /\ frame_info[i].byte_length >= 12
                    /\ end <= read_offset'
                    /\ \A j \in DOMAIN frame_info :
                         i < j => end <= frame_info[j].start_offset
      BY <1>1, <3>3, ClosedFrame
    <3>4. ClosedInv'
      BY <3>1, <3>3 DEF ClosedInv, Unreported
    <3> QED
      BY <3>1, <3>2, <3>4 DEF FirstFrameIsOpen
  <2>2. CASE new_frame.start_offset # 0 /\ FirstFrameIsOpen
    <3>1. /\ Len(ClosedFrames) = 1
          /\ ClosedFrames[1].start_offset = new_frame.start_offset
          /\ ClosedFrames[1].byte_length = ClosedLength
          /\ DOMAIN ClosedFrames = {1}
      <4>1. ClosedFrames \in Seq(FrameInfo)
        BY ClosedTyped
      <4> QED
        BY <2>2, <4>1, ClosedFacts
    <3>2. /\ ClosedLength \in Nat /\ ClosedLength >= 12
          /\ new_frame.start_offset + ClosedLength = read_offset
      BY <2>2, ClosedLengthBound
    <3>3. ~FirstFrameIsOpen'
      BY <3>1, <3>2 DEF FirstFrameIsOpen, kFirstFrameIndicator
    <3>4. ClosedInv'
      BY <1>1, <3>1, <3>2 DEF ClosedInv, Unreported
    <3> QED
      BY <3>3, <3>4
  <2>3. CASE new_frame.start_offset # 0 /\ ~FirstFrameIsOpen
    <3> DEFINE n == Len(frame_info)
               last == [new_frame EXCEPT !.byte_length = ClosedLength]
    <3>1. /\ ClosedLength \in Nat /\ ClosedLength >= 12
          /\ new_frame.start_offset + ClosedLength = read_offset
          /\ frame_info # <<>>
      BY <2>3, ClosedLengthBound
    <3>2. ClosedFrames = Append(frame_info, last)
      BY <2>3, ClosedFacts
    <3>3. last.start_offset = new_frame.start_offset
          /\ last.byte_length = ClosedLength
      BY <1>1 DEF FrameInfo
    <3>4. /\ n \in Nat \ {0}
          /\ DOMAIN frame_info = 1 .. n
          /\ DOMAIN ClosedFrames = 1 .. n + 1
          /\ \A i \in 1 .. n : ClosedFrames[i] = frame_info[i]
          /\ ClosedFrames[n + 1] = last
      BY <1>1, <3>1, <3>2
    <3> HIDE DEF n, last
    <3>5. ~FirstFrameIsOpen'
      BY <2>3, <3>1, <3>4 DEF FirstFrameIsOpen
    <3>6. ASSUME NEW i \in DOMAIN ClosedFrames,
                 ClosedFrames[i].byte_length # kFirstFrameIndicator
          PROVE  LET end == ClosedFrames[i].start_offset
                              + ClosedFrames[i].byte_length
                 IN /\ ClosedFrames[i].byte_length >= 12
                    /\ end <= read_offset'
                    /\ \A j \in DOMAIN ClosedFrames :
                         i < j => end <= ClosedFrames[j].start_offset
      <4>1. CASE i = n + 1
        BY <1>1, <3>1, <3>3, <3>4, <4>1
      <4>2. CASE i \in 1 .. n
        <5>1. ClosedFrames[i] = frame_info[i] /\ i \in DOMAIN frame_info
          BY <3>4, <4>2
        <5>2. /\ frame_info[i].start_offset + frame_info[i].byte_length \in Nat
              /\ frame_info[i].byte_length >= 12
              /\ frame_info[i].start_offset + frame_info[i].byte_length
                    <= read_offset
              /\ \A j \in DOMAIN frame_info : i < j =>
                   frame_info[i].start_offset + frame_info[i].byte_length
                     <= frame_info[j].start_offset
              /\ frame_info[i].start_offset + frame_info[i].byte_length
                    <= new_frame.start_offset
          BY <2>3, <3>6, <5>1, ClosedFrame DEF Unreported
        <5>3. ASSUME NEW j \in DOMAIN ClosedFrames, i < j
              PROVE  frame_info[i].start_offset + frame_info[i].byte_length
                       <= ClosedFrames[j].start_offset
          <6>1. CASE j = n + 1
            BY <3>3, <3>4, <5>2, <6>1
          <6>2. CASE j \in 1 .. n
            BY <3>4, <5>2, <5>3, <6>2
          <6> QED
            BY <3>4, <5>3, <6>1, <6>2
        <5> QED
          BY <1>1, <5>1, <5>2, <5>3
      <4> QED
        BY <3>4, <4>1, <4>2
    <3>7. ClosedInv'
      BY <3>6 DEF ClosedInv, Unreported
    <3> QED
      BY <3>5, <3>7
  <2> QED
    BY <2>1, <2>2, <2>3
<1> QED
  BY <1>3 DEF ConstructionInv

(* Every step keeps the invariants about frames.                           *)
LEMMA StepReader ==
  ASSUME IInv, Next, TypeOK'
  PROVE  ConstructionInv' /\ ClosedInv' /\ CountInv'
<1> USE DEF input, header, animated, control, frames, decoder
<1>1. ReaderInv /\ ConstructionInv /\ CountInv /\ CallInv
  BY DEF IInv, ReaderInv
<1>2. ScalarsOK' /\ RecordsOK' /\ new_frame \in FrameInfo
      /\ new_frame' \in FrameInfo /\ read_offset \in Nat /\ read_offset' \in Nat
      /\ frame_info \in Seq(FrameInfo)
      /\ reported_frame_count \in Nat
  BY DEF IInv, TypeOK, RecordsOK, ScalarsOK
<1> DEFINE Goal == ConstructionInv' /\ ClosedInv' /\ CountInv'
<1>3. ASSUME InMetadata
      PROVE  /\ chunk_end_offset >= read_offset + 12
             /\ ~parse_completed /\ is_animated /\ size_available
  <2>1. TypeOK
    BY DEF IInv
  <2> QED
    BY <1>1, <1>3, <2>1, InMetadataTyped, ChunkTyped
       DEF CallInv, InMetadata, TypeOK, StandsAtChunk
<1>4. ASSUME \/ Receive
             \/ ImageIsHighBitDepth
             \/ \E q \in {"kSize", "kMetaData"} : BeginParse(q)
             \/ Fail
             \/ SizeIsKnown
             \/ AwaitHeader
             \/ AwaitChunk
      PROVE  Goal
  <2>1. UNCHANGED FrameVars
    BY <1>4 DEF FrameVars, Receive, ImageIsHighBitDepth, BeginParse, Fail, SizeIsKnown,
                AwaitHeader, AwaitChunk
  <2> QED
    BY <1>1, <2>1, QuietStep
<1>5. ASSUME \/ ParseSignature /\ ~Fail
             \/ HeaderAcTL
             \/ HeaderFdAT
             \/ HeaderLibpngChunk
             \/ HeaderIgnored
             \/ HeaderIDAT
      PROVE  Goal
  <2>1. pc = "size" /\ ~size_available
    BY <1>5 DEF ParseSignature, HeaderAcTL, HeaderFdAT, HeaderLibpngChunk,
                HeaderIgnored, HeaderIDAT, HeaderChunk, InHeader
  <2>2. frame_info = <<>> /\ new_frame.start_offset = 0
    BY <2>1, HeaderHasNoFrames
  <2>3. frame_info' = frame_info
    BY <1>5 DEF ParseSignature, HeaderAcTL, HeaderFdAT, HeaderLibpngChunk,
                HeaderIgnored, HeaderIDAT, HeaderChunk
  <2>4. \/ new_frame' = new_frame
        \/ new_frame' = [new_frame EXCEPT !.start_offset = 0]
    BY <1>5 DEF ParseSignature, HeaderAcTL, HeaderFdAT, HeaderLibpngChunk,
                HeaderIgnored, HeaderIDAT
  <2>5. new_frame'.start_offset = 0
    BY <1>2, <2>2, <2>4 DEF FrameInfo
  <2> QED
    BY <1>2, <2>2, <2>3, <2>5, NoFrames
<1>6. CASE HeaderFcTL
  <2>1. pc = "size" /\ ~size_available
    BY <1>6 DEF HeaderFcTL, HeaderChunk, InHeader
  <2>2. frame_info = <<>> /\ new_frame.start_offset = 0
    BY <2>1, HeaderHasNoFrames
  <2>3. frame_info' = frame_info /\ chunk \in Chunk
    <3>1. TypeOK /\ UNCHANGED <<parsed_signature, size_available>>
      BY <1>6 DEF HeaderFcTL, IInv
    <3> QED
      BY <1>6, <3>1, HeaderChunkStep DEF HeaderFcTL
  <2>4. new_frame' = new_frame \/ new_frame' = WithControl(new_frame, chunk)
    BY <1>6 DEF HeaderFcTL
  <2>5. new_frame'.start_offset = 0
    BY <1>2, <2>2, <2>3, <2>4, WithControlTyped
  <2> QED
    BY <1>2, <2>2, <2>3, <2>5, NoFrames
<1>7. CASE FinishSize
  <2>1. CASE size_available /\ ~is_animated
    <3>1. ~parse_completed
      BY <1>1, <1>7 DEF CallInv, FinishSize
    <3>2. frame_info = <<>> /\ new_frame.start_offset = 0
      BY <1>1, <2>1, <3>1 DEF CallInv, ConstructionInv
    <3>3. Len(frame_info') = 1
          /\ frame_info'[1].byte_length = kFirstFrameIndicator
          /\ DOMAIN frame_info' = {1}
      BY <1>7, <2>1, <3>2 DEF FinishSize
    <3>4. UNCHANGED <<new_frame, is_animated>>
      BY <1>7 DEF FinishSize
    <3>5. ConstructionInv'
      BY <2>1, <3>2, <3>4 DEF ConstructionInv
    <3>6. ClosedInv'
      BY <3>3 DEF ClosedInv
    <3>7. CountInv'
      BY <2>1, <3>4 DEF CountInv
    <3> QED
      BY <3>5, <3>6, <3>7
  <2>2. CASE ~(size_available /\ ~is_animated)
    <3>1. UNCHANGED FrameVars
      BY <1>7, <2>2 DEF FinishSize, FrameVars
    <3> QED
      BY <1>1, <3>1, QuietStep
  <2> QED
    BY <2>1, <2>2
<1>8. CASE FrameData
  <2>1. /\ StartFrame /\ InMetadata /\ chunk.type \in {"fdAT", "IDAT"}
        /\ UNCHANGED <<file, is_animated, size_available,
                       reported_frame_count, parse_completed>>
        /\ read_offset' = chunk_end_offset
    BY <1>8 DEF FrameData, CarriesFrameData
  <2> QED
    BY <1>2, <1>3, <2>1, FrameDataStep
<1>9. CASE AwaitSequenceNumber
  <2>1. /\ StartFrame /\ InMetadata /\ chunk.type = "fdAT"
        /\ UNCHANGED <<file, is_animated, size_available,
                       reported_frame_count, parse_completed, read_offset>>
    BY <1>9 DEF AwaitSequenceNumber
  <2> QED
    BY <2>1, FrameDataStep
<1>10. CASE SkipChunk
  <2>1. /\ InMetadata
        /\ chunk.type \notin {"fcTL", "IEND", "fdAT"}
        /\ read_offset' = chunk_end_offset
        /\ UNCHANGED <<file, frame_info, new_frame, is_animated,
                       parse_completed, size_available, reported_frame_count,
                       fctl_needs_dat_chunk>>
    BY <1>10 DEF SkipChunk
  <2>2. read_offset' >= read_offset + 12 /\ ~parse_completed /\ is_animated
    BY <1>3, <2>1
  <2>3. new_frame.start_offset # 0
          => new_frame.start_offset + 12 <= read_offset'
    <3>1. new_frame.start_offset \in Nat
      BY <1>2 DEF FrameInfo
    <3>2. new_frame.start_offset # 0
            => new_frame.start_offset + 12 <= read_offset
      BY <1>1, <2>1 DEF ConstructionInv, chunk
    <3> QED
      BY <1>2, <2>2, <3>1, <3>2
  <2>4. ConstructionInv'
    BY <1>1, <2>1, <2>3 DEF ConstructionInv, FirstFrameIsOpen
  <2>5. ClosedInv'
    <3> SUFFICES ASSUME NEW i \in DOMAIN frame_info,
                        frame_info[i].byte_length # kFirstFrameIndicator
                 PROVE  LET end == frame_info[i].start_offset
                                     + frame_info[i].byte_length
                        IN /\ frame_info[i].byte_length >= 12
                           /\ end <= read_offset'
                           /\ \A j \in DOMAIN frame_info :
                                i < j => end <= frame_info[j].start_offset
                           /\ Unreported => end <= new_frame.start_offset
      BY <2>1 DEF ClosedInv, Unreported, FirstFrameIsOpen
    <3> QED
      BY <1>2, <2>2, ClosedFrame
  <2>6. CountInv'
    BY <1>1, <2>1, <2>2 DEF CountInv, chunk
  <2> QED
    BY <2>4, <2>5, <2>6
<1>11. ASSUME AwaitFrameEnd \/ EndOfImage \/ NextFrame
       PROVE  Goal
  <2>1. /\ InMetadata /\ chunk.type \in {"fcTL", "IEND"}
        /\ frame_info' = ClosedFrames
        /\ ~FrameCountMismatch
        /\ UNCHANGED <<file, is_animated, reported_frame_count>>
    BY <1>11 DEF AwaitFrameEnd, EndOfImage, NextFrame
  <2>2. ClosedNewFrame \in FrameInfo /\ ClosedNewFrame.start_offset = 0
    BY <2>1, ClosedTyped
  <2>3. new_frame'.start_offset = 0
    <3>1. CASE NextFrame
      <4>1. chunk \in Chunk
        BY <2>1, InMetadataTyped DEF IInv
      <4>2. new_frame' = WithControl(ClosedNewFrame, chunk)
        BY <3>1 DEF NextFrame
      <4> QED
        BY <2>2, <4>1, <4>2, WithControlTyped
    <3> QED
      BY <1>11, <2>2, <3>1 DEF AwaitFrameEnd, EndOfImage
  <2>4. read_offset' >= read_offset
    <3>1. read_offset' = read_offset \/ read_offset' = chunk_end_offset
      BY <1>11 DEF AwaitFrameEnd, EndOfImage, NextFrame
    <3>2. chunk_end_offset >= read_offset + 12
      BY <1>3, <2>1
    <3> QED
      BY <1>2, <3>1, <3>2
  <2>5. ConstructionInv' /\ ClosedInv'
    BY <1>2, <2>1, <2>3, <2>4, ClosingStep
  <2>6. is_animated /\ ~parse_completed /\ Len(frame_info) \in Nat
        /\ Len(frame_info) <= reported_frame_count
        /\ reported_frame_count > 0
    BY <1>1, <1>2, <1>3, <2>1 DEF CountInv, CallInv
  <2>7. Len(frame_info') <= reported_frame_count
    BY <1>2, <2>1, <2>6, ClosedFacts DEF FrameCountMismatch
  <2>8. CASE NextFrame
    BY <2>1, <2>5, <2>7, <2>8 DEF CountInv, NextFrame
  <2>9. CASE AwaitFrameEnd /\ chunk.type = "fcTL"
    <3>1. ~parse_completed' /\ file'.chunk[read_offset'].type = "fcTL"
      BY <2>6, <2>9 DEF AwaitFrameEnd, chunk
    <3> QED
      BY <2>1, <2>5, <2>7, <3>1 DEF CountInv
  <2>10. CASE (AwaitFrameEnd \/ EndOfImage) /\ chunk.type = "IEND"
    <3>1. file'.chunk[read_offset'].type = "IEND"
          /\ UNCHANGED fctl_needs_dat_chunk
      BY <2>10 DEF AwaitFrameEnd, EndOfImage, chunk
    <3>2. Len(frame_info') > 1 /\ ~fctl_needs_dat_chunk
            => Len(frame_info') = reported_frame_count
      <4>1. CASE new_frame.start_offset = 0
        <5>1. frame_info' = frame_info
          BY <2>1, <4>1 DEF ClosedFrames
        <5>2. file.chunk[read_offset].type = "IEND"
          BY <2>10 DEF chunk
        <5> QED
          BY <1>1, <2>6, <4>1, <5>1, <5>2 DEF CountInv
      <4>2. CASE new_frame.start_offset # 0
        <5>1. \/ Len(frame_info') = 1
              \/ ClosingAppends /\ Len(frame_info') = Len(frame_info) + 1
          BY <2>1, <4>2, ClosedFacts
        <5>2. ClosingAppends => Len(frame_info) + 1 = reported_frame_count
          BY <2>1, <2>10 DEF FrameCountMismatch
        <5>3. Len(frame_info') = 1 \/ Len(frame_info') = reported_frame_count
          BY <5>1, <5>2
        <5> QED
          BY <5>3
      <4> QED
        BY <4>1, <4>2
    <3> QED
      BY <2>1, <2>5, <2>7, <3>1, <3>2 DEF CountInv
  <2> QED
    BY <1>11, <2>1, <2>8, <2>9, <2>10 DEF EndOfImage
<1> QED
  BY <1>4, <1>5, <1>6, <1>7, <1>8, <1>9, <1>10, <1>11
     DEF Next, ParseSize, ParseMetadata, HeaderLengthError, HeaderLibpngError,
         HeaderSizeError, MetadataLengthError, MetadataError

-----------------------------------------------------------------------------

(* What a step does to the frames reported to the decoder: nothing, or one *)
(* of the three things FrameCatalogue allows, and never after the end.     *)
OpensFirst ==
  /\ frame_info = <<>>
  /\ \E f \in FrameInfo : /\ frame_info' = <<f>>
                         /\ f.byte_length = kFirstFrameIndicator

ClosesFirst ==
  /\ FirstFrameIsOpen
  /\ Len(frame_info) = 1
  /\ \E n \in Nat : /\ n >= 12
                   /\ frame_info' = [frame_info EXCEPT ![1].byte_length = n]

AddsFrame ==
  /\ frame_info # <<>>
  /\ ~FirstFrameIsOpen
  /\ \E f \in FrameInfo :
       /\ frame_info' = Append(frame_info, f)
       /\ f.byte_length >= 12
       /\ f.start_offset >= frame_info[Len(frame_info)].start_offset
                              + frame_info[Len(frame_info)].byte_length

LEMMA ClosingReports ==
  ASSUME IInv, InMetadata, chunk.type \in {"fcTL", "IEND"},
         frame_info' = ClosedFrames
  PROVE  UNCHANGED frame_info \/ ClosesFirst \/ AddsFrame
<1>1. frame_info \in Seq(FrameInfo) /\ new_frame \in FrameInfo
  BY DEF IInv, TypeOK, RecordsOK
<1>2. CASE new_frame.start_offset = 0
  BY <1>2 DEF ClosedFrames
<1>3. CASE new_frame.start_offset # 0 /\ FirstFrameIsOpen
  BY <1>3, ClosedFacts, ClosedLengthBound DEF ClosesFirst
<1>4. CASE new_frame.start_offset # 0 /\ ~FirstFrameIsOpen
  <2> DEFINE last == Len(frame_info)
             f == [new_frame EXCEPT !.byte_length = ClosedLength]
  <2>1. /\ ClosedLength \in Nat /\ ClosedLength >= 12
        /\ frame_info # <<>>
    BY <1>4, ClosedLengthBound
  <2>2. frame_info' = Append(frame_info, f)
    BY <1>4, ClosedFacts
  <2>3. f \in FrameInfo /\ f.byte_length = ClosedLength
        /\ f.start_offset = new_frame.start_offset
    BY <1>1, <2>1 DEF FrameInfo
  <2>4. last \in DOMAIN frame_info
    BY <1>1, <2>1
  <2>5. frame_info[last].byte_length # kFirstFrameIndicator
    BY <1>1, <1>4, <2>1, <2>4
       DEF IInv, ReaderInv, LaterFramesClosed, FirstFrameIsOpen
  <2>6. /\ frame_info[last].start_offset + frame_info[last].byte_length
             <= new_frame.start_offset
        /\ frame_info[last].start_offset + frame_info[last].byte_length \in Nat
        /\ new_frame.start_offset \in Nat
    BY <1>1, <1>4, <2>4, <2>5, ClosedFrame DEF Unreported, FrameInfo
  <2> HIDE DEF f, last
  <2>7. f.start_offset >= frame_info[last].start_offset
                            + frame_info[last].byte_length
    BY <2>3, <2>6
  <2> QED
    BY <1>4, <2>1, <2>2, <2>3, <2>7 DEF AddsFrame, last
<1> QED
  BY <1>2, <1>3, <1>4

LEMMA FrameListStep ==
  ASSUME IInv, Next
  PROVE  \/ UNCHANGED <<frame_info, parse_completed, failed>>
         \/ /\ ~parse_completed /\ ~failed
            /\ UNCHANGED <<frame_info, parse_completed>> /\ failed' = TRUE
         \/ /\ ~parse_completed /\ ~failed
            /\ UNCHANGED failed /\ parse_completed' \in BOOLEAN
            /\ \/ UNCHANGED frame_info
               \/ OpensFirst
               \/ ClosesFirst
               \/ AddsFrame
<1> USE DEF input, header, animated, control, frames, decoder
<1>1. CallInv /\ RecordsOK /\ ScalarsOK
  BY DEF IInv, ReaderInv, TypeOK
<1>2. ASSUME \/ Receive
             \/ ImageIsHighBitDepth
             \/ \E q \in {"kSize", "kMetaData"} : BeginParse(q)
             \/ SizeIsKnown
             \/ AwaitHeader
             \/ ParseSignature /\ ~Fail
             \/ HeaderAcTL
             \/ HeaderFcTL
             \/ HeaderFdAT
             \/ HeaderLibpngChunk
             \/ HeaderIgnored
             \/ HeaderIDAT
             \/ AwaitChunk
             \/ SkipChunk
      PROVE  UNCHANGED <<frame_info, parse_completed, failed>>
  BY <1>2 DEF Receive, ImageIsHighBitDepth, BeginParse, SizeIsKnown,
              AwaitHeader, ParseSignature, HeaderAcTL, HeaderFcTL, HeaderFdAT, HeaderLibpngChunk,
              HeaderIgnored, HeaderIDAT, HeaderChunk, AwaitChunk, SkipChunk
<1>3. ASSUME ParseSize \/ ParseMetadata, Fail
      PROVE  /\ ~parse_completed /\ ~failed
             /\ UNCHANGED <<frame_info, parse_completed>> /\ failed' = TRUE
  <2>1. pc # "idle"
    BY <1>3 DEF ParseSize, SizeIsKnown, AwaitHeader, ParseSignature,
                HeaderLengthError, HeaderAcTL, HeaderFcTL, HeaderFdAT,
                HeaderLibpngChunk, HeaderLibpngError, HeaderIgnored,
                HeaderIDAT, HeaderSizeError, HeaderChunk, InHeader,
                ParseMetadata, AwaitChunk, MetadataLengthError, FrameData,
                AwaitSequenceNumber, AwaitFrameEnd, EndOfImage, NextFrame,
                SkipChunk, MetadataError, InMetadata
  <2> QED
    BY <1>1, <1>3, <2>1 DEF CallInv, Fail
<1>4. ASSUME FinishSize
      PROVE  /\ ~parse_completed /\ ~failed
             /\ UNCHANGED failed /\ parse_completed' \in BOOLEAN
             /\ UNCHANGED frame_info \/ OpensFirst
  <2>1. ~parse_completed /\ ~failed
    BY <1>1, <1>4 DEF CallInv, FinishSize
  <2>2. UNCHANGED failed /\ parse_completed' \in BOOLEAN
    BY <1>4, <2>1 DEF FinishSize, IInv, TypeOK, FlagsOK
  <2>3. CASE size_available /\ ~is_animated
    <3> DEFINE still == [start_offset |-> read_offset,
                         byte_length |-> kFirstFrameIndicator,
                         duration |-> 0,
                         frame_rect |-> ImageRect,
                         disposal_method |-> "kDisposeKeep",
                         alpha_blend |-> "kBlendAtopBgcolor"]
    <3>1. frame_info = <<>>
      BY <1>1, <2>1, <2>3 DEF CallInv
    <3>2. ImageRect \in Rect
      BY <1>1 DEF RecordsOK, ImageRect, Rect
    <3>3. still \in FrameInfo /\ still.byte_length = kFirstFrameIndicator
      BY <1>1, <3>2 DEF ScalarsOK, FrameInfo, kFirstFrameIndicator
    <3>4. frame_info' = Append(frame_info, still)
      BY <1>4, <2>3 DEF FinishSize
    <3>5. frame_info' = <<still>>
      BY <3>1, <3>4
    <3> QED
      BY <2>1, <2>2, <3>1, <3>3, <3>5 DEF OpensFirst
  <2>4. CASE ~(size_available /\ ~is_animated)
    BY <1>4, <2>1, <2>2, <2>4 DEF FinishSize
  <2> QED
    BY <2>3, <2>4
<1>5. ASSUME FrameData \/ AwaitSequenceNumber
      PROVE  /\ ~parse_completed /\ ~failed
             /\ UNCHANGED failed /\ parse_completed' \in BOOLEAN
             /\ UNCHANGED frame_info \/ OpensFirst
  <2>1. /\ StartFrame /\ InMetadata /\ chunk.type \in {"fdAT", "IDAT"}
        /\ UNCHANGED <<failed, parse_completed>>
    BY <1>5 DEF FrameData, AwaitSequenceNumber, CarriesFrameData
  <2>2. ~parse_completed /\ ~failed
    BY <1>1, <2>1 DEF CallInv, InMetadata
  <2>3. new_frame' \in FrameInfo
    BY <1>1, <2>1, StartFrameTyped
  <2>4. parse_completed' \in BOOLEAN
    BY <2>1 DEF IInv, TypeOK, FlagsOK
  <2>5. UNCHANGED frame_info \/ OpensFirst
    BY <2>1, <2>3, FrameDataFacts DEF OpensFirst
  <2> QED
    BY <2>1, <2>2, <2>4, <2>5
<1>6. ASSUME AwaitFrameEnd \/ EndOfImage \/ NextFrame
      PROVE  /\ ~parse_completed /\ ~failed
             /\ UNCHANGED failed /\ parse_completed' \in BOOLEAN
             /\ UNCHANGED frame_info \/ ClosesFirst \/ AddsFrame
  <2>1. /\ InMetadata /\ chunk.type \in {"fcTL", "IEND"}
        /\ frame_info' = ClosedFrames
        /\ UNCHANGED failed
        /\ UNCHANGED parse_completed \/ parse_completed' = TRUE
    BY <1>6 DEF AwaitFrameEnd, EndOfImage, NextFrame
  <2>2. ~parse_completed /\ ~failed
    BY <1>1, <2>1 DEF CallInv, InMetadata
  <2>3. parse_completed' \in BOOLEAN
    BY <2>1 DEF IInv, TypeOK, FlagsOK
  <2> QED
    BY <2>1, <2>2, <2>3, ClosingReports
<1>7. \/ (ParseSize \/ ParseMetadata) /\ Fail
      \/ \/ Receive
         \/ ImageIsHighBitDepth
         \/ \E q \in {"kSize", "kMetaData"} : BeginParse(q)
         \/ SizeIsKnown
         \/ AwaitHeader
         \/ ParseSignature /\ ~Fail
         \/ HeaderAcTL
         \/ HeaderFcTL
         \/ HeaderFdAT
         \/ HeaderLibpngChunk
         \/ HeaderIgnored
         \/ HeaderIDAT
         \/ AwaitChunk
         \/ SkipChunk
      \/ FinishSize
      \/ FrameData \/ AwaitSequenceNumber
      \/ AwaitFrameEnd \/ EndOfImage \/ NextFrame
  BY DEF Next, ParseSize, ParseMetadata, HeaderLengthError,
         HeaderLibpngError, HeaderSizeError, MetadataLengthError,
         MetadataError
<1> QED
  BY <1>2, <1>3, <1>4, <1>5, <1>6, <1>7, Zenon

LEMMA LaterFramesStayClosed ==
  ASSUME IInv, UNCHANGED frame_info \/ OpensFirst \/ ClosesFirst \/ AddsFrame
  PROVE  LaterFramesClosed'
<1>1. LaterFramesClosed /\ frame_info \in Seq(FrameInfo)
  BY DEF IInv, ReaderInv, TypeOK, RecordsOK
<1>2. CASE UNCHANGED frame_info
  BY <1>1, <1>2 DEF LaterFramesClosed
<1>3. CASE OpensFirst
  BY <1>3 DEF OpensFirst, LaterFramesClosed
<1>4. CASE ClosesFirst
  BY <1>1, <1>4 DEF ClosesFirst, LaterFramesClosed
<1>5. CASE AddsFrame
  <2>1. PICK f \in FrameInfo : /\ frame_info' = Append(frame_info, f)
                              /\ f.byte_length >= 12
    BY <1>5 DEF AddsFrame
  <2>2. f.byte_length # kFirstFrameIndicator
    BY <2>1 DEF kFirstFrameIndicator
  <2>3. ASSUME NEW i \in DOMAIN frame_info', i > 1
        PROVE  frame_info'[i].byte_length # kFirstFrameIndicator
    <3>1. CASE i \in DOMAIN frame_info
      BY <1>1, <2>1, <2>3, <3>1 DEF LaterFramesClosed
    <3>2. CASE i \notin DOMAIN frame_info
      BY <1>1, <2>1, <2>2, <3>2
    <3> QED
      BY <3>1, <3>2
  <2> QED
    BY <2>3 DEF LaterFramesClosed
<1> QED
  BY <1>2, <1>3, <1>4, <1>5

LEMMA InitInvariant == Init => IInv
<1> SUFFICES ASSUME Init PROVE IInv
  OBVIOUS
<1>1. TypeOK
  BY InitType
<1>2. CallInv
  BY DEF Init, CallInv
<1>3. ConstructionInv
  BY DEF Init, ConstructionInv, FirstFrameIsOpen
<1>4. ClosedInv
  BY DEF Init, ClosedInv
<1>5. CountInv
  BY DEF Init, CountInv
<1>6. LaterFramesClosed
  BY DEF Init, LaterFramesClosed
<1> QED
  BY <1>1, <1>2, <1>3, <1>4, <1>5, <1>6 DEF IInv, ReaderInv

LEMMA StutterInvariant ==
  ASSUME IInv, UNCHANGED vars
  PROVE  IInv'
<1> USE DEF vars, input, header, animated, control, frames, decoder
<1>1. InputOK'
  BY DEF IInv, TypeOK, InputOK, IsFile
<1>2. FlagsOK'
  BY DEF IInv, TypeOK, FlagsOK
<1>3. ScalarsOK'
  BY DEF IInv, TypeOK, ScalarsOK
<1>4. RecordsOK'
  BY DEF IInv, TypeOK, RecordsOK
<1>5. StandsAtChunk'
  BY DEF IInv, TypeOK, StandsAtChunk
<1>6. CallInv'
  BY DEF IInv, ReaderInv, CallInv
<1>7. ConstructionInv' /\ ClosedInv' /\ CountInv'
  BY QuietStep DEF IInv, FrameVars
<1>8. LaterFramesClosed'
  BY DEF IInv, ReaderInv, LaterFramesClosed
<1> QED
  BY <1>1, <1>2, <1>3, <1>4, <1>5, <1>6, <1>7, <1>8
     DEF IInv, TypeOK, ReaderInv

(* A step of the parser, or none, keeps the inductive invariant.           *)
LEMMA StepInvariant ==
  ASSUME IInv, [Next]_vars
  PROVE  IInv'
<1>1. CASE Next
  <2>1. TypeOK' /\ CallInv'
    BY <1>1, StepType, StepCall
  <2>2. ConstructionInv' /\ ClosedInv' /\ CountInv'
    BY <1>1, <2>1, StepReader
  <2>3. LaterFramesClosed'
    BY <1>1, FrameListStep, LaterFramesStayClosed
  <2> QED
    BY <2>1, <2>2, <2>3 DEF IInv, ReaderInv
<1>2. CASE UNCHANGED vars
  BY <1>2, StutterInvariant
<1> QED
  BY <1>1, <1>2

(* The inductive invariant holds in every reachable state.                 *)
THEOREM Invariant == Spec => []IInv
<1>1. Init => IInv
  BY InitInvariant
<1>2. IInv /\ [Next]_vars => IInv'
  BY StepInvariant
<1> QED
  BY <1>1, <1>2, PTL DEF Spec

(* Whatever the files and however their bytes arrive, every field keeps    *)
(* its type and Parse stands at a chunk boundary.                          *)
THEOREM TypeCorrect == Spec => []TypeOK
<1>1. IInv => TypeOK
  BY DEF IInv
<1> QED
  BY <1>1, Invariant, PTL

(* The frame under construction, the closed ones and their number are      *)
(* those of the chunks behind read_offset; no length of a closed frame is  *)
(* mistaken for kFirstFrameIndicator (Parse, FrameInfo::byte_length).      *)
THEOREM ConstructionIsSound == Spec => []ReaderInv
<1>1. IInv => ReaderInv
  BY DEF IInv
<1> QED
  BY <1>1, Invariant, PTL

(* Parse never reports more frames than acTL announced, and completes an   *)
(* animation of several frames with exactly that many.                     *)
THEOREM FrameCountIsWithinActl == Spec => []FrameCountWithinActl
<1>1. IInv => FrameCountWithinActl
  <2> SUFFICES ASSUME IInv, Animating PROVE FrameCountWithinActl
    BY DEF FrameCountWithinActl
  <2>1. CountInv /\ ConstructionInv /\ is_animated
    BY DEF IInv, ReaderInv, Animating
  <2> QED
    BY <2>1 DEF CountInv, ConstructionInv, FrameCountWithinActl
<1> QED
  BY <1>1, Invariant, PTL

(* When the parse of an animation completes, no frame is left open.        *)
THEOREM CompletionClosesFrames == Spec => []CompletedFramesAreClosed
<1>1. IInv => CompletedFramesAreClosed
  BY DEF IInv, ReaderInv, ConstructionInv, Animating, CompletedFramesAreClosed
<1> QED
  BY <1>1, Invariant, PTL

(* Parse implements FrameCatalogue: for the decoder, which uses the frames *)
(* between the calls, the list only grows, a frame once reported changes   *)
(* only when the first is given its length, and nothing changes after the  *)
(* end.                                                                    *)
THEOREM ReaderImplementsCatalogue == Spec => ImplementsCatalogue
<1>1. Init => Catalogue!Init
  BY DEF Init, Catalogue!Init
<1>2. IInv /\ [Next]_vars => [Catalogue!Next]_(Catalogue!vars)
  <2> SUFFICES ASSUME IInv, [Next]_vars
               PROVE  [Catalogue!Next]_(Catalogue!vars)
    OBVIOUS
  <2>1. CASE UNCHANGED vars
    BY <2>1 DEF vars, frames, Catalogue!vars
  <2>2. CASE UNCHANGED <<frame_info, parse_completed, failed>>
    BY <2>2 DEF Catalogue!vars
  <2>3. CASE /\ ~parse_completed /\ ~failed
             /\ UNCHANGED <<frame_info, parse_completed>> /\ failed' = TRUE
    BY <2>3 DEF Catalogue!Next, Catalogue!Fail
  <2>4. CASE /\ ~parse_completed /\ ~failed
             /\ UNCHANGED failed /\ parse_completed' \in BOOLEAN
             /\ UNCHANGED frame_info \/ OpensFirst \/ ClosesFirst \/ AddsFrame
    <3>1. frame_info \in Seq(FrameInfo)
      BY DEF IInv, TypeOK, RecordsOK
    <3>2. OpensFirst => Catalogue!OpenFirst
      BY DEF OpensFirst, Catalogue!OpenFirst, Catalogue!Newest,
             Catalogue!Grows
    <3>3. ClosesFirst => Catalogue!CloseFirst
      <4> SUFFICES ASSUME ClosesFirst PROVE Catalogue!CloseFirst
        OBVIOUS
      <4>1. PICK n \in Nat :
               /\ n >= 12
               /\ frame_info' = [frame_info EXCEPT ![1].byte_length = n]
        BY DEF ClosesFirst
      <4>2. frame_info # <<>> /\ frame_info[1] \in FrameInfo
        BY <3>1 DEF ClosesFirst, FirstFrameIsOpen
      <4>3. frame_info' # <<>> /\ frame_info'[1].byte_length = n
        BY <3>1, <4>1, <4>2 DEF FrameInfo
      <4> QED
        BY <4>1, <4>3
           DEF ClosesFirst, FirstFrameIsOpen, kFirstFrameIndicator,
               Catalogue!CloseFirst, Catalogue!FirstIsOpen
    <3>4. AddsFrame => Catalogue!Add
      <4> SUFFICES ASSUME AddsFrame PROVE Catalogue!Add
        OBVIOUS
      <4>1. PICK f \in FrameInfo :
               /\ frame_info' = Append(frame_info, f)
               /\ f.byte_length >= 12
               /\ f.start_offset >= frame_info[Len(frame_info)].start_offset
                                      + frame_info[Len(frame_info)].byte_length
        BY DEF AddsFrame
      <4>2. Catalogue!Newest = f /\ frame_info' # <<>>
        BY <3>1, <4>1 DEF Catalogue!Newest
      <4>3. f.byte_length # kFirstFrameIndicator
        BY <4>1 DEF kFirstFrameIndicator
      <4> QED
        BY <4>1, <4>2, <4>3
           DEF AddsFrame, FirstFrameIsOpen, Catalogue!Add, Catalogue!Grows,
               Catalogue!FirstIsOpen
    <3> QED
      BY <2>4, <3>2, <3>3, <3>4 DEF Catalogue!Next, Catalogue!Report
  <2> QED
    BY <2>1, <2>2, <2>3, <2>4, FrameListStep
<1> QED
  BY <1>1, <1>2, Invariant, PTL
     DEF Spec, ImplementsCatalogue, Catalogue!Spec

=============================================================================
