------------------------- MODULE PngDecoder_proofs -------------------------
(***************************************************************************)
(* What holds of PngImageDecoder, composed with its parser, for every set  *)
(* of files, however their bytes arrive and whatever frames are asked for. *)
(***************************************************************************)
EXTENDS PngDecoder, PngReaderFrames_proofs, SequenceTheorems, InductionLemmas

(* Where image data begins that the parser has met, and where it ends.     *)
Begun(o) == o \in DOMAIN file.chunk /\ o + 8 <= received /\ ~EndsFrame(o)
Ended(o) == o \in DOMAIN file.chunk /\ o + 8 <= received /\ EndsFrame(o)

(* The registered frames as the decoder uses them: each begins at a chunk, *)
(* and unless it is open it ends at the chunk that closed it; the headers  *)
(* of both are here.                                                       *)
RegisteredInv ==
  /\ frame_info # <<>> => size_available
  /\ frame_info # <<>> /\ ~is_animated =>
       /\ Len(frame_info) = 1
       /\ frame_info[1].start_offset = idat_offset
       /\ frame_info[1].frame_rect = ImageRect
  /\ is_animated =>
       /\ new_frame.start_offset # 0 => Begun(new_frame.start_offset)
       /\ \A i \in DOMAIN frame_info :
            /\ Begun(frame_info[i].start_offset)
            /\ frame_info[i].byte_length # kFirstFrameIndicator
                 => Ended(frame_info[i].start_offset
                            + frame_info[i].byte_length)
  /\ size_available /\ ~is_animated => read_offset = idat_offset

(* What the decoder relies on of the parser.                               *)
ParserInv == IInv /\ DataInv /\ DepthInv /\ RegisteredInv

(* What a step does to it from outside: the frames registered before keep  *)
(* all but the length of the first.                                        *)
SameFrame(f, g) ==
  /\ f.frame_rect = g.frame_rect
  /\ f.disposal_method = g.disposal_method
  /\ f.alpha_blend = g.alpha_blend
  /\ f.start_offset = g.start_offset

FramesKept ==
  /\ Len(frame_info) <= Len(frame_info')
  /\ \A i \in DOMAIN frame_info :
       /\ i \in DOMAIN frame_info'
       /\ SameFrame(frame_info[i], frame_info'[i])
       /\ frame_info[i].byte_length # kFirstFrameIndicator
            => frame_info'[i] = frame_info[i]

SizeVars == <<size_available, ihdr, idat_offset, is_animated,
              decode_to_half_float>>

ParserKept ==
  /\ UNCHANGED file
  /\ received <= received'
  /\ size_available => UNCHANGED SizeVars
  /\ FramesKept

(* The decoder's steps are steps of the parser, or fail outside of it.     *)
LEMMA ReaderMoves ==
  ASSUME [DecoderNext]_allvars
  PROVE  [Next]_vars \/ Fail
<1>1. UNCHANGED reader => UNCHANGED vars
  BY DEF reader
<1>2. CASE UNCHANGED allvars
  BY <1>1, <1>2 DEF allvars
<1>3. CASE SetData
  BY <1>1, <1>3 DEF SetData, Next
<1>4. ASSUME NEW q \in {"kSize", "kMetaData"}, CallParse(q) PROVE [Next]_vars
  BY <1>1, <1>4 DEF CallParse, Next
<1>5. CASE \/ AskSize \/ AskHighBitDepth
          \/ \E i \in 1 .. MaxFrames : AskFrame(i)
  BY <1>4, <1>5 DEF AskSize, AskHighBitDepth, AskFrame, Next
<1>6. CASE Parsing
  BY <1>6 DEF Parsing, ParseStep, Next
<1>7. CASE GrowCache
  <2>1. UNCHANGED reader \/ CallParse("kMetaData")
    BY <1>7 DEF GrowCache
  <2> QED
    BY <1>1, <1>4, <2>1
<1>8. ASSUME LoseReader PROVE Fail
  BY <1>8 DEF LoseReader
<1>9. ASSUME EndFrame PROVE UNCHANGED reader \/ Fail
  BY <1>8, <1>9 DEF EndFrame, DecodeFails
<1>10. CASE \/ StillImage \/ FirstFrameEnds \/ ProgressiveChunk \/ WholeChunk
            \/ WholeFrameEnds \/ FinishDecode
  <2>1. CASE StillImage
    <3> DEFINE start == frame_info[1].start_offset + progressive_decode_offset
               end == IF received > start THEN received ELSE start
               Ends == {o \in StillChunks :
                           LET e == o + 12 + file.chunk[o].length
                           IN start < e /\ e <= end}
               Data == {o \in StillChunks : file.chunk[o].type = "IDAT"}
               s == RowStateAfter(Head(todo),
                                  {b \in UNION {Payload(o) : o \in Data} :
                                     start <= b /\ b < end},
                                  FALSE)
               ended == \E o \in Ends : file.chunk[o].type = "IEND"
    <3>1. FeedFails(s) \/ UNCHANGED reader
      <4> HIDE DEF s, ended, Ends
      <4> QED
        BY <2>1 DEF StillImage, s, ended, Ends
    <3> QED
      BY <1>1, <1>8, <3>1 DEF FeedFails
  <2>2. CASE FirstFrameEnds \/ WholeFrameEnds
    BY <1>1, <1>9, <2>2 DEF FirstFrameEnds, WholeFrameEnds
  <2>3. CASE ProgressiveChunk
    <3>1. UNCHANGED reader \/ \E s : FeedFails(s)
      BY <2>3 DEF ProgressiveChunk
    <3> QED
      BY <1>1, <1>8, <3>1 DEF FeedFails
  <2>4. CASE WholeChunk
    <3>1. UNCHANGED reader \/ \E s : FeedFails(s)
      BY <2>4 DEF WholeChunk
    <3> QED
      BY <1>1, <1>8, <3>1 DEF FeedFails
  <2>5. CASE FinishDecode
    BY <1>1, <1>8, <2>5 DEF FinishDecode, DecodeFails
  <2> QED
    BY <1>10, <2>1, <2>2, <2>3, <2>4, <2>5
<1>11. CASE \/ SizeAnswered \/ Decode \/ BeginFrame \/ SkipDecodedChunk
            \/ AwaitFrameData \/ PostDecodeProcessing
            \/ \E keep \in 0 .. MaxFrames : Purge(keep)
  <2>1. UNCHANGED reader
    BY <1>11 DEF SizeAnswered, Decode, BeginFrame, SkipDecodedChunk,
                 AwaitFrameData, PostDecodeProcessing, Purge
  <2> QED
    BY <1>1, <2>1
<1> QED
  BY <1>2, <1>3, <1>5, <1>6, <1>7, <1>10, <1>11 DEF DecoderNext, CallStep

LEMMA BoundaryKept ==
  ASSUME IInv, UNCHANGED file, received \in Nat, received' \in Nat,
         received <= received', NEW o
  PROVE  /\ Begun(o) => Begun(o)'
         /\ Ended(o) => Ended(o)'
<1>1. \A p \in DOMAIN file.chunk : p \in Nat
  BY DEF IInv, TypeOK, InputOK, IsFile
<1> QED
  BY <1>1 DEF Begun, Ended, EndsFrame

(* Steps that register nothing.                                            *)
LEMMA RegisteredKept ==
  ASSUME ParserInv, UNCHANGED <<file, frame_info>>,
         received \in Nat, received' \in Nat, received <= received',
         UNCHANGED <<size_available, is_animated, idat_offset, ihdr>>,
         new_frame'.start_offset \in {0, new_frame.start_offset},
         is_animated \/ UNCHANGED read_offset
  PROVE  RegisteredInv'
<1>1. \A o : (Begun(o) => Begun(o)') /\ (Ended(o) => Ended(o)')
  BY BoundaryKept DEF ParserInv
<1> QED
  BY <1>1 DEF ParserInv, RegisteredInv, ImageRect

LEMMA ReceivedGrows ==
  ASSUME IInv, IInv', [Next]_vars \/ Fail
  PROVE  /\ UNCHANGED file
         /\ received \in Nat /\ received' \in Nat /\ received <= received'
<1> USE DEF input, header, animated, control, decoder, frames
<1>1. received \in Nat /\ received' \in Nat
  BY DEF IInv, TypeOK, InputOK, IsFile
<1>2. CASE Receive
  BY <1>1, <1>2 DEF Receive, IInv, TypeOK, InputOK, IsFile
<1>3. CASE UNCHANGED input
  BY <1>1, <1>3
<1>4. Receive \/ UNCHANGED input
  BY Zenon DEF vars, Next, BeginParse, ImageIsHighBitDepth, ParseSize, ParseMetadata, Fail, SizeIsKnown,
     AwaitHeader, ParseSignature, HeaderLengthError, HeaderAcTL, HeaderFcTL,
     HeaderFdAT, HeaderLibpngChunk, HeaderLibpngError, HeaderIgnored,
     HeaderIDAT, HeaderSizeError, HeaderChunk, FinishSize, AwaitChunk,
     MetadataLengthError, FrameData, AwaitSequenceNumber, AwaitFrameEnd,
     EndOfImage, NextFrame, SkipChunk, MetadataError
<1> QED
  BY <1>1, <1>2, <1>3, <1>4

(* The parser reads the chunk at read_offset, whose header is here.        *)
LEMMA ReadBoundary ==
  ASSUME IInv, InMetadata
  PROVE  /\ EndsFrame(read_offset) => Ended(read_offset)
         /\ ~EndsFrame(read_offset) => Begun(read_offset)
         /\ EndsFrame(read_offset) <=> chunk.type \in {"fcTL", "IEND"}
<1>1. read_offset \in DOMAIN file.chunk /\ read_offset + 8 <= received
  <2>1. received <= file.size /\ read_offset + 8 <= received
        /\ received \in Nat /\ file.size \in Nat /\ read_offset \in Nat
    BY DEF IInv, TypeOK, InputOK, ScalarsOK, IsFile, InMetadata, HeaderArrived
  <2>2. parsed_signature
    BY InMetadataTyped DEF IInv
  <2> QED
    BY <2>1, <2>2 DEF IInv, TypeOK, StandsAtChunk
<1> QED
  BY <1>1 DEF Begun, Ended, EndsFrame, chunk

(* A frame begins, or goes on.                                             *)
LEMMA BeginningRegistered ==
  ASSUME ParserInv, IInv', FrameData \/ AwaitSequenceNumber
  PROVE  RegisteredInv'
<1> USE DEF input, header, animated, decoder
<1>1. /\ InMetadata /\ StartFrame /\ chunk.type \in {"fdAT", "IDAT"}
      /\ UNCHANGED <<file, received, is_animated, size_available, idat_offset,
                     ihdr>>
  BY DEF FrameData, AwaitSequenceNumber, CarriesFrameData
<1>2. /\ IInv /\ DataInv /\ RegisteredInv
      /\ size_available /\ is_animated
  BY <1>1, InMetadataData DEF ParserInv
<1>3. Begun(read_offset)
  BY <1>1, <1>2, ReadBoundary
<1>4. /\ received \in Nat /\ received' \in Nat /\ received <= received'
  BY <1>1, <1>2 DEF IInv, TypeOK, InputOK, IsFile
<1>5. \A o : (Begun(o) => Begun(o)') /\ (Ended(o) => Ended(o)')
  BY <1>1, <1>2, <1>4, BoundaryKept
<1>6. CASE UNCHANGED <<new_frame, frame_info>>
  BY <1>1, <1>2, <1>5, <1>6 DEF RegisteredInv
<1>7. CASE /\ frame_info = <<>>
           /\ frame_info' = <<new_frame'>>
           /\ new_frame'.byte_length = kFirstFrameIndicator
           /\ new_frame'.start_offset = read_offset
  <2>1. DOMAIN frame_info' = {1} /\ frame_info'[1] = new_frame'
    BY <1>7
  <2> QED
    BY <1>1, <1>2, <1>3, <1>5, <1>7, <2>1 DEF RegisteredInv
<1>8. CASE /\ frame_info # <<>>
           /\ frame_info' = frame_info
           /\ new_frame'.start_offset = read_offset
  BY <1>1, <1>2, <1>3, <1>5, <1>8 DEF RegisteredInv
<1> QED
  BY <1>1, <1>2, <1>6, <1>7, <1>8, FrameDataFacts

(* A frame is closed.                                                      *)
LEMMA ClosingRegistered ==
  ASSUME ParserInv, IInv', AwaitFrameEnd \/ EndOfImage \/ NextFrame
  PROVE  RegisteredInv'
<1> USE DEF input, header, animated, decoder
<1>1. /\ InMetadata /\ chunk.type \in {"fcTL", "IEND"}
      /\ frame_info' = ClosedFrames
      /\ UNCHANGED <<file, received, is_animated, size_available, idat_offset,
                     ihdr>>
  BY DEF AwaitFrameEnd, EndOfImage, NextFrame
<1>2. /\ IInv /\ DataInv /\ RegisteredInv /\ chunk \in Chunk
      /\ size_available /\ is_animated
  BY <1>1, InMetadataData DEF ParserInv
<1>3. Ended(read_offset)
  BY <1>1, <1>2, ReadBoundary
<1>4. /\ received \in Nat /\ received' \in Nat /\ received <= received'
  BY <1>1, <1>2 DEF IInv, TypeOK, InputOK, IsFile
<1>5. \A o : (Begun(o) => Begun(o)') /\ (Ended(o) => Ended(o)')
  BY <1>1, <1>2, <1>4, BoundaryKept
<1>6. new_frame'.start_offset = 0
  <2>1. ClosedNewFrame \in FrameInfo /\ ClosedNewFrame.start_offset = 0
    BY <1>1, <1>2, ClosedTyped
  <2>2. new_frame' = ClosedNewFrame \/ new_frame' = WithControl(ClosedNewFrame, chunk)
    BY DEF AwaitFrameEnd, EndOfImage, NextFrame
  <2> QED
    BY <1>2, <2>1, <2>2, WithControlTyped
<1>7. \A i \in DOMAIN frame_info' :
        /\ Begun(frame_info'[i].start_offset)
        /\ frame_info'[i].byte_length # kFirstFrameIndicator
             => Ended(frame_info'[i].start_offset + frame_info'[i].byte_length)
  <2>1. frame_info \in Seq(FrameInfo) /\ new_frame \in FrameInfo
    BY <1>2 DEF IInv, TypeOK, RecordsOK
  <2>2. CASE ClosedFrames = frame_info
    BY <1>1, <1>2, <2>2 DEF RegisteredInv
  <2>3. CASE new_frame.start_offset # 0
    <3>1. /\ Begun(new_frame.start_offset) /\ ClosedLength \in Nat
          /\ new_frame.start_offset + ClosedLength = read_offset
          /\ frame_info # <<>>
      BY <1>1, <1>2, <2>3, ClosedLengthBound DEF RegisteredInv
    <3>2. CASE FirstFrameIsOpen
      <4>1. /\ Len(frame_info) = 1
            /\ frame_info[1].start_offset = new_frame.start_offset
            /\ Len(ClosedFrames) = 1
            /\ ClosedFrames = [frame_info EXCEPT ![1].byte_length = ClosedLength]
            /\ ClosedFrames[1].start_offset = new_frame.start_offset
            /\ ClosedFrames[1].byte_length = ClosedLength
        BY <1>1, <1>2, <2>3, <3>2, ClosedFacts
      <4>2. DOMAIN frame_info' = {1}
        BY <1>1, <2>1, <4>1
      <4> QED
        BY <1>1, <1>3, <3>1, <4>1, <4>2
    <3>3. CASE ~FirstFrameIsOpen
      <4> DEFINE closed == [new_frame EXCEPT !.byte_length = ClosedLength]
      <4>1. frame_info' = Append(frame_info, closed)
        BY <1>1, <2>3, <3>1, <3>3
           DEF ClosedFrames, ClosingAppends, FirstFrameIsOpen
      <4>2. /\ closed.start_offset = new_frame.start_offset
            /\ closed.byte_length = ClosedLength
        BY <2>1 DEF FrameInfo
      <4> HIDE DEF closed
      <4>3. ASSUME NEW i \in DOMAIN frame_info'
            PROVE  (i \in DOMAIN frame_info /\ frame_info'[i] = frame_info[i])
                   \/ frame_info'[i] = closed
        BY <2>1, <4>1
      <4> QED
        BY <1>2, <1>3, <3>1, <4>2, <4>3 DEF RegisteredInv
    <3> QED
      BY <3>2, <3>3
  <2>4. CASE new_frame.start_offset = 0
    BY <1>1, <1>2, <2>2, <2>4, ClosedFacts
  <2> QED
    BY <2>3, <2>4
<1>8. frame_info' # <<>> => frame_info # <<>>
  <2>1. CASE new_frame.start_offset # 0
    BY <1>1, <1>2, <2>1, ClosedLengthBound
  <2>2. CASE new_frame.start_offset = 0
    BY <1>1, <2>2 DEF ClosedFrames
  <2> QED
    BY <2>1, <2>2
<1> QED
  BY <1>1, <1>2, <1>5, <1>6, <1>7, <1>8 DEF RegisteredInv

(* What the decoder relies on is inductive.                                *)
LEMMA RegisteredStep ==
  ASSUME ParserInv, IInv', [Next]_vars \/ Fail
  PROVE  RegisteredInv'
<1> USE DEF input, header, animated, control, decoder, frames
<1>1. /\ IInv /\ DataInv /\ RegisteredInv
      /\ UNCHANGED file
      /\ received \in Nat /\ received' \in Nat /\ received <= received'
  BY ReceivedGrows DEF ParserInv
<1>2. CASE \/ Receive
           \/ \E q \in {"kSize", "kMetaData"} : BeginParse(q)
           \/ ImageIsHighBitDepth
           \/ Fail
           \/ SizeIsKnown
           \/ AwaitHeader
           \/ AwaitChunk
           \/ UNCHANGED vars
  <2>1. UNCHANGED <<frame_info, size_available, is_animated, idat_offset, ihdr,
                    new_frame, read_offset>>
    BY <1>2 DEF vars, Receive, BeginParse, ImageIsHighBitDepth, Fail,
                SizeIsKnown, AwaitHeader, AwaitChunk
  <2> QED
    BY <1>1, <2>1, RegisteredKept
<1>3. CASE SkipChunk
  <2>1. UNCHANGED <<frame_info, size_available, is_animated, idat_offset, ihdr,
                    new_frame>>
    BY <1>3 DEF SkipChunk
  <2>2. is_animated
    BY <1>1, <1>3, InMetadataData DEF SkipChunk
  <2> QED
    BY <1>1, <2>1, <2>2, RegisteredKept
<1>4. CASE \/ (ParseSignature /\ ~Fail)
           \/ HeaderAcTL \/ HeaderFcTL \/ HeaderFdAT
           \/ HeaderLibpngChunk \/ HeaderIgnored
  <2>1. /\ ~size_available /\ pc = "size"
        /\ UNCHANGED <<frame_info, size_available>>
    BY <1>4 DEF ParseSignature, HeaderAcTL, HeaderFcTL, HeaderFdAT,
                HeaderLibpngChunk, HeaderIgnored, HeaderChunk, InHeader
  <2>2. frame_info = <<>>
    BY <1>1, <2>1, HeaderHasNoFrames
  <2>3. new_frame'.start_offset # 0 => size_available'
    BY DEF IInv, ReaderInv, ConstructionInv
  <2> QED
    BY <2>1, <2>2, <2>3 DEF RegisteredInv
<1>5. CASE HeaderIDAT
  <2>1. /\ ~size_available /\ pc = "size"
        /\ UNCHANGED <<frame_info, new_frame, read_offset>>
        /\ idat_offset' = read_offset /\ size_available'
    BY <1>5 DEF HeaderIDAT, InHeader
  <2>2. frame_info = <<>> /\ new_frame.start_offset = 0
    BY <1>1, <2>1, HeaderHasNoFrames
  <2> QED
    BY <2>1, <2>2 DEF RegisteredInv
<1>6. CASE FinishSize
  <2>1. UNCHANGED <<size_available, is_animated, idat_offset, ihdr, new_frame,
                    read_offset>>
    BY <1>6 DEF FinishSize
  <2>2. CASE size_available /\ ~is_animated
    <3>1. ~parse_completed /\ frame_info = <<>>
      BY <1>1, <1>6, <2>2 DEF FinishSize, IInv, ReaderInv, CallInv
    <3>2. /\ Len(frame_info') = 1
          /\ frame_info'[1].start_offset = read_offset
          /\ frame_info'[1].frame_rect = ImageRect
      BY <1>6, <2>2, <3>1 DEF FinishSize
    <3> QED
      BY <1>1, <2>1, <2>2, <3>2 DEF RegisteredInv, ImageRect
  <2>3. CASE ~(size_available /\ ~is_animated)
    <3>1. UNCHANGED frame_info
      BY <1>6, <2>3 DEF FinishSize
    <3> QED
      BY <1>1, <2>1, <3>1, RegisteredKept
  <2> QED
    BY <2>2, <2>3
<1>7. CASE FrameData \/ AwaitSequenceNumber
  BY <1>7, BeginningRegistered
<1>8. CASE AwaitFrameEnd \/ EndOfImage \/ NextFrame
  BY <1>8, ClosingRegistered
<1>9. \/ Receive
      \/ \E q \in {"kSize", "kMetaData"} : BeginParse(q)
      \/ ImageIsHighBitDepth
      \/ Fail \/ SizeIsKnown \/ AwaitHeader \/ AwaitChunk \/ UNCHANGED vars
      \/ FinishSize \/ (ParseSignature /\ ~Fail)
      \/ HeaderAcTL \/ HeaderFcTL \/ HeaderFdAT
      \/ HeaderLibpngChunk \/ HeaderIgnored
      \/ HeaderIDAT \/ FrameData \/ AwaitSequenceNumber \/ SkipChunk
      \/ AwaitFrameEnd \/ EndOfImage \/ NextFrame
  BY DEF Next, ParseSize, ParseMetadata, HeaderLengthError,
         HeaderLibpngError, HeaderSizeError, MetadataLengthError,
         MetadataError
<1> QED
  BY <1>2, <1>3, <1>4, <1>5, <1>6, <1>7, <1>8, <1>9, Zenon

(* A failure outside of the parser leaves the rest of it as it is.         *)
LEMMA FailKeeps ==
  ASSUME IInv, DataInv, DepthInv, Fail
  PROVE  IInv' /\ DataInv' /\ DepthInv'
<1> USE DEF Fail, input, header, animated, control, decoder, frames
<1>1. InputOK' /\ FlagsOK' /\ ScalarsOK' /\ RecordsOK' /\ StandsAtChunk'
  BY DEF IInv, TypeOK, InputOK, IsFile, FlagsOK, ScalarsOK, RecordsOK,
         StandsAtChunk
<1>2. CallInv'
  BY DEF IInv, ReaderInv, CallInv
<1>3. ConstructionInv' /\ ClosedInv' /\ CountInv'
  BY QuietStep DEF IInv, FrameVars
<1>4. LaterFramesClosed'
  BY DEF IInv, ReaderInv, LaterFramesClosed
<1>5. DataInv'
  BY QuietDataStep DEF DataVars
<1>6. DepthInv'
  BY DEF DepthInv, HalfFloatOnlyForOneImage
<1> QED
  BY <1>1, <1>2, <1>3, <1>4, <1>5, <1>6 DEF IInv, TypeOK, ReaderInv

(* The size, once known, and what is known with it do not change.          *)
LEMMA SizeKept ==
  ASSUME IInv, DepthInv, [Next]_vars \/ Fail, size_available
  PROVE  UNCHANGED SizeVars
<1> USE DEF input, header, animated, control, decoder, frames, SizeVars
<1>1. ASSUME \/ Receive
             \/ \E q \in {"kSize", "kMetaData"} : BeginParse(q)
             \/ Fail \/ SizeIsKnown \/ FinishSize \/ AwaitChunk
             \/ FrameData \/ AwaitSequenceNumber \/ AwaitFrameEnd
             \/ EndOfImage \/ NextFrame \/ SkipChunk \/ UNCHANGED vars
      PROVE  UNCHANGED SizeVars
  BY <1>1 DEF vars, Receive, BeginParse, Fail, SizeIsKnown, FinishSize, AwaitChunk,
     FrameData, AwaitSequenceNumber, AwaitFrameEnd, EndOfImage, NextFrame,
     SkipChunk
<1>2. ~(\/ AwaitHeader \/ ParseSignature \/ HeaderAcTL \/ HeaderFcTL
        \/ HeaderFdAT \/ HeaderLibpngChunk \/ HeaderIgnored \/ HeaderIDAT)
  BY DEF AwaitHeader, ParseSignature, HeaderAcTL, HeaderFcTL, HeaderFdAT,
         HeaderLibpngChunk, HeaderIgnored, HeaderIDAT, HeaderChunk, InHeader
<1>3. ImageIsHighBitDepth => UNCHANGED SizeVars
  BY DepthAsked
<1> QED
  BY <1>1, <1>2, <1>3, Zenon
     DEF Next, ParseSize, ParseMetadata, HeaderLengthError, HeaderLibpngError,
         HeaderSizeError, MetadataLengthError, MetadataError

LEMMA FrameListKept ==
  ASSUME IInv, [Next]_vars \/ Fail
  PROVE  FramesKept
<1>1. frame_info \in Seq(FrameInfo) /\ Len(frame_info) \in Nat
  BY DEF IInv, TypeOK, RecordsOK
<1>2. CASE UNCHANGED frame_info
  BY <1>1, <1>2 DEF FramesKept, SameFrame
<1>3. CASE OpensFirst
  BY <1>1, <1>3 DEF OpensFirst, FramesKept
<1>4. CASE ClosesFirst
  <2>1. PICK n \in Nat : frame_info' = [frame_info EXCEPT ![1].byte_length = n]
    BY <1>4 DEF ClosesFirst
  <2>2. /\ Len(frame_info) = 1 /\ frame_info[1] \in FrameInfo
        /\ frame_info[1].byte_length = kFirstFrameIndicator
    BY <1>1, <1>4 DEF ClosesFirst, FirstFrameIsOpen
  <2>3. /\ Len(frame_info') = 1 /\ DOMAIN frame_info = {1}
        /\ DOMAIN frame_info' = {1}
        /\ frame_info'[1] = [frame_info[1] EXCEPT !.byte_length = n]
    BY <1>1, <2>1, <2>2
  <2>4. SameFrame(frame_info[1], frame_info'[1])
    BY <2>2, <2>3 DEF SameFrame, FrameInfo
  <2> QED
    BY <2>2, <2>3, <2>4 DEF FramesKept
<1>5. CASE AddsFrame
  <2>1. PICK f \in FrameInfo : frame_info' = Append(frame_info, f)
    BY <1>5 DEF AddsFrame
  <2>2. /\ Len(frame_info') = Len(frame_info) + 1
        /\ \A i \in DOMAIN frame_info :
             i \in DOMAIN frame_info' /\ frame_info'[i] = frame_info[i]
    BY <1>1, <2>1
  <2> QED
    BY <1>1, <2>2 DEF FramesKept, SameFrame
<1>6. UNCHANGED vars \/ Fail => UNCHANGED frame_info
  BY DEF vars, Fail, frames
<1> QED
  BY <1>2, <1>3, <1>4, <1>5, <1>6, FrameListStep

LEMMA ParserStep ==
  ASSUME ParserInv, [DecoderNext]_allvars
  PROVE  ParserInv' /\ ParserKept
<1>1. IInv /\ DataInv /\ DepthInv /\ ([Next]_vars \/ Fail)
  BY ReaderMoves DEF ParserInv
<1>2. IInv' /\ DataInv' /\ DepthInv'
  BY <1>1, FailKeeps, StepInvariant, StepData, StepDepth
<1> QED
  BY <1>1, <1>2, RegisteredStep, ReceivedGrows, SizeKept, FrameListKept
     DEF ParserInv, ParserKept

LEMMA ParserInit ==
  ASSUME Init
  PROVE  ParserInv
BY InitInvariant, InitData, InitDepth DEF Init, ParserInv, RegisteredInv

-----------------------------------------------------------------------------
(* Lists, and the folds over them.                                         *)

IsList(s) == \E X : s \in Seq(X)

LEMMA ListFacts ==
  ASSUME NEW s, IsList(s)
  PROVE  Len(s) \in Nat /\ DOMAIN s = 1 .. Len(s)
BY DEF IsList

LEMMA ListOf ==
  ASSUME NEW n \in Nat, NEW t, t = [i \in 1 .. n |-> t[i]]
  PROVE  IsList(t) /\ Len(t) = n
<1> DEFINE X == {t[i] : i \in 1 .. n}
<1>1. t \in [1 .. n -> X]
  OBVIOUS
<1> HIDE DEF X
<1>2. t \in Seq(X) /\ Len(t) = n
  BY <1>1
<1> QED
  BY <1>2 DEF IsList

LEMMA ListAppended ==
  ASSUME NEW s, IsList(s), NEW e
  PROVE  /\ IsList(Append(s, e))
         /\ Len(Append(s, e)) = Len(s) + 1
         /\ Append(s, e)[Len(s) + 1] = e
         /\ \A i \in DOMAIN s : Append(s, e)[i] = s[i]
<1>1. PICK X : s \in Seq(X)
  BY DEF IsList
<1>2. s \in Seq(X \cup {e}) /\ e \in X \cup {e}
  BY <1>1
<1> QED
  BY <1>2 DEF IsList

(* The fold of GrowCache, one frame at a time.                             *)
LEMMA GrowUnfolds ==
  ASSUME NEW c \in Nat
  PROVE  \E g :
           /\ FoldLeft(InitializeNewFrame, frame_buffer_cache,
                       [n \in 1 .. c |-> Known + n]) = g[1 .. c]
           /\ g[1 .. 0] = frame_buffer_cache
           /\ \A k \in Nat : k + 1 <= c =>
                g[1 .. k + 1] = InitializeNewFrame(g[1 .. k], Known + (k + 1))
<1> DEFINE seq == [n \in 1 .. c |-> Known + n]
           D == DOMAIN seq
           base == frame_buffer_cache
           Body(f, s) == IF s = {} THEN base
                         ELSE InitializeNewFrame(f[s \ {Max(s)}], seq[Max(s)])
           g == CHOOSE f : f = [s \in SUBSET D |-> Body(f, s)]
           S == {m \in Nat : \E h : h = [s \in SUBSET (1 .. m) |-> Body(h, s)]}
<1>1. FoldLeft(InitializeNewFrame, base, seq) = g[D]
  BY DEF FoldLeft, MapThenFoldSet
<1>2. D = 1 .. c
  OBVIOUS
<1> HIDE DEF seq, D, base
<1>3. 0 \in S
  <2> DEFINE h == [s \in SUBSET (1 .. 0) |-> base]
  <2>1. h = [s \in SUBSET (1 .. 0) |-> Body(h, s)]
    <3>1. \A s \in SUBSET (1 .. 0) : s = {}
      OBVIOUS
    <3> QED
      BY <3>1
  <2> QED
    BY <2>1
<1>4. ASSUME NEW m \in Nat, m \in S PROVE m + 1 \in S
  <2>1. PICK h : h = [s \in SUBSET (1 .. m) |-> Body(h, s)]
    BY <1>4
  <2> DEFINE j == [s \in SUBSET (1 .. m + 1) |->
                     IF m + 1 \in s
                       THEN InitializeNewFrame(h[s \ {m + 1}], seq[m + 1])
                       ELSE h[s]]
  <2>2. ASSUME NEW s \in SUBSET (1 .. m + 1) PROVE j[s] = Body(j, s)
    <3>1. CASE m + 1 \in s
      <4>1. Max(s) = m + 1
        <5>1. m + 1 \in Int /\ s \subseteq Int /\ \A y \in s : y <= m + 1
          OBVIOUS
        <5> QED
          BY <3>1, <5>1, MaxIs
      <4>2. /\ s \ {m + 1} \in SUBSET (1 .. m + 1)
            /\ m + 1 \notin s \ {m + 1}
        OBVIOUS
      <4>3. j[s \ {m + 1}] = h[s \ {m + 1}]
        BY <4>2
      <4> QED
        BY <3>1, <4>1, <4>3
    <3>2. CASE m + 1 \notin s
      <4>1. s \in SUBSET (1 .. m) /\ j[s] = h[s] /\ h[s] = Body(h, s)
        <5>1. s \in SUBSET (1 .. m)
          BY <3>2
        <5> QED
          BY <2>1, <3>2, <5>1
      <4>2. s \ {Max(s)} \in SUBSET (1 .. m + 1) /\ m + 1 \notin s \ {Max(s)}
        BY <3>2
      <4>3. j[s \ {Max(s)}] = h[s \ {Max(s)}]
        BY <4>2
      <4> QED
        BY <4>1, <4>3
    <3> QED
      BY <3>1, <3>2
  <2>3. j = [s \in SUBSET (1 .. m + 1) |-> Body(j, s)]
    <3> HIDE DEF Body
    <3>1. j = [s \in SUBSET (1 .. m + 1) |-> j[s]]
      OBVIOUS
    <3> HIDE DEF j
    <3> QED
      BY <2>2, <3>1
  <2> HIDE DEF j, Body
  <2> QED
    BY <2>3
<1>5. PICK h : h = [s \in SUBSET D |-> Body(h, s)]
  <2> HIDE DEF S
  <2>1. c \in S
    BY <1>3, <1>4, SetInduction
  <2> QED
    BY <1>2, <2>1 DEF S
<1>6. g = [s \in SUBSET D |-> Body(g, s)]
  <2> HIDE DEF Body
  <2> QED
    BY <1>5
<1> HIDE DEF g
<1>7. g[1 .. 0] = frame_buffer_cache
  BY <1>6 DEF base
<1>8. ASSUME NEW k \in Nat, k + 1 <= c
      PROVE  g[1 .. k + 1] = InitializeNewFrame(g[1 .. k], Known + (k + 1))
  <2>1. Max(1 .. k + 1) = k + 1
    <3>1. /\ k + 1 \in Int /\ 1 .. k + 1 \subseteq Int /\ k + 1 \in 1 .. k + 1
          /\ \A y \in 1 .. k + 1 : y <= k + 1
      OBVIOUS
    <3> QED
      BY <3>1, MaxIs
  <2>2. (1 .. k + 1) \ {k + 1} = 1 .. k /\ 1 .. k + 1 \in SUBSET D
        /\ 1 .. k + 1 # {}
    <3>1. 1 .. k + 1 \in SUBSET (1 .. c) /\ k + 1 \in 1 .. k + 1
      BY <1>8
    <3> QED
      BY <1>2, <3>1
  <2>3. seq[k + 1] = Known + (k + 1)
    BY <1>8 DEF seq
  <2> QED
    BY <1>6, <2>1, <2>2, <2>3
<1> QED
  BY <1>1, <1>2, <1>7, <1>8 DEF seq, base

IsBounded(D) == \E n \in Nat : D \subseteq 0 .. n

(* What libpng makes of the data, one byte at a time.                      *)
Scans(g, frame, D, writable) ==
  /\ RowStateAfter(frame, D, writable) = g[D]
  /\ g[{}] = RowState
  /\ \A s \in SUBSET D : s # {} =>
       g[s] = Scan(frame, g[s \ {Max(s)}], Max(s), writable)

LEMMA ScanUnfolds ==
  ASSUME NEW frame, NEW writable, NEW D, IsBounded(D)
  PROVE  \E g : Scans(g, frame, D, writable)
<1>1. PICK n \in Nat : D \subseteq 0 .. n
  BY DEF IsBounded
<1> DEFINE Op(o, x) == CHOOSE z \in {Scan(frame, u, o, writable) : u \in {x}} : TRUE
           Body(f, s) == IF s = {} THEN RowState
                         ELSE Op(Max(s), f[s \ {Max(s)}])
           g == CHOOSE f : f = [s \in SUBSET D |-> Body(f, s)]
           S == {m \in Nat :
                   \E h : h = [s \in SUBSET (0 .. m - 1) |-> Body(h, s)]}
<1>2. RowStateAfter(frame, D, writable) = g[D]
  BY DEF RowStateAfter, MapThenFoldSet
<1>3. \A o, x : Op(o, x) = Scan(frame, x, o, writable)
  OBVIOUS
<1> HIDE DEF Op
<1>4. 0 \in S
  <2> DEFINE h == [s \in SUBSET (0 .. 0 - 1) |-> RowState]
  <2>1. h = [s \in SUBSET (0 .. 0 - 1) |-> Body(h, s)]
    <3>1. \A s \in SUBSET (0 .. 0 - 1) : s = {}
      OBVIOUS
    <3> QED
      BY <3>1
  <2> HIDE DEF h, Body
  <2> QED
    BY <2>1
<1>5. ASSUME NEW m \in Nat, m \in S PROVE m + 1 \in S
  <2>1. PICK h : h = [s \in SUBSET (0 .. m - 1) |-> Body(h, s)]
    BY <1>5
  <2> DEFINE j == [s \in SUBSET (0 .. (m + 1) - 1) |->
                     IF m \in s THEN Op(m, h[s \ {m}]) ELSE h[s]]
  <2>2. ASSUME NEW s \in SUBSET (0 .. (m + 1) - 1) PROVE j[s] = Body(j, s)
    <3>1. CASE m \in s
      <4>1. Max(s) = m
        <5>1. m \in Int /\ s \subseteq Int /\ \A y \in s : y <= m
          OBVIOUS
        <5> QED
          BY <3>1, <5>1, MaxIs
      <4>2. s \ {m} \in SUBSET (0 .. (m + 1) - 1) /\ m \notin s \ {m}
        OBVIOUS
      <4>3. j[s \ {m}] = h[s \ {m}]
        BY <4>2
      <4> QED
        BY <3>1, <4>1, <4>3
    <3>2. CASE m \notin s
      <4>1. s \in SUBSET (0 .. m - 1) /\ j[s] = h[s] /\ h[s] = Body(h, s)
        <5>1. s \in SUBSET (0 .. m - 1)
          BY <3>2
        <5> QED
          BY <2>1, <3>2, <5>1
      <4>2. s \ {Max(s)} \in SUBSET (0 .. (m + 1) - 1) /\ m \notin s \ {Max(s)}
        BY <3>2
      <4>3. j[s \ {Max(s)}] = h[s \ {Max(s)}]
        BY <4>2
      <4> QED
        BY <4>1, <4>3
    <3> QED
      BY <3>1, <3>2
  <2>3. j = [s \in SUBSET (0 .. (m + 1) - 1) |-> Body(j, s)]
    <3> HIDE DEF Body
    <3>1. j = [s \in SUBSET (0 .. (m + 1) - 1) |-> j[s]]
      OBVIOUS
    <3> HIDE DEF j
    <3> QED
      BY <2>2, <3>1
  <2> HIDE DEF j, Body
  <2> QED
    BY <2>3
<1>6. PICK h : h = [s \in SUBSET D |-> Body(h, s)]
  <2>1. n + 1 \in S
    <3> HIDE DEF S
    <3> QED
      BY <1>4, <1>5, SetInduction
  <2>2. PICK k : k = [s \in SUBSET (0 .. (n + 1) - 1) |-> Body(k, s)]
    BY <2>1
  <2> DEFINE h == [s \in SUBSET D |-> k[s]]
  <2>3. ASSUME NEW s \in SUBSET D PROVE h[s] = Body(h, s)
    <3>1. /\ s \in SUBSET (0 .. (n + 1) - 1)
          /\ s \ {Max(s)} \in SUBSET D
      <4>1. \A x \in s : x \in 0 .. (n + 1) - 1
        BY <1>1
      <4>2. s \ {Max(s)} \subseteq D
        OBVIOUS
      <4> HIDE DEF h
      <4> QED
        BY <4>1, <4>2, Zenon
    <3>2. h[s] = k[s] /\ h[s \ {Max(s)}] = k[s \ {Max(s)}]
      BY <3>1
    <3>3. k[s] = Body(k, s)
      BY <2>2, <3>1
    <3> QED
      BY <3>2, <3>3
  <2>4. h = [s \in SUBSET D |-> Body(h, s)]
    <3> HIDE DEF Body
    <3>1. h = [s \in SUBSET D |-> h[s]]
      OBVIOUS
    <3> HIDE DEF h
    <3> QED
      BY <2>3, <3>1
  <2> HIDE DEF h, Body
  <2> QED
    BY <2>4
<1>7. g = [s \in SUBSET D |-> Body(g, s)]
  <2> HIDE DEF Body
  <2> QED
    BY <1>6
<1> HIDE DEF g
<1>8. g[{}] = RowState
  BY <1>7
<1>9. ASSUME NEW s \in SUBSET D, s # {} PROVE g[s] = Op(Max(s), g[s \ {Max(s)}])
  BY <1>7, <1>9
<1> QED
  BY <1>2, <1>3, <1>8, <1>9 DEF Scans

(* The order of the file, one offset at a time.                            *)
LEMMA InOrderUnfolds ==
  ASSUME NEW D, IsBounded(D)
  PROVE  \E g :
           /\ InOrder(D) = g[D]
           /\ g[{}] = <<>>
           /\ \A s \in SUBSET D : s # {} =>
                g[s] = Append(g[s \ {Max(s)}], Max(s))
<1>1. PICK n \in Nat : D \subseteq 0 .. n
  BY DEF IsBounded
<1> DEFINE Op(o, x) == Append(x, o)
           Body(f, s) == IF s = {} THEN <<>>
                         ELSE Op(Max(s), f[s \ {Max(s)}])
           g == CHOOSE f : f = [s \in SUBSET D |-> Body(f, s)]
           S == {m \in Nat :
                   \E h : h = [s \in SUBSET (0 .. m - 1) |-> Body(h, s)]}
<1>2. InOrder(D) = g[D]
  BY DEF InOrder, MapThenFoldSet
<1>3. \A o, x : Op(o, x) = Append(x, o)
  OBVIOUS
<1> HIDE DEF Op
<1>4. 0 \in S
  <2> DEFINE h == [s \in SUBSET (0 .. 0 - 1) |-> <<>>]
  <2>1. h = [s \in SUBSET (0 .. 0 - 1) |-> Body(h, s)]
    <3>1. \A s \in SUBSET (0 .. 0 - 1) : s = {}
      OBVIOUS
    <3> QED
      BY <3>1
  <2> HIDE DEF h, Body
  <2> QED
    BY <2>1
<1>5. ASSUME NEW m \in Nat, m \in S PROVE m + 1 \in S
  <2>1. PICK h : h = [s \in SUBSET (0 .. m - 1) |-> Body(h, s)]
    BY <1>5
  <2> DEFINE j == [s \in SUBSET (0 .. (m + 1) - 1) |->
                     IF m \in s THEN Op(m, h[s \ {m}]) ELSE h[s]]
  <2>2. ASSUME NEW s \in SUBSET (0 .. (m + 1) - 1) PROVE j[s] = Body(j, s)
    <3>1. CASE m \in s
      <4>1. Max(s) = m
        <5>1. m \in Int /\ s \subseteq Int /\ \A y \in s : y <= m
          OBVIOUS
        <5> QED
          BY <3>1, <5>1, MaxIs
      <4>2. s \ {m} \in SUBSET (0 .. (m + 1) - 1) /\ m \notin s \ {m}
        OBVIOUS
      <4>3. j[s \ {m}] = h[s \ {m}]
        BY <4>2
      <4> QED
        BY <3>1, <4>1, <4>3
    <3>2. CASE m \notin s
      <4>1. s \in SUBSET (0 .. m - 1) /\ j[s] = h[s] /\ h[s] = Body(h, s)
        <5>1. s \in SUBSET (0 .. m - 1)
          BY <3>2
        <5> QED
          BY <2>1, <3>2, <5>1
      <4>2. s \ {Max(s)} \in SUBSET (0 .. (m + 1) - 1) /\ m \notin s \ {Max(s)}
        BY <3>2
      <4>3. j[s \ {Max(s)}] = h[s \ {Max(s)}]
        BY <4>2
      <4> QED
        BY <4>1, <4>3
    <3> QED
      BY <3>1, <3>2
  <2>3. j = [s \in SUBSET (0 .. (m + 1) - 1) |-> Body(j, s)]
    <3> HIDE DEF Body
    <3>1. j = [s \in SUBSET (0 .. (m + 1) - 1) |-> j[s]]
      OBVIOUS
    <3> HIDE DEF j
    <3> QED
      BY <2>2, <3>1
  <2> HIDE DEF j, Body
  <2> QED
    BY <2>3
<1>6. PICK h : h = [s \in SUBSET D |-> Body(h, s)]
  <2>1. n + 1 \in S
    <3> HIDE DEF S
    <3> QED
      BY <1>4, <1>5, SetInduction
  <2>2. PICK k : k = [s \in SUBSET (0 .. (n + 1) - 1) |-> Body(k, s)]
    BY <2>1
  <2> DEFINE h == [s \in SUBSET D |-> k[s]]
  <2>3. ASSUME NEW s \in SUBSET D PROVE h[s] = Body(h, s)
    <3>1. /\ s \in SUBSET (0 .. (n + 1) - 1)
          /\ s \ {Max(s)} \in SUBSET D
      <4>1. \A x \in s : x \in 0 .. (n + 1) - 1
        BY <1>1
      <4>2. s \ {Max(s)} \subseteq D
        OBVIOUS
      <4> HIDE DEF h
      <4> QED
        BY <4>1, <4>2, Zenon
    <3>2. h[s] = k[s] /\ h[s \ {Max(s)}] = k[s \ {Max(s)}]
      BY <3>1
    <3>3. k[s] = Body(k, s)
      BY <2>2, <3>1
    <3> QED
      BY <3>2, <3>3
  <2>4. h = [s \in SUBSET D |-> Body(h, s)]
    <3> HIDE DEF Body
    <3>1. h = [s \in SUBSET D |-> h[s]]
      OBVIOUS
    <3> HIDE DEF h
    <3> QED
      BY <2>3, <3>1
  <2> HIDE DEF h, Body
  <2> QED
    BY <2>4
<1>7. g = [s \in SUBSET D |-> Body(g, s)]
  <2> HIDE DEF Body
  <2> QED
    BY <1>6
<1> HIDE DEF g
<1>8. g[{}] = <<>>
  BY <1>7
<1>9. ASSUME NEW s \in SUBSET D, s # {} PROVE g[s] = Op(Max(s), g[s \ {Max(s)}])
  BY <1>7, <1>9
<1> QED
  BY <1>2, <1>3, <1>8, <1>9

-----------------------------------------------------------------------------
(* The buffers.                                                            *)

Statuses == {"kFrameEmpty", "kFramePartial", "kFrameComplete"}

(* The buffer of frame i, set up from its entry in frame_info.             *)
IsBuffer(b, i) ==
  /\ b \in [status   : Statuses,
            rect     : {frame_info[i].frame_rect},
            disposal : {frame_info[i].disposal_method},
            blend    : {frame_info[i].alpha_blend},
            required : 0 .. i - 1,
            opaque   : BOOLEAN,
            rows     : {b.rows}]
  /\ DOMAIN b.rows = 1 .. ihdr.height

AreBuffers(buffers) ==
  IsList(buffers) /\ \A i \in 1 .. Len(buffers) : IsBuffer(buffers[i], i)

CacheInv == AreBuffers(frame_buffer_cache) /\ Known <= Len(frame_info)

(* A buffer is replaced by another one of its frame.                       *)
Put(buffers, i, b) == [buffers EXCEPT ![i] = b]

LEMMA BufferReplaced ==
  ASSUME NEW buffers, AreBuffers(buffers), NEW i \in 1 .. Len(buffers),
         NEW b, IsBuffer(b, i), NEW new, new = Put(buffers, i, b)
  PROVE  /\ AreBuffers(new) /\ Len(new) = Len(buffers) /\ new[i] = b
         /\ \A k \in 1 .. Len(buffers) : k # i => new[k] = buffers[k]
<1>1. Len(buffers) \in Nat /\ DOMAIN buffers = 1 .. Len(buffers)
  BY ListFacts DEF AreBuffers
<1>2. new = [k \in 1 .. Len(buffers) |-> new[k]]
  BY <1>1 DEF Put
<1>3. new[i] = b /\ \A k \in 1 .. Len(buffers) : k # i => new[k] = buffers[k]
  BY <1>1 DEF Put
<1>4. IsList(new) /\ Len(new) = Len(buffers)
  BY <1>1, <1>2, ListOf
<1>5. AreBuffers(new)
  BY <1>3, <1>4 DEF AreBuffers
<1> QED
  BY <1>3, <1>4, <1>5

(* What may be written into the buffer of a frame.                         *)
Rewritten(b, rows, status) == [b EXCEPT !.rows = rows, !.status = status]
Finished(b, opaque) ==
  [b EXCEPT !.status = "kFrameComplete", !.opaque = opaque]

LEMMA BufferWritten ==
  ASSUME NEW b, NEW i, IsBuffer(b, i), NEW rows, DOMAIN rows = 1 .. ihdr.height,
         NEW status \in Statuses, NEW c, c = Rewritten(b, rows, status)
  PROVE  /\ IsBuffer(c, i)
         /\ c.status = status /\ c.required = b.required
         /\ c.opaque = b.opaque /\ c.rows = rows
BY DEF IsBuffer, Rewritten

LEMMA BufferFinished ==
  ASSUME NEW b, NEW i, IsBuffer(b, i), NEW opaque \in BOOLEAN,
         NEW c, c = Finished(b, opaque)
  PROVE  /\ IsBuffer(c, i)
         /\ c.status = "kFrameComplete" /\ c.required = b.required
         /\ c.opaque = opaque /\ c.rows = b.rows
BY DEF IsBuffer, Statuses, Finished

(* The required frame comes before the frame.                              *)
LEMMA RequiredIsEarlier ==
  ASSUME NEW buffers, NEW i \in Nat \ {0}, Len(buffers) = i - 1, AreBuffers(buffers),
         NEW b
  PROVE  RequiredPreviousFrame(b, buffers) \in 0 .. i - 1
<1> DEFINE Keeping == {k \in DOMAIN buffers :
                         buffers[k].disposal # "kDisposeOverwritePrevious"}
           prev == IF Keeping = {} THEN kNotFound ELSE Max(Keeping)
<1>1. prev \in 0 .. i - 1
  <2>1. CASE Keeping = {}
    BY <2>1 DEF kNotFound
  <2>2. CASE Keeping # {}
    <3>1. i - 1 \in Nat /\ Keeping \subseteq 0 .. i - 1
      BY ListFacts DEF AreBuffers
    <3>2. Max(Keeping) \in Keeping
      <4> HIDE DEF Keeping
      <4> QED
        BY <2>2, <3>1, GreatestNatural
    <3> QED
      BY <2>2, <3>1, <3>2
  <2> QED
    BY <2>1, <2>2
<1>2. RequiredPreviousFrame(b, buffers) \in {kNotFound, prev}
  BY DEF RequiredPreviousFrame
<1> QED
  BY <1>1, <1>2 DEF kNotFound

(* A frame is added to the cache.                                          *)
LEMMA BufferAdded ==
  ASSUME NEW buffers, NEW i \in Nat \ {0}, Len(buffers) = i - 1,
         AreBuffers(buffers)
  PROVE  /\ AreBuffers(InitializeNewFrame(buffers, i))
         /\ Len(InitializeNewFrame(buffers, i)) = i
         /\ \A k \in 1 .. i - 1 :
              InitializeNewFrame(buffers, i)[k] = buffers[k]
         /\ InitializeNewFrame(buffers, i)[i].status = "kFrameEmpty"
<1> DEFINE b == [status   |-> "kFrameEmpty",
                 rect     |-> frame_info[i].frame_rect,
                 disposal |-> frame_info[i].disposal_method,
                 blend    |-> frame_info[i].alpha_blend,
                 required |-> kNotFound,
                 opaque   |-> FALSE,
                 rows     |-> Blank]
           required == RequiredPreviousFrame(b, buffers)
           new == [b EXCEPT !.required = required]
<1>1. InitializeNewFrame(buffers, i) = Append(buffers, new)
  BY DEF InitializeNewFrame
<1>2. required \in 0 .. i - 1
  BY RequiredIsEarlier
<1> HIDE DEF required
<1>3. IsBuffer(new, i) /\ new.status = "kFrameEmpty"
  BY <1>2 DEF IsBuffer, Statuses, Blank
<1> HIDE DEF new, b
<1>4. IsList(buffers) /\ DOMAIN buffers = 1 .. i - 1
  BY ListFacts DEF AreBuffers
<1>5. /\ IsList(Append(buffers, new)) /\ Len(Append(buffers, new)) = i
      /\ Append(buffers, new)[i] = new
      /\ \A k \in 1 .. i - 1 : Append(buffers, new)[k] = buffers[k]
  BY <1>4, ListAppended
<1> QED
  BY <1>1, <1>3, <1>5 DEF AreBuffers

(* The cache after GrowCache.                                              *)
LEMMA CacheGrown ==
  ASSUME AreBuffers(frame_buffer_cache), NEW c \in Nat,
         NEW grown, grown = FoldLeft(InitializeNewFrame, frame_buffer_cache,
                                     [n \in 1 .. c |-> Known + n])
  PROVE  /\ AreBuffers(grown) /\ Len(grown) = Known + c
         /\ \A k \in 1 .. Known : grown[k] = frame_buffer_cache[k]
         /\ \A k \in 1 .. Known + c : k > Known => grown[k].status = "kFrameEmpty"
<1>1. PICK g : /\ grown = g[1 .. c]
               /\ g[1 .. 0] = frame_buffer_cache
               /\ \A k \in Nat : k + 1 <= c =>
                    g[1 .. k + 1]
                      = InitializeNewFrame(g[1 .. k], Known + (k + 1))
  BY GrowUnfolds
<1>2. Known \in Nat
  BY ListFacts DEF AreBuffers, Known
<1> DEFINE Good(G, m) == /\ AreBuffers(G) /\ Len(G) = Known + m
                         /\ \A k \in 1 .. Known : G[k] = frame_buffer_cache[k]
                         /\ \A k \in 1 .. Known + m :
                              k > Known => G[k].status = "kFrameEmpty"
           S == {m \in Nat : m <= c => Good(g[1 .. m], m)}
<1>3. 0 \in S
  BY <1>1, <1>2 DEF Known
<1>4. ASSUME NEW m \in Nat, m \in S PROVE m + 1 \in S
  <2> SUFFICES ASSUME m + 1 <= c PROVE Good(g[1 .. m + 1], m + 1)
    OBVIOUS
  <2> DEFINE G == g[1 .. m]
             H == g[1 .. m + 1]
             i == Known + (m + 1)
  <2>1. Good(G, m) /\ H = InitializeNewFrame(G, i)
    BY <1>1, <1>4
  <2>2. /\ i \in Nat \ {0} /\ Len(G) = i - 1 /\ AreBuffers(G)
        /\ i = Known + m + 1
    BY <1>2, <2>1
  <2> HIDE DEF G, H, i
  <2>3. /\ AreBuffers(H) /\ Len(H) = i /\ H[i].status = "kFrameEmpty"
        /\ \A k \in 1 .. i - 1 : H[k] = G[k]
    BY <2>1, <2>2, BufferAdded
  <2>4. \A k \in 1 .. Known : H[k] = frame_buffer_cache[k]
    BY <1>2, <2>1, <2>2, <2>3
  <2>5. ASSUME NEW k \in 1 .. Known + (m + 1), k > Known
        PROVE  H[k].status = "kFrameEmpty"
    <3>1. k = i \/ k \in 1 .. i - 1
      BY <1>2, <2>2, <2>5
    <3> QED
      BY <1>2, <2>1, <2>2, <2>3, <2>5, <3>1
  <2> QED
    BY <2>2, <2>3, <2>4, <2>5, <1>2 DEF H, i
<1>5. c \in S
  <2> HIDE DEF S
  <2> QED
    BY <1>3, <1>4, SetInduction
<1> QED
  BY <1>1, <1>5

-----------------------------------------------------------------------------
(* Rows are drawn.                                                         *)

(* What the row callbacks for frame f may have done to the state they      *)
(* found: nothing to the buffers before the first row; then the buffer is  *)
(* partial, and that of the required frame may have been taken over.       *)
Drawing(f, s) ==
  /\ s \in [data : {s.data}, interlaced : {s.interlaced},
            buffers : {s.buffers}, saw_alpha : BOOLEAN]
  /\ AreBuffers(s.buffers) /\ Len(s.buffers) = Known
  /\ \A k \in 1 .. Known :
       /\ s.buffers[k].required = frame_buffer_cache[k].required
       /\ s.buffers[k].opaque = frame_buffer_cache[k].opaque
       /\ k # f => s.buffers[k].status \in {frame_buffer_cache[k].status,
                                            "kFrameEmpty"}
  /\ s.buffers[f].status = "kFrameEmpty" => s.buffers = frame_buffer_cache
  /\ s.buffers[f].status # frame_buffer_cache[f].status =>
       /\ frame_buffer_cache[f].status = "kFrameEmpty"
       /\ s.buffers[f].status = "kFramePartial"

LEMMA DrawingStarts ==
  ASSUME CacheInv, current_buffer_saw_alpha \in BOOLEAN, NEW f
  PROVE  Drawing(f, RowState)
BY DEF CacheInv, Drawing, RowState, Known

(* The picture a frame starts from has all the rows.                       *)
LEMMA StartingRowsTyped ==
  ASSUME NEW buffers, AreBuffers(buffers), NEW f \in 1 .. Len(buffers)
  PROVE  DOMAIN StartingRows(f, buffers) = 1 .. ihdr.height
<1> DEFINE r == buffers[f].required
<1>1. Len(buffers) \in Nat /\ IsBuffer(buffers[f], f)
  BY ListFacts DEF AreBuffers
<1>2. r \in 0 .. f - 1
  BY <1>1 DEF IsBuffer
<1>3. CASE r = kNotFound
  BY <1>3 DEF StartingRows, Blank
<1>4. CASE r # kNotFound
  <2>1. r \in 1 .. Len(buffers)
    BY <1>1, <1>2, <1>4 DEF kNotFound
  <2>2. DOMAIN buffers[r].rows = 1 .. ihdr.height
    BY <2>1 DEF AreBuffers, IsBuffer
  <2> QED
    BY <1>4, <2>2 DEF StartingRows, Blank
<1> QED
  BY <1>3, <1>4

(* The first row of a frame gets a buffer ready.                           *)
LEMMA BufferInitialized ==
  ASSUME CacheInv, NEW f \in 1 .. Known, NEW writable,
         frame_buffer_cache[f].status = "kFrameEmpty",
         NEW new, new = InitFrameBuffer(f, frame_buffer_cache, writable)
  PROVE  /\ AreBuffers(new) /\ Len(new) = Known
         /\ \A k \in 1 .. Known :
              /\ new[k].required = frame_buffer_cache[k].required
              /\ new[k].opaque = frame_buffer_cache[k].opaque
              /\ k # f => new[k].status \in {frame_buffer_cache[k].status,
                                             "kFrameEmpty"}
         /\ new[f].status = "kFramePartial"
         /\ new[f].rows = StartingRows(f, frame_buffer_cache)
         /\ \A k \in 1 .. Known : k # f =>
              \/ new[k] = frame_buffer_cache[k]
              \/ new[k].status = "kFrameEmpty" /\ new[k].rows = Blank
<1> DEFINE old == frame_buffer_cache
           rows == StartingRows(f, old)
<1>1. /\ AreBuffers(old) /\ f \in 1 .. Len(old) /\ Len(old) = Known
      /\ Known \in Nat /\ IsBuffer(old[f], f)
      /\ DOMAIN old = 1 .. Known
  BY ListFacts DEF CacheInv, AreBuffers, Known
<1>2. DOMAIN rows = 1 .. ihdr.height /\ DOMAIN Blank = 1 .. ihdr.height
  BY <1>1, StartingRowsTyped DEF Blank
<1>3. "kFramePartial" \in Statuses /\ "kFrameEmpty" \in Statuses
  BY DEF Statuses
<1>4. PICK first : first = Rewritten(old[f], rows, "kFramePartial")
  OBVIOUS
<1>5. PICK ready : ready = Put(old, f, first)
  OBVIOUS
<1> DEFINE r == old[f].required
<1>6. \/ new = ready
      \/ r # kNotFound
         /\ new = Put(ready, r, Rewritten(ready[r], Blank, "kFrameEmpty"))
  <2>1. ready = [old EXCEPT ![f].rows = rows, ![f].status = "kFramePartial"]
    BY <1>1, <1>4, <1>5 DEF Put, Rewritten
  <2> DEFINE prepared == [old EXCEPT ![f].rows = rows,
                                     ![f].status = "kFramePartial"]
  <2>2. \/ new = prepared
        \/ r # kNotFound /\ new = [prepared EXCEPT ![r].status = "kFrameEmpty",
                                                   ![r].rows = Blank]
    BY DEF InitFrameBuffer
  <2>3. prepared = ready
    BY <2>1
  <2>4. CASE new = prepared
    BY <2>3, <2>4
  <2>5. CASE r # kNotFound /\ new = [prepared EXCEPT ![r].status = "kFrameEmpty",
                                                    ![r].rows = Blank]
    <3> HIDE DEF prepared
    <3>1. new = [ready EXCEPT ![r].status = "kFrameEmpty", ![r].rows = Blank]
      BY <2>3, <2>5
    <3>2. r \in DOMAIN ready
      <4>1. DOMAIN ready = 1 .. Known
        BY <1>1, <1>5 DEF Put
      <4> QED
        BY <1>1, <2>5, <4>1 DEF IsBuffer, kNotFound
    <3> HIDE DEF r
    <3> QED
      BY <2>5, <3>1, <3>2 DEF Put, Rewritten
  <2> HIDE DEF prepared
  <2> QED
    BY <2>2, <2>4, <2>5
<1> HIDE DEF old, rows
<1>7. /\ IsBuffer(first, f) /\ first.status = "kFramePartial"
      /\ first.required = old[f].required /\ first.opaque = old[f].opaque
  BY <1>1, <1>2, <1>3, <1>4, BufferWritten
<1>8. first.rows = rows
  BY <1>1, <1>2, <1>3, <1>4, BufferWritten
<1>9. /\ AreBuffers(ready) /\ Len(ready) = Known /\ ready[f] = first
      /\ \A k \in 1 .. Known : k # f => ready[k] = old[k]
  <2> HIDE DEF r
  <2>1. /\ AreBuffers(ready) /\ Len(ready) = Len(old) /\ ready[f] = first
        /\ \A k \in 1 .. Len(old) : k # f => ready[k] = old[k]
    <3>1. AreBuffers(old) /\ f \in 1 .. Len(old) /\ IsBuffer(first, f)
      BY <1>1, <1>7
    <3> QED
      BY <3>1, <1>5, BufferReplaced
  <2> QED
    BY <1>1, <2>1
<1>10. CASE new = ready
  <2>1. /\ AreBuffers(new) /\ Len(new) = Known
        /\ new[f].status = "kFramePartial" /\ new[f].rows = rows
        /\ new[f].required = old[f].required /\ new[f].opaque = old[f].opaque
        /\ \A k \in 1 .. Known : k # f => new[k] = old[k]
    BY <1>7, <1>9, <1>10, <1>8
  <2>2. \A k \in 1 .. Known : new[k].required = old[k].required
                               /\ new[k].opaque = old[k].opaque
    BY <2>1
  <2> QED
    BY <2>1, <2>2 DEF old, rows
<1>11. CASE r # kNotFound
            /\ new = Put(ready, r, Rewritten(ready[r], Blank, "kFrameEmpty"))
  <2>1. r \in 1 .. Known /\ r # f
    BY <1>1, <1>11 DEF IsBuffer, kNotFound
  <2> HIDE DEF r
  <2>2. IsBuffer(ready[r], r) /\ ready[r] = old[r]
    BY <1>9, <2>1 DEF AreBuffers
  <2>3. PICK taken : taken = Rewritten(ready[r], Blank, "kFrameEmpty")
    OBVIOUS
  <2>4. /\ IsBuffer(taken, r) /\ taken.status = "kFrameEmpty"
        /\ taken.required = old[r].required /\ taken.opaque = old[r].opaque
        /\ taken.rows = Blank
    BY <1>2, <1>3, <2>2, <2>3, BufferWritten
  <2>5. /\ AreBuffers(new) /\ Len(new) = Known /\ new[r] = taken
        /\ \A k \in 1 .. Known : k # r => new[k] = ready[k]
    BY <1>9, <1>11, <2>1, <2>3, <2>4, BufferReplaced
  <2>6. /\ AreBuffers(new) /\ Len(new) = Known
        /\ new[f].status = "kFramePartial" /\ new[f].rows = rows
        /\ new[f].required = old[f].required /\ new[f].opaque = old[f].opaque
        /\ \A k \in 1 .. Known : k # f =>
             \/ new[k] = old[k]
             \/ k = r /\ new[k] = taken
    BY <1>7, <1>9, <1>8, <2>1, <2>5
  <2>7. \A k \in 1 .. Known : new[k].required = old[k].required
                               /\ new[k].opaque = old[k].opaque
    BY <2>4, <2>6
  <2> QED
    BY <2>4, <2>6, <2>7 DEF old, rows
<1> QED
  BY <1>6, <1>10, <1>11

LEMMA BufferReady ==
  ASSUME CacheInv, NEW f \in 1 .. Known, NEW s, Drawing(f, s), NEW writable
  PROVE  /\ Drawing(f, WithBuffer(f, s, writable))
         /\ WithBuffer(f, s, writable).data = s.data
         /\ WithBuffer(f, s, writable).buffers[f].status # "kFrameEmpty"
<1> DEFINE t == WithBuffer(f, s, writable)
           new == InitFrameBuffer(f, s.buffers, writable)
<1>1. CASE s.buffers[f].status # "kFrameEmpty"
  BY <1>1 DEF WithBuffer
<1>2. CASE s.buffers[f].status = "kFrameEmpty"
  <2>1. s.buffers = frame_buffer_cache
    BY <1>2 DEF Drawing
  <2>2. /\ t.buffers = new /\ t.saw_alpha = FALSE /\ t.data = s.data
        /\ t \in [data : {t.data}, interlaced : {t.interlaced},
                  buffers : {t.buffers}, saw_alpha : BOOLEAN]
    <3> HIDE DEF new
    <3>1. PICK i : t = [s EXCEPT !.buffers = new, !.saw_alpha = FALSE,
                                 !.interlaced = i]
      BY <1>2 DEF WithBuffer, new
    <3> HIDE DEF t
    <3> QED
      BY <3>1 DEF Drawing
  <2> HIDE DEF t, new
  <2>3. /\ AreBuffers(new) /\ Len(new) = Known
        /\ \A k \in 1 .. Known :
             /\ new[k].required = frame_buffer_cache[k].required
             /\ new[k].opaque = frame_buffer_cache[k].opaque
             /\ k # f => new[k].status \in {frame_buffer_cache[k].status,
                                            "kFrameEmpty"}
        /\ new[f].status = "kFramePartial"
    BY <1>2, <2>1, BufferInitialized DEF new
  <2>4. Drawing(f, t)
    BY <1>2, <2>1, <2>2, <2>3 DEF Drawing
  <2> QED
    BY <2>2, <2>3, <2>4 DEF t
<1> QED
  BY <1>1, <1>2

LEMMA RowDrawn ==
  ASSUME CacheInv, FileInv, NEW f \in 1 .. Known, NEW s, Drawing(f, s),
         s.buffers[f].status # "kFrameEmpty", NEW row, NEW byte
  PROVE  /\ Drawing(f, RowAvailable(f, s, row, byte))
         /\ RowAvailable(f, s, row, byte).data = s.data
         /\ RowAvailable(f, s, row, byte).buffers[f].status
              = s.buffers[f].status
<1> DEFINE t == RowAvailable(f, s, row, byte)
           b == s.buffers[f]
<1>1. CASE row > b.rect.height
  BY <1>1 DEF RowAvailable
<1>2. CASE ~(row > b.rect.height)
  <2>1. /\ AreBuffers(s.buffers) /\ Len(s.buffers) = Known /\ Known \in Nat
        /\ DOMAIN s.buffers = 1 .. Known
        /\ IsBuffer(b, f) /\ DOMAIN b.rows = 1 .. ihdr.height
    BY ListFacts DEF Drawing, AreBuffers, IsBuffer
  <2>2. PICK i, v, a :
          /\ t = [s EXCEPT !.interlaced = i,
                           !.buffers[f].rows[b.rect.y + row] = v,
                           !.saw_alpha = a]
          /\ a \in BOOLEAN
    <3> DEFINE combining == s.interlaced # NoBuffer
               drawn == (IF combining THEN s.interlaced[row] ELSE {}) \cup {byte}
               i == IF combining THEN [s.interlaced EXCEPT ![row] = drawn]
                    ELSE s.interlaced
               old == s.buffers[f].rows[b.rect.y + row]
               v == IF BlendsOverPrevious(f) THEN Append(old, drawn)
                    ELSE <<drawn>>
               a == IF decode_to_half_float THEN file.alpha
                    ELSE s.saw_alpha \/ (file.alpha /\ drawn \cap file.translucent # {})
    <3>1. a \in BOOLEAN
      <4>1. file.alpha \in BOOLEAN
        BY DecoderAssumption DEF FileInv
      <4> QED
        BY <4>1 DEF Drawing
    <3>2. t = [s EXCEPT !.interlaced = i,
                        !.buffers[f].rows[b.rect.y + row] = v,
                        !.saw_alpha = a]
      BY <1>2 DEF RowAvailable
    <3> HIDE DEF i, v, a, t
    <3> QED
      BY <3>1, <3>2
  <2>3. PICK rows : rows = [b.rows EXCEPT ![b.rect.y + row] = v]
    OBVIOUS
  <2>4. PICK c : c = Rewritten(b, rows, b.status)
    OBVIOUS
  <2>5. PICK new : new = Put(s.buffers, f, c)
    OBVIOUS
  <2>6. /\ t.buffers = new /\ t.data = s.data
        /\ t \in [data : {t.data}, interlaced : {t.interlaced},
                  buffers : {t.buffers}, saw_alpha : BOOLEAN]
    <3> HIDE DEF t
    <3>1. t = [s EXCEPT !.interlaced = i, !.buffers = new, !.saw_alpha = a]
      <4>1. new = [s.buffers EXCEPT ![f].rows[b.rect.y + row] = v]
        <5>1. c = [b EXCEPT !.rows[b.rect.y + row] = v]
          BY <2>1, <2>3, <2>4 DEF Rewritten, IsBuffer
        <5> QED
          BY <2>1, <2>5, <5>1 DEF Put
      <4> QED
        BY <2>2, <4>1
    <3> QED
      BY <2>2, <3>1 DEF Drawing
  <2>7. DOMAIN rows = 1 .. ihdr.height
    BY <2>1, <2>3
  <2> HIDE DEF t, b
  <2>8. IsBuffer(c, f) /\ c.status = b.status /\ c.required = b.required
        /\ c.opaque = b.opaque
    BY <2>1, <2>4, <2>7, BufferWritten DEF IsBuffer
  <2>9. /\ AreBuffers(new) /\ Len(new) = Known /\ new[f] = c
        /\ \A k \in 1 .. Known : k # f => new[k] = s.buffers[k]
    BY <2>1, <2>5, <2>8, BufferReplaced
  <2>10. Drawing(f, t)
    BY <2>6, <2>8, <2>9 DEF Drawing, b
  <2> QED
    BY <2>6, <2>8, <2>9, <2>10 DEF t, b
<1> QED
  BY <1>1, <1>2

(* One byte of data.                                                       *)
LEMMA ScanDraws ==
  ASSUME CacheInv, FileInv, NEW f \in 1 .. Known, NEW s, Drawing(f, s),
         NEW byte, NEW writable
  PROVE  /\ Drawing(f, Scan(f, s, byte, writable))
         /\ Scan(f, s, byte, writable).data = Append(s.data, byte)
<1> DEFINE fed == [s EXCEPT !.data = Append(@, byte)]
           row == (Len(s.data) % SessionHeight) + 1
<1>1. Drawing(f, fed) /\ fed.data = Append(s.data, byte)
  BY DEF Drawing
<1> HIDE DEF fed, row
<1>2. CASE Len(s.data) >= Needed
  BY <1>1, <1>2 DEF Scan, fed
<1>3. CASE ~(Len(s.data) >= Needed)
  <2> DEFINE ready == WithBuffer(f, fed, writable)
  <2>1. Drawing(f, ready) /\ ready.data = fed.data
        /\ ready.buffers[f].status # "kFrameEmpty"
    BY <1>1, BufferReady
  <2>2. Scan(f, s, byte, writable) = RowAvailable(f, ready, row, byte)
    BY <1>3 DEF Scan, fed, row
  <2> HIDE DEF ready
  <2> QED
    BY <1>1, <2>1, <2>2, RowDrawn
<1> QED
  BY <1>2, <1>3

-----------------------------------------------------------------------------
(* Opacity is noted.                                                       *)

(* The rows of a frame, in all passes.                                     *)
RowCount(height) == height * (IF file.interlaced THEN Passes ELSE 1)

OpaqueUpTo(data, n) ==
  \A k \in 1 .. Len(data) : k <= n => data[k] \notin file.translucent

(* The rows drawn so far have told the flag, and are in a buffer that was  *)
(* set up for them.                                                        *)
Noted(f, s) ==
  /\ file.alpha /\ ~s.saw_alpha => OpaqueUpTo(s.data, Needed)
  /\ s.data # <<>> /\ Needed # 0 => s.buffers[f].status # "kFrameEmpty"

(* The rows of the session are those of the frame.                         *)
Fits(f) ==
  SessionHeight \in Nat /\ SessionHeight = frame_info[f].frame_rect.height

(* A row without alpha leaves the flag as it was.                          *)
LEMMA RowNotes ==
  ASSUME FileInv, NEW f, NEW s, Drawing(f, s), NEW row, NEW byte,
         ~(row > s.buffers[f].rect.height),
         NEW t, t = RowAvailable(f, s, row, byte), file.alpha, ~t.saw_alpha
  PROVE  ~s.saw_alpha /\ byte \notin file.translucent
<1> DEFINE combining == s.interlaced # NoBuffer
           drawn == (IF combining THEN s.interlaced[row] ELSE {}) \cup {byte}
           i == IF combining THEN [s.interlaced EXCEPT ![row] = drawn]
                ELSE s.interlaced
           old == s.buffers[f].rows[s.buffers[f].rect.y + row]
           v == IF BlendsOverPrevious(f) THEN Append(old, drawn)
                ELSE <<drawn>>
           a == IF decode_to_half_float THEN file.alpha
                ELSE s.saw_alpha \/ (file.alpha /\ drawn \cap file.translucent # {})
           new == [s.buffers EXCEPT ![f].rows[s.buffers[f].rect.y + row] = v]
<1>1. t = [s EXCEPT !.interlaced = i, !.buffers = new, !.saw_alpha = a]
  BY DEF RowAvailable
<1>2. t.saw_alpha = a
  <2> HIDE DEF i, new, a
  <2> QED
    BY <1>1 DEF Drawing
<1>3. ~a
  BY <1>2
<1>4. byte \in drawn
  OBVIOUS
<1> QED
  BY <1>3, <1>4

(* An empty buffer is set up, and the flag with it.                        *)
LEMMA BufferNotes ==
  ASSUME NEW f, NEW s, Drawing(f, s), NEW writable,
         NEW t, t = WithBuffer(f, s, writable)
  PROVE  IF s.buffers[f].status = "kFrameEmpty" THEN t.saw_alpha = FALSE
         ELSE t = s
<1>1. CASE s.buffers[f].status # "kFrameEmpty"
  BY <1>1 DEF WithBuffer
<1>2. CASE s.buffers[f].status = "kFrameEmpty"
  <2> DEFINE new == InitFrameBuffer(f, s.buffers, writable)
  <2> HIDE DEF new
  <2>1. PICK i : t = [s EXCEPT !.buffers = new, !.saw_alpha = FALSE,
                               !.interlaced = i]
    BY <1>2 DEF WithBuffer, new
  <2>2. t.saw_alpha = FALSE
    BY <2>1 DEF Drawing
  <2> QED
    BY <1>2, <2>2
<1> QED
  BY <1>1, <1>2

LEMMA NeededTyped ==
  ASSUME FileInv, SessionHeight \in Nat
  PROVE  Needed \in Nat /\ (Needed # 0 => SessionHeight # 0)
<1>1. Passes \in Nat
  BY DecoderAssumption
<1>2. PICK p \in Nat : p = IF file.interlaced THEN Passes ELSE 1
  BY <1>1
<1>3. Needed = SessionHeight * p
  BY <1>2 DEF Needed
<1>4. PICK h \in Nat : h = SessionHeight
  OBVIOUS
<1>5. h * p \in Nat /\ (h = 0 => h * p = 0)
  BY <1>2, <1>4
<1> QED
  BY <1>3, <1>4, <1>5

LEMMA ScanNotes ==
  ASSUME CacheInv, FileInv, NEW f \in 1 .. Known, NEW s, Drawing(f, s),
         s.data \in Seq(Nat), Fits(f), Noted(f, s), NEW byte \in Nat,
         NEW writable
  PROVE  Noted(f, Scan(f, s, byte, writable))
<1> DEFINE fed == [s EXCEPT !.data = Append(@, byte)]
           row == (Len(s.data) % SessionHeight) + 1
<1>1. /\ Drawing(f, fed) /\ fed.data = Append(s.data, byte)
      /\ fed.saw_alpha = s.saw_alpha /\ fed.buffers = s.buffers
  BY DEF Drawing
<1>2. PICK h \in Nat, n \in Nat, len \in Nat :
        h = SessionHeight /\ n = Needed /\ len = Len(s.data)
  BY NeededTyped DEF Fits
<1>3. n # 0 => h # 0
  BY <1>2, NeededTyped DEF Fits
<1>4. PICK d : d = Append(s.data, byte)
  OBVIOUS
<1>5. /\ d \in Seq(Nat) /\ Len(d) = len + 1 /\ d[len + 1] = byte
      /\ \A k \in 1 .. len : d[k] = s.data[k]
  BY <1>2, <1>4
<1>6. /\ file.alpha /\ ~s.saw_alpha => OpaqueUpTo(s.data, n)
      /\ len # 0 /\ n # 0 => s.buffers[f].status # "kFrameEmpty"
  BY <1>2 DEF Noted
<1> HIDE DEF fed, row
<1>7. CASE len >= n
  <2>1. Scan(f, s, byte, writable) = fed
    BY <1>2, <1>7 DEF Scan, fed
  <2>2. OpaqueUpTo(s.data, n) => OpaqueUpTo(d, n)
    <3> SUFFICES ASSUME OpaqueUpTo(s.data, n), NEW k \in 1 .. len + 1, k <= n
                 PROVE  d[k] \notin file.translucent
      BY <1>5 DEF OpaqueUpTo
    <3>1. k \in 1 .. len
      BY <1>7
    <3> QED
      BY <1>2, <1>5, <3>1 DEF OpaqueUpTo
  <2>3. n # 0 => len # 0
    BY <1>7
  <2>4. /\ file.alpha /\ ~fed.saw_alpha => OpaqueUpTo(d, n)
        /\ n # 0 => fed.buffers[f].status # "kFrameEmpty"
    BY <1>1, <1>6, <2>2, <2>3
  <2> QED
    BY <1>1, <1>2, <1>4, <2>1, <2>4 DEF Noted
<1>8. CASE ~(len >= n)
  <2>1. PICK ready : ready = WithBuffer(f, fed, writable)
    OBVIOUS
  <2>2. Drawing(f, ready) /\ ready.data = d
        /\ ready.buffers[f].status # "kFrameEmpty"
    BY <1>1, <1>4, <2>1, BufferReady
  <2>3. PICK t : t = RowAvailable(f, ready, row, byte)
    OBVIOUS
  <2>4. Scan(f, s, byte, writable) = t
    BY <1>2, <1>8, <2>1, <2>3 DEF Scan, fed, row
  <2>5. t.data = d /\ t.buffers[f].status # "kFrameEmpty"
    BY <2>2, <2>3, RowDrawn
  <2>6. ASSUME file.alpha, ~ready.saw_alpha PROVE OpaqueUpTo(s.data, n)
    <3>1. CASE fed.buffers[f].status = "kFrameEmpty"
      <4>1. len = 0
        BY <1>1, <1>6, <1>8, <3>1
      <4> QED
        BY <1>2, <4>1 DEF OpaqueUpTo
    <3>2. CASE fed.buffers[f].status # "kFrameEmpty"
      <4>1. ready = fed
        BY <1>1, <2>1, <3>2, BufferNotes
      <4> QED
        BY <1>1, <1>6, <2>6, <4>1
    <3> QED
      BY <3>1, <3>2
  <2>7. ~(row > ready.buffers[f].rect.height)
    <3>1. ready.buffers[f].rect = frame_info[f].frame_rect
      <4>1. IsBuffer(ready.buffers[f], f)
        BY <2>2 DEF Drawing, AreBuffers
      <4> QED
        BY <4>1 DEF IsBuffer
    <3>2. h > 0 /\ row = (len % h) + 1
      BY <1>2, <1>3, <1>8 DEF row
    <3>3. len % h \in 0 .. h - 1
      BY <3>2
    <3> QED
      BY <1>2, <3>1, <3>2, <3>3 DEF Fits
  <2>8. ASSUME file.alpha, ~t.saw_alpha PROVE OpaqueUpTo(d, n)
    <3>1. ~ready.saw_alpha /\ byte \notin file.translucent
      BY <2>2, <2>3, <2>7, <2>8, RowNotes
    <3>2. OpaqueUpTo(s.data, n)
      BY <2>6, <2>8, <3>1
    <3> SUFFICES ASSUME NEW k \in 1 .. len + 1, k <= n
                 PROVE  d[k] \notin file.translucent
      BY <1>5 DEF OpaqueUpTo
    <3>3. CASE k = len + 1
      BY <1>5, <3>1, <3>3
    <3>4. CASE k # len + 1
      <4>1. k \in 1 .. len
        BY <3>4
      <4> QED
        BY <1>2, <1>5, <3>2, <4>1 DEF OpaqueUpTo
    <3> QED
      BY <3>3, <3>4
  <2> QED
    BY <1>2, <2>4, <2>5, <2>8 DEF Noted
<1> QED
  BY <1>7, <1>8

-----------------------------------------------------------------------------
(* Data is drawn.                                                          *)

(* The offsets of a set, in the order of the file.                         *)
LEMMA InOrderTyped ==
  ASSUME NEW D, IsBounded(D)
  PROVE  InOrder(D) \in Seq(Nat)
<1>1. PICK n \in Nat : D \subseteq 0 .. n
  BY DEF IsBounded
<1>2. PICK g : /\ InOrder(D) = g[D]
               /\ g[{}] = <<>>
               /\ \A s \in SUBSET D : s # {} =>
                    g[s] = Append(g[s \ {Max(s)}], Max(s))
  BY InOrderUnfolds
<1> DEFINE S == {m \in Nat : \A s \in SUBSET D : s \subseteq 0 .. m - 1 =>
                               g[s] \in Seq(Nat)}
<1>3. 0 \in S
  <2>1. \A s : s \subseteq 0 .. 0 - 1 => s = {}
    OBVIOUS
  <2>2. <<>> \in Seq(Nat)
    OBVIOUS
  <2>3. \A s \in SUBSET D : s \subseteq 0 .. 0 - 1 => g[s] \in Seq(Nat)
    BY <1>2, <2>1, <2>2, Zenon
  <2> QED
    BY <2>3
<1>4. ASSUME NEW m \in Nat, m \in S PROVE m + 1 \in S
  <2> SUFFICES ASSUME NEW s \in SUBSET D, s \subseteq 0 .. (m + 1) - 1
               PROVE  g[s] \in Seq(Nat)
    OBVIOUS
  <2>1. CASE s = {}
    <3>1. <<>> \in Seq(Nat)
      OBVIOUS
    <3> QED
      BY <1>2, <2>1, <3>1, Zenon
  <2>2. CASE s # {}
    <3>1. PICK x : x = Max(s)
      OBVIOUS
    <3>2. x \in s /\ (\A y \in s : y <= x) /\ s \subseteq 0 .. m
      <4>1. s \subseteq 0 .. m
        OBVIOUS
      <4> QED
        BY <2>2, <3>1, <4>1, GreatestNatural
    <3>3. x \in Nat /\ x <= m
      BY <3>2
    <3>4. PICK r : r = s \ {x}
      OBVIOUS
    <3>5. r \in SUBSET D /\ r \subseteq 0 .. m - 1
      BY <3>2, <3>3, <3>4
    <3>6. g[r] \in Seq(Nat)
      BY <1>4, <3>5
    <3>7. Append(g[r], x) \in Seq(Nat)
      <4>1. PICK t : t = g[r]
        OBVIOUS
      <4>2. Append(t, x) \in Seq(Nat)
        BY <3>3, <3>6, <4>1
      <4> QED
        BY <4>1, <4>2
    <3> QED
      BY <1>2, <2>2, <3>1, <3>4, <3>7, Zenon
  <2> QED
    BY <2>1, <2>2
<1>5. n + 1 \in S
  <2> HIDE DEF S
  <2> QED
    BY <1>3, <1>4, SetInduction
<1>6. D \subseteq 0 .. (n + 1) - 1
  BY <1>1
<1> QED
  BY <1>2, <1>5, <1>6

LEMMA AppendedBehind ==
  ASSUME NEW u \in Seq(Nat), NEW v \in Seq(Nat), NEW x \in Nat
  PROVE  /\ Append(u \o v, x) = u \o Append(v, x)
         /\ Append(v, x) \in Seq(Nat)
<1>1. /\ u \o v \in Seq(Nat) /\ Len(u \o v) = Len(u) + Len(v)
      /\ Append(v, x) \in Seq(Nat) /\ Len(Append(v, x)) = Len(v) + 1
  OBVIOUS
<1>2. /\ Append(u \o v, x) \in Seq(Nat) /\ u \o Append(v, x) \in Seq(Nat)
      /\ Len(Append(u \o v, x)) = Len(u) + Len(v) + 1
      /\ Len(u \o Append(v, x)) = Len(u) + Len(v) + 1
  BY <1>1
<1>3. ASSUME NEW i \in 1 .. Len(u) + Len(v) + 1
      PROVE  Append(u \o v, x)[i] = (u \o Append(v, x))[i]
  <2>1. CASE i <= Len(u)
    BY <1>1, <2>1
  <2>2. CASE i > Len(u) /\ i <= Len(u) + Len(v)
    BY <1>1, <2>2
  <2>3. CASE i = Len(u) + Len(v) + 1
    BY <1>1, <2>3
  <2> QED
    BY <1>1, <2>1, <2>2, <2>3
<1> QED
  BY <1>1, <1>2, <1>3, SeqEqual

(* What feeding the data in D does: the rows are drawn, with the           *)
(* translucent ones noted, and libpng has been given D behind what it had. *)
LEMMA DataDrawn ==
  ASSUME CacheInv, FileInv, current_buffer_saw_alpha \in BOOLEAN,
         png.data \in Seq(Nat), NEW f \in 1 .. Known,
         NEW D, IsBounded(D), NEW writable
  PROVE  /\ Drawing(f, RowStateAfter(f, D, writable))
         /\ RowStateAfter(f, D, writable).data = png.data \o InOrder(D)
         /\ Fits(f) /\ Noted(f, RowState)
              => Noted(f, RowStateAfter(f, D, writable))
<1>1. PICK n \in Nat : D \subseteq 0 .. n
  BY DEF IsBounded
<1>2. PICK g : Scans(g, f, D, writable)
  BY ScanUnfolds
<1>3. /\ RowStateAfter(f, D, writable) = g[D]
      /\ g[{}] = RowState
      /\ \A s \in SUBSET D : s # {} =>
           g[s] = Scan(f, g[s \ {Max(s)}], Max(s), writable)
  BY <1>2 DEF Scans
<1>4. PICK h : /\ InOrder(D) = h[D]
               /\ h[{}] = <<>>
               /\ \A s \in SUBSET D : s # {} =>
                    h[s] = Append(h[s \ {Max(s)}], Max(s))
  BY InOrderUnfolds
<1> DEFINE Good(s) == /\ Drawing(f, g[s])
                      /\ h[s] \in Seq(Nat)
                      /\ g[s].data = png.data \o h[s]
                      /\ Fits(f) /\ Noted(f, RowState) => Noted(f, g[s])
           S == {m \in Nat : \A s \in SUBSET D : s \subseteq 0 .. m - 1 => Good(s)}
<1>5. Good({})
  <2>1. Drawing(f, RowState)
    BY DrawingStarts
  <2>2. RowState.data = png.data
    BY DEF RowState
  <2>3. png.data \o <<>> = png.data
    OBVIOUS
  <2> QED
    BY <1>3, <1>4, <2>1, <2>2, <2>3
<1>6. 0 \in S
  <2>1. \A s : s \subseteq 0 .. 0 - 1 => s = {}
    OBVIOUS
  <2> HIDE DEF Good
  <2> QED
    BY <1>5, <2>1
<1>7. ASSUME NEW m \in Nat, m \in S PROVE m + 1 \in S
  <2> SUFFICES ASSUME NEW s \in SUBSET D, s \subseteq 0 .. (m + 1) - 1
               PROVE  Good(s)
    <3> HIDE DEF Good
    <3> QED
      OBVIOUS
  <2>1. CASE s = {}
    BY <1>5, <2>1
  <2>2. CASE s # {}
    <3>1. PICK x : x = Max(s)
      OBVIOUS
    <3>2. x \in s /\ (\A y \in s : y <= x) /\ s \subseteq 0 .. m
      <4>1. s \subseteq 0 .. m
        OBVIOUS
      <4> QED
        BY <2>2, <3>1, <4>1, GreatestNatural
    <3>3. x \in Nat /\ x <= m
      BY <3>2
    <3>4. PICK r : r = s \ {x}
      OBVIOUS
    <3>5. r \in SUBSET D /\ r \subseteq 0 .. m - 1
      BY <3>2, <3>3, <3>4
    <3>6. Good(r)
      BY <1>7, <3>5
    <3>7. PICK u, v : u = g[r] /\ v = h[r]
      OBVIOUS
    <3>8. g[s] = Scan(f, u, x, writable) /\ h[s] = Append(v, x)
      BY <1>3, <1>4, <2>2, <3>1, <3>4, <3>7, Zenon
    <3>9. /\ Drawing(f, u) /\ v \in Seq(Nat) /\ u.data = png.data \o v
          /\ Fits(f) /\ Noted(f, RowState) => Noted(f, u)
      BY <3>6, <3>7
    <3>10. /\ Drawing(f, Scan(f, u, x, writable))
           /\ Scan(f, u, x, writable).data = Append(u.data, x)
      BY <3>9, ScanDraws
    <3>11. /\ Append(png.data \o v, x) = png.data \o Append(v, x)
           /\ Append(v, x) \in Seq(Nat)
      BY <3>3, <3>9, AppendedBehind
    <3>12. ASSUME Fits(f), Noted(f, RowState)
           PROVE  Noted(f, Scan(f, u, x, writable))
      <4>1. u.data \in Seq(Nat)
        BY <3>9
      <4> QED
        BY <3>3, <3>9, <3>12, <4>1, ScanNotes
    <3> QED
      BY <3>8, <3>9, <3>10, <3>11, <3>12
  <2> QED
    BY <2>1, <2>2
<1>8. n + 1 \in S
  <2> HIDE DEF S
  <2> QED
    BY <1>6, <1>7, SetInduction
<1>9. D \subseteq 0 .. (n + 1) - 1
  BY <1>1
<1>10. Good(D)
  <2> HIDE DEF Good
  <2> QED
    BY <1>8, <1>9
<1> QED
  BY <1>3, <1>4, <1>10

-----------------------------------------------------------------------------
(* The frames to decode.                                                   *)

(* The frame that k starts from is there.                                  *)
Ready(k) ==
  \/ frame_buffer_cache[k].required = kNotFound
  \/ frame_buffer_cache[frame_buffer_cache[k].required].status
       = "kFrameComplete"

(* Each frame starts from the one in front of it.                          *)
Linked(frames_to_decode) ==
  \A n \in 1 .. Len(frames_to_decode) - 1 :
    frame_buffer_cache[frames_to_decode[n + 1]].required = frames_to_decode[n]

LEMMA LinkedAppend ==
  ASSUME NEW X, NEW t \in Seq(X), t # <<>>, Linked(t), NEW k \in X,
         frame_buffer_cache[k].required = t[Len(t)]
  PROVE  /\ Append(t, k) \in Seq(X) /\ Append(t, k) # <<>>
         /\ Append(t, k)[Len(Append(t, k))] = k
         /\ Head(Append(t, k)) = Head(t)
         /\ Linked(Append(t, k))
<1>1. PICK n \in Nat : Len(t) = n /\ n > 0
  OBVIOUS
<1>2. PICK u : u = Append(t, k)
  OBVIOUS
<1>3. /\ u \in Seq(X) /\ Len(u) = n + 1 /\ u[n + 1] = k
      /\ \A m \in 1 .. n : u[m] = t[m]
  BY <1>1, <1>2
<1>4. u # <<>> /\ Head(u) = Head(t)
  BY <1>1, <1>3
<1>5. Linked(u)
  <2> SUFFICES ASSUME NEW m \in 1 .. n
               PROVE  frame_buffer_cache[u[m + 1]].required = u[m]
    BY <1>3 DEF Linked
  <2>1. CASE m = n
    BY <1>1, <1>3, <2>1
  <2>2. CASE m # n
    <3>1. m \in 1 .. n - 1 /\ m + 1 \in 1 .. n
      BY <2>2
    <3> QED
      BY <1>1, <1>3, <3>1 DEF Linked
  <2> QED
    BY <2>1, <2>2
<1> QED
  BY <1>2, <1>3, <1>4, <1>5

(* The list for frame i leads from a frame that can be drawn up to i.      *)
LEMMA FramesListed ==
  ASSUME CacheInv, NEW i \in 1 .. Known, NEW t, t = FramesToDecode(i)
  PROVE  /\ t \in Seq(1 .. Known) /\ t # <<>> /\ t[Len(t)] = i
         /\ Linked(t) /\ Ready(Head(t))
<1> DEFINE r(k) == frame_buffer_cache[k].required
           Body(f, k) == IF Ready(k) THEN <<k>> ELSE Append(f[r(k)], k)
           upTo == CHOOSE f : f = [k \in 1 .. Known |-> Body(f, k)]
<1>1. t = upTo[i]
  BY DEF FramesToDecode, Ready
<1>2. Known \in Nat /\ \A k \in 1 .. Known : r(k) \in 0 .. k - 1
  BY ListFacts DEF CacheInv, AreBuffers, IsBuffer, Known
<1>3. \A k \in 1 .. Known : ~Ready(k) => r(k) \in 1 .. k - 1
  BY <1>2 DEF Ready, kNotFound
<1> DEFINE T == {m \in Nat :
                   m <= Known => \E h : h = [k \in 1 .. m |-> Body(h, k)]}
<1>4. 0 \in T
  <2> DEFINE h == [k \in 1 .. 0 |-> <<>>]
  <2>1. h = [k \in 1 .. 0 |-> Body(h, k)]
    <3>1. \A k \in 1 .. 0 : FALSE
      OBVIOUS
    <3> QED
      BY <3>1
  <2> HIDE DEF h, Body
  <2> QED
    BY <2>1
<1>5. ASSUME NEW m \in Nat, m \in T PROVE m + 1 \in T
  <2> SUFFICES ASSUME m + 1 <= Known
               PROVE  \E h : h = [k \in 1 .. m + 1 |-> Body(h, k)]
    OBVIOUS
  <2>1. PICK h : h = [k \in 1 .. m |-> Body(h, k)]
    BY <1>2, <1>5
  <2> DEFINE j == [k \in 1 .. m + 1 |-> IF k = m + 1 THEN Body(h, k) ELSE h[k]]
  <2>2. ASSUME NEW k \in 1 .. m + 1 PROVE j[k] = Body(j, k)
    <3>1. CASE Ready(k)
      <4>1. k # m + 1 => k \in 1 .. m
        OBVIOUS
      <4>2. k # m + 1 => h[k] = <<k>>
        BY <2>1, <3>1, <4>1
      <4> QED
        BY <3>1, <4>2
    <3>2. CASE ~Ready(k)
      <4> HIDE DEF r
      <4>1. r(k) \in 1 .. k - 1 /\ k \in 1 .. Known
        BY <1>2, <1>3, <3>2
      <4>2. r(k) \in 1 .. m + 1 /\ r(k) # m + 1 /\ r(k) \in 1 .. m
        BY <4>1
      <4>3. j[r(k)] = h[r(k)]
        BY <4>2
      <4>4. j[k] = Append(h[r(k)], k)
        <5>1. CASE k = m + 1
          BY <3>2, <5>1
        <5>2. CASE k # m + 1
          <6>1. k \in 1 .. m
            BY <5>2
          <6>2. h[k] = Append(h[r(k)], k)
            BY <2>1, <3>2, <6>1
          <6> QED
            BY <5>2, <6>2
        <5> QED
          BY <5>1, <5>2
      <4> HIDE DEF j
      <4> QED
        BY <3>2, <4>3, <4>4
    <3> QED
      BY <3>1, <3>2
  <2>3. j = [k \in 1 .. m + 1 |-> Body(j, k)]
    <3> HIDE DEF Body
    <3>1. j = [k \in 1 .. m + 1 |-> j[k]]
      OBVIOUS
    <3> HIDE DEF j
    <3> QED
      BY <2>2, <3>1
  <2> HIDE DEF j, Body
  <2> QED
    BY <2>3
<1>6. PICK h : h = [k \in 1 .. Known |-> Body(h, k)]
  <2>1. Known \in T
    <3> HIDE DEF T
    <3> QED
      BY <1>2, <1>4, <1>5, SetInduction
  <2> QED
    BY <1>2, <2>1
<1>7. upTo = [k \in 1 .. Known |-> Body(upTo, k)]
  <2> HIDE DEF Body
  <2> QED
    BY <1>6
<1> HIDE DEF upTo
<1> DEFINE Good(u, k) == /\ u \in Seq(1 .. Known) /\ u # <<>>
                         /\ u[Len(u)] = k
                         /\ Linked(u) /\ Ready(Head(u))
           U == {m \in Nat : \A k \in 1 .. Known : k <= m => Good(upTo[k], k)}
<1>8. 0 \in U
  OBVIOUS
<1>9. ASSUME NEW m \in Nat, m \in U PROVE m + 1 \in U
  <2> SUFFICES ASSUME NEW k \in 1 .. Known, k <= m + 1
               PROVE  Good(upTo[k], k)
    <3> HIDE DEF Good
    <3> QED
      OBVIOUS
  <2>1. CASE k <= m
    <3> HIDE DEF Good
    <3> QED
      BY <1>9, <2>1
  <2>2. CASE k = m + 1 /\ Ready(k)
    <3>1. upTo[k] = <<k>>
      BY <1>7, <2>2
    <3>2. Linked(<<k>>)
      <4>1. \A n \in 1 .. Len(<<k>>) - 1 : FALSE
        OBVIOUS
      <4> QED
        BY <4>1 DEF Linked
    <3>3. <<k>> \in Seq(1 .. Known) /\ <<k>> # <<>> /\ Head(<<k>>) = k
          /\ <<k>>[Len(<<k>>)] = k
      OBVIOUS
    <3> QED
      BY <2>2, <3>1, <3>2, <3>3
  <2>3. CASE k = m + 1 /\ ~Ready(k)
    <3>1. PICK q : q = r(k)
      OBVIOUS
    <3>2. q \in 1 .. k - 1
      BY <1>3, <2>3, <3>1
    <3>3. PICK u : u = upTo[q]
      OBVIOUS
    <3>4. Good(u, q)
      <4>1. q \in 1 .. Known /\ q <= m
        BY <1>2, <2>3, <3>2
      <4> HIDE DEF Good
      <4> QED
        BY <1>9, <3>3, <4>1
    <3>5. upTo[k] = Append(u, k)
      BY <1>7, <2>3, <3>1, <3>3
    <3>6. frame_buffer_cache[k].required = u[Len(u)]
      BY <3>1, <3>4
    <3>7. /\ Append(u, k) \in Seq(1 .. Known) /\ Append(u, k) # <<>>
          /\ Append(u, k)[Len(Append(u, k))] = k
          /\ Head(Append(u, k)) = Head(u)
          /\ Linked(Append(u, k))
      <4>1. PICK X : X = 1 .. Known
        OBVIOUS
      <4>2. u \in Seq(X) /\ u # <<>> /\ Linked(u) /\ k \in X
        BY <3>4, <4>1
      <4>3. /\ Append(u, k) \in Seq(X) /\ Append(u, k) # <<>>
            /\ Append(u, k)[Len(Append(u, k))] = k
            /\ Head(Append(u, k)) = Head(u)
            /\ Linked(Append(u, k))
        BY <3>6, <4>2, LinkedAppend, Zenon
      <4> QED
        BY <4>1, <4>3
    <3>8. Ready(Head(u))
      BY <3>4
    <3> QED
      BY <3>5, <3>7, <3>8, Zenon
  <2> QED
    BY <1>2, <2>1, <2>2, <2>3
<1>10. i \in U
  <2> HIDE DEF U
  <2>1. Nat \subseteq U
    BY <1>8, <1>9, SetInduction
  <2> QED
    BY <1>2, <2>1
<1>11. Good(upTo[i], i)
  <2> HIDE DEF Good
  <2> QED
    BY <1>2, <1>10
<1> QED
  BY <1>1, <1>11

-----------------------------------------------------------------------------
(* The invariant of the decoder.                                           *)

Calls == {"sizing", "counting", "parsing"}
Loops == {"progressive", "whole"}

RequestInv ==
  /\ step \in {"idle", "frames", "decoded"} \cup Calls \cup Loops
  /\ all_data \in BOOLEAN
  /\ all_data => received = file.size
  /\ index \in Nat \ {0}
  /\ step = "parsing" => index <= Known
  /\ step \in Loops \cup {"frames", "decoded"} => ~failed
  /\ current_buffer_saw_alpha \in BOOLEAN

(* The list of the frames that are still to be decoded.                    *)
Prepared(k) == frame_buffer_cache[k].status = "kFrameEmpty" => Ready(k)

TodoInv ==
  /\ todo \in Seq(1 .. Known)
  /\ step \in Loops \cup {"decoded"} => todo # <<>> /\ current_frame = Head(todo)
  /\ step \in Loops \cup {"frames", "decoded"} => Linked(todo)
  /\ step \in Loops \cup {"frames"} /\ todo # <<>> => Prepared(Head(todo))

(* A libpng session.                                                       *)
Session == [exists : BOOLEAN, ihdr_of : Nat, data : Seq(Nat)]

(* Where the loops of the reader stand: at the beginning of a chunk, and   *)
(* behind chunks of the frame only.                                        *)
OffsetInv ==
  /\ offset \in Nat
  /\ progressive_decode_offset \in Nat
  /\ png \in Session
  /\ step \in Loops =>
       /\ is_animated
       /\ frame_info[current_frame].start_offset <= offset
       /\ offset + 8 <= received => offset \in DOMAIN file.chunk
       /\ \A o \in DOMAIN file.chunk :
            frame_info[current_frame].start_offset <= o /\ o < offset
              => ~EndsFrame(o)
  /\ step = "progressive" =>
       /\ current_frame = 1
       /\ \/ offset = frame_info[1].start_offset
          \/ offset <= progressive_decode_offset
  /\ step = "whole" =>
       /\ progressive_decode_offset = 0
       /\ frame_info[current_frame].byte_length # kFirstFrameIndicator
       /\ offset <= frame_info[current_frame].start_offset
                      + frame_info[current_frame].byte_length

DecoderInv ==
  ParserInv /\ RequestInv /\ CacheInv /\ TodoInv /\ OffsetInv

LEMMA NoSession == NoPng \in Session
<1>1. <<>> \in Seq(Nat)
  OBVIOUS
<1> QED
  BY <1>1 DEF NoPng, Session

-----------------------------------------------------------------------------
(* The cache and the list of frames after a step.                          *)

LEMMA KnownTyped ==
  ASSUME CacheInv
  PROVE  /\ Known \in Nat /\ DOMAIN frame_buffer_cache = 1 .. Known
         /\ Known = Len(frame_buffer_cache)
BY ListFacts DEF CacheInv, AreBuffers, Known

LEMMA KnownStaysTyped ==
  ASSUME CacheInv'
  PROVE  Known' \in Nat
BY ListFacts DEF CacheInv, AreBuffers, Known

(* The buffers stay as they are while frames are registered.               *)
LEMMA BuffersStay ==
  ASSUME ParserInv, ParserKept, CacheInv, UNCHANGED frame_buffer_cache
  PROVE  CacheInv'
<1>1. Known \in Nat /\ Len(frame_info) \in Nat /\ Len(frame_info') \in Nat
      /\ DOMAIN frame_info = 1 .. Len(frame_info)
      /\ Len(frame_info) <= Len(frame_info')
  <2>1. frame_info \in Seq(FrameInfo)
    BY DEF ParserInv, IInv, TypeOK, RecordsOK
  <2>2. FramesKept
    BY DEF ParserKept
  <2>3. \A i \in DOMAIN frame_info : i \in DOMAIN frame_info'
    BY <2>2 DEF FramesKept
  <2> QED
    BY <2>1, <2>2, KnownTyped DEF FramesKept
<1>2. ASSUME NEW i \in 1 .. Known PROVE IsBuffer(frame_buffer_cache[i], i)'
  <2>1. i \in DOMAIN frame_info /\ frame_info # <<>>
    BY <1>1 DEF CacheInv
  <2>2. UNCHANGED ihdr
    <3>1. size_available
      BY <2>1 DEF ParserInv, RegisteredInv
    <3> QED
      BY <3>1 DEF ParserKept, SizeVars
  <2>3. SameFrame(frame_info[i], frame_info'[i])
    BY <2>1 DEF ParserKept, FramesKept
  <2>4. IsBuffer(frame_buffer_cache[i], i)
    BY DEF CacheInv, AreBuffers, Known
  <2> QED
    BY <2>2, <2>3, <2>4 DEF IsBuffer, SameFrame
<1>3. Known' = Known /\ IsList(frame_buffer_cache)'
  BY DEF Known, CacheInv, AreBuffers
<1> QED
  BY <1>1, <1>2, <1>3 DEF CacheInv, AreBuffers, Known

(* Other buffers for the frames there are.                                 *)
LEMMA BuffersMove ==
  ASSUME UNCHANGED <<frame_info, ihdr>>, NEW new, AreBuffers(new),
         Len(new) <= Len(frame_info), frame_buffer_cache' = new
  PROVE  CacheInv'
<1>1. \A i \in 1 .. Len(new) : IsBuffer(frame_buffer_cache[i], i)'
  BY DEF AreBuffers, IsBuffer
<1> QED
  BY <1>1 DEF CacheInv, AreBuffers, Known

(* A frame is complete.                                                    *)
LEMMA BufferCompleted ==
  ASSUME NEW buffers, AreBuffers(buffers), NEW f \in 1 .. Len(buffers),
         NEW saw_alpha \in BOOLEAN,
         NEW new, new = Completed(buffers, f, saw_alpha)
  PROVE  /\ AreBuffers(new) /\ Len(new) = Len(buffers)
         /\ \A k \in 1 .. Len(buffers) : new[k].required = buffers[k].required
         /\ new[f].status = "kFrameComplete"
         /\ new[f].opaque = ~saw_alpha
         /\ new[f].rows = buffers[f].rows
         /\ \A k \in 1 .. Len(buffers) : k # f => new[k] = buffers[k]
<1>1. PICK opaque \in BOOLEAN : opaque = ~saw_alpha
  OBVIOUS
<1>2. PICK b : b = Finished(buffers[f], opaque)
  OBVIOUS
<1>3. IsBuffer(buffers[f], f) /\ DOMAIN buffers = 1 .. Len(buffers)
  BY ListFacts DEF AreBuffers
<1>4. IsBuffer(b, f) /\ b.status = "kFrameComplete"
      /\ b.required = buffers[f].required /\ b.opaque = opaque
      /\ b.rows = buffers[f].rows
  BY <1>2, <1>3, BufferFinished
<1>5. new = Put(buffers, f, b)
  BY <1>1, <1>2, <1>3 DEF Completed, Put, Finished
<1>6. /\ AreBuffers(new) /\ Len(new) = Len(buffers) /\ new[f] = b
      /\ \A k \in 1 .. Len(buffers) : k # f => new[k] = buffers[k]
  BY <1>4, <1>5, BufferReplaced
<1> QED
  BY <1>1, <1>4, <1>6

(* Buffers are cleared.                                                    *)
ClearedCache(S) ==
  [i \in 1 .. Known |->
     IF i \in S
       THEN [frame_buffer_cache[i] EXCEPT !.status = "kFrameEmpty", !.rows = Blank]
       ELSE frame_buffer_cache[i]]

LEMMA BuffersCleared ==
  ASSUME CacheInv, NEW S,
         NEW new, new = ClearedCache(S)
  PROVE  /\ AreBuffers(new) /\ Len(new) = Known
         /\ \A k \in 1 .. Known :
              new[k].required = frame_buffer_cache[k].required
         /\ \A k \in 1 .. Known : k \notin S => new[k] = frame_buffer_cache[k]
         /\ \A k \in 1 .. Known : k \in S => new[k].status = "kFrameEmpty"
<1>1. Known \in Nat
  BY KnownTyped
<1>2. IsList(new) /\ Len(new) = Known
  <2>1. new = [i \in 1 .. Known |-> new[i]]
    BY DEF ClearedCache
  <2> QED
    BY <1>1, <2>1, ListOf
<1>3. ASSUME NEW k \in 1 .. Known
      PROVE  /\ IsBuffer(new[k], k)
             /\ new[k].required = frame_buffer_cache[k].required
             /\ k \in S => new[k].status = "kFrameEmpty"
  <2>1. IsBuffer(frame_buffer_cache[k], k)
    BY DEF CacheInv, AreBuffers, Known
  <2>2. CASE k \notin S
    BY <2>1, <2>2 DEF ClearedCache
  <2>3. CASE k \in S
    <3>1. PICK b, rows, status :
            b = frame_buffer_cache[k] /\ rows = Blank /\ status = "kFrameEmpty"
      OBVIOUS
    <3>2. PICK c : c = Rewritten(b, rows, status)
      OBVIOUS
    <3>3. new[k] = c
      BY <2>3, <3>1, <3>2 DEF Rewritten, ClearedCache
    <3>4. /\ DOMAIN rows = 1 .. ihdr.height /\ status \in Statuses
          /\ IsBuffer(b, k)
      BY <2>1, <3>1 DEF Blank, Statuses
    <3>5. IsBuffer(c, k) /\ c.status = status /\ c.required = b.required
      BY <3>2, <3>4 DEF IsBuffer, Rewritten
    <3> QED
      BY <3>1, <3>3, <3>5
  <2> QED
    BY <2>2, <2>3
<1>4. \A k \in 1 .. Known : k \notin S => new[k] = frame_buffer_cache[k]
  BY DEF ClearedCache
<1> QED
  BY <1>2, <1>3, <1>4 DEF AreBuffers

(* The list stays linked while the frames need what they needed.           *)
LEMMA LinkedKept ==
  ASSUME NEW t, t \in Seq(1 .. Known), Linked(t),
         \A k \in 1 .. Known : frame_buffer_cache'[k].required
                                 = frame_buffer_cache[k].required,
         todo' = t
  PROVE  Linked(todo)'
<1> SUFFICES ASSUME NEW n \in 1 .. Len(t) - 1
             PROVE  frame_buffer_cache'[t[n + 1]].required = t[n]
  BY DEF Linked
<1>1. t[n + 1] \in 1 .. Known
  <2>1. PICK l \in Nat : Len(t) = l
    OBVIOUS
  <2>2. n + 1 \in 1 .. Len(t)
    BY <2>1
  <2>3. PICK X : X = 1 .. Known
    OBVIOUS
  <2>4. t \in Seq(X)
    BY <2>3
  <2>5. t[n + 1] \in X
    BY <2>2, <2>4
  <2> QED
    BY <2>3, <2>5
<1> QED
  BY <1>1 DEF Linked

LEMMA TailLinked ==
  ASSUME NEW X, NEW t \in Seq(X), t # <<>>, Linked(t)
  PROVE  /\ Tail(t) \in Seq(X)
         /\ Linked(Tail(t))
         /\ Tail(t) # <<>> =>
              frame_buffer_cache[Head(Tail(t))].required = Head(t)
<1>1. PICK n \in Nat : Len(t) = n + 1
  <2>1. Len(t) \in Nat /\ Len(t) # 0
    OBVIOUS
  <2>2. Len(t) - 1 \in Nat /\ (Len(t) - 1) + 1 = Len(t)
    BY <2>1
  <2> QED
    BY <2>2
<1>2. PICK u : u = Tail(t)
  OBVIOUS
<1>3. u \in Seq(X) /\ Len(u) = n /\ \A k \in 1 .. n : u[k] = t[k + 1]
  BY <1>1, <1>2
<1>4. Linked(u)
  <2> SUFFICES ASSUME NEW k \in 1 .. n - 1
               PROVE  frame_buffer_cache[u[k + 1]].required = u[k]
    BY <1>3 DEF Linked
  <2>1. /\ k + 1 \in 1 .. (n + 1) - 1 /\ k + 1 \in 1 .. n /\ k \in 1 .. n
        /\ u[k + 1] = t[(k + 1) + 1] /\ u[k] = t[k + 1]
    BY <1>3
  <2>2. frame_buffer_cache[t[(k + 1) + 1]].required = t[k + 1]
    BY <1>1, <2>1 DEF Linked
  <2> QED
    BY <2>1, <2>2
<1>5. u # <<>> => frame_buffer_cache[Head(u)].required = Head(t)
  <2> SUFFICES ASSUME u # <<>>
               PROVE  frame_buffer_cache[Head(u)].required = Head(t)
    OBVIOUS
  <2>1. n > 0 /\ Head(u) = u[1] /\ Head(t) = t[1]
    BY <1>1, <1>3
  <2>2. u[1] = t[1 + 1] /\ 1 \in 1 .. (n + 1) - 1
    BY <1>3, <2>1
  <2> QED
    BY <1>1, <2>1, <2>2 DEF Linked
<1> QED
  BY <1>2, <1>3, <1>4, <1>5

(* Steps that are not part of the decoding of a frame.                     *)
LEMMA OutsideOfLoops ==
  ASSUME DecoderInv, ParserInv', RequestInv', CacheInv',
         Known <= Known', UNCHANGED <<todo, offset>>,
         progressive_decode_offset' \in {0, progressive_decode_offset},
         png' \in {NoPng, png},
         step' \in {"idle"} \cup Calls
  PROVE  DecoderInv'
<1>1. step' \notin Loops \cup {"frames", "decoded"}
  BY DEF Calls, Loops
<1>2. 1 .. Known \subseteq 1 .. Known'
  <2>1. Known \in Nat /\ Known' \in Nat
    BY KnownTyped, KnownStaysTyped DEF DecoderInv
  <2> QED
    BY <2>1
<1>3. todo' \in Seq(1 .. Known')
  <2>1. PICK X, Y : X = 1 .. Known /\ Y = 1 .. Known'
    OBVIOUS
  <2>2. todo \in Seq(X) /\ X \subseteq Y
    BY <1>2, <2>1 DEF DecoderInv, TodoInv
  <2>3. todo \in Seq(Y)
    BY <2>2
  <2> QED
    BY <2>1, <2>3
<1>4. TodoInv'
  BY <1>1, <1>3 DEF TodoInv
<1>5. OffsetInv'
  <2>1. step' # "progressive" /\ step' # "whole" /\ step' \notin Loops
    BY <1>1 DEF Loops
  <2>2. offset' \in Nat /\ progressive_decode_offset' \in Nat
    BY DEF DecoderInv, OffsetInv
  <2>3. png' \in Session
    BY NoSession DEF DecoderInv, OffsetInv
  <2> QED
    BY <2>1, <2>2, <2>3 DEF OffsetInv
<1> QED
  BY <1>4, <1>5 DEF DecoderInv

LEMMA RequestKept ==
  ASSUME DecoderInv, ParserInv', ParserKept, CacheInv', Known <= Known',
         UNCHANGED <<all_data, index>>,
         step' \in {"idle", "frames", "decoded"} \cup Calls \cup Loops,
         step' = "parsing" => step = "parsing" \/ index <= Known',
         step' \in {"idle"} \cup Calls \/ ~failed',
         current_buffer_saw_alpha' \in BOOLEAN
  PROVE  RequestInv'
<1>1. Known \in Nat /\ Known' \in Nat
  BY KnownTyped, KnownStaysTyped DEF DecoderInv
<1>2. all_data => received' = file'.size
  <2>1. /\ received \in 0 .. file.size /\ received' \in 0 .. file'.size
        /\ file.size \in Nat
    BY DEF DecoderInv, ParserInv, IInv, TypeOK, InputOK, IsFile
  <2>2. file' = file /\ received <= received'
    BY DEF ParserKept
  <2> QED
    BY <2>1, <2>2 DEF DecoderInv, RequestInv
<1>3. step' \in Loops \cup {"frames", "decoded"} => ~failed'
  BY DEF Loops, Calls
<1> QED
  BY <1>1, <1>2, <1>3 DEF DecoderInv, RequestInv

LEMMA QuietCall ==
  ASSUME DecoderInv, ParserInv', ParserKept, UNCHANGED cache,
         UNCHANGED <<todo, offset, all_data, index>>,
         progressive_decode_offset' \in {0, progressive_decode_offset},
         png' \in {NoPng, png},
         step' \in {"idle"} \cup Calls, step' = "parsing" => step = "parsing"
  PROVE  DecoderInv'
<1>1. UNCHANGED <<frame_buffer_cache, current_buffer_saw_alpha>>
  BY DEF cache
<1>2. CacheInv'
  BY <1>1, BuffersStay DEF DecoderInv
<1>3. Known' = Known /\ Known <= Known'
  <2>1. Known' = Known
    BY <1>1 DEF Known
  <2> QED
    BY <2>1, KnownTyped DEF DecoderInv
<1>4. current_buffer_saw_alpha' \in BOOLEAN
  BY <1>1 DEF DecoderInv, RequestInv
<1>5. RequestInv'
  BY <1>2, <1>3, <1>4, RequestKept
<1> QED
  BY <1>2, <1>3, <1>5, OutsideOfLoops

(* The failures of the reader.                                             *)
LEMMA DecodeFailsStep ==
  ASSUME DecoderInv, ParserInv', ParserKept, DecodeFails
  PROVE  DecoderInv'
<1>1. /\ UNCHANGED cache /\ UNCHANGED <<todo, offset, all_data, index>>
      /\ progressive_decode_offset' = 0 /\ png' = NoPng /\ step' = "idle"
  BY DEF DecodeFails, LoseReader, loop
<1> QED
  BY <1>1, QuietCall

(* Steps that ask, answer and parse.                                       *)
LEMMA AskingStep ==
  ASSUME DecoderInv, ParserInv', ParserKept,
         \/ AskSize \/ AskHighBitDepth \/ Parsing \/ SizeAnswered
         \/ (Decode /\ failed) \/ FinishDecode
  PROVE  DecoderInv'
<1> USE DEF call, loop, session
<1>1. CASE AskSize
  BY <1>1, QuietCall DEF AskSize, Calls
<1>2. CASE Parsing
  <2>1. step' \in {"idle"} \cup Calls
    BY <1>2 DEF Parsing, Calls
  <2> QED
    BY <1>2, <2>1, QuietCall DEF Parsing
<1>3. CASE SizeAnswered
  BY <1>3, QuietCall DEF SizeAnswered
<1>4. CASE Decode /\ failed
  BY <1>4, QuietCall DEF Decode
<1>5. CASE FinishDecode
  <2>1. CASE DecodeFails
    BY <2>1, DecodeFailsStep
  <2>2. CASE ~DecodeFails
    BY <1>5, <2>2, QuietCall DEF FinishDecode
  <2> QED
    BY <2>1, <2>2
<1>6. CASE AskHighBitDepth
  BY <1>6, QuietCall DEF AskHighBitDepth
<1> QED
  BY <1>1, <1>2, <1>3, <1>4, <1>5, <1>6

LEMMA SetDataStep ==
  ASSUME DecoderInv, ParserInv', ParserKept, SetData
  PROVE  DecoderInv'
<1> USE DEF call, loop, session, cache
<1>1. CacheInv'
  BY BuffersStay DEF DecoderInv, SetData
<1>2. Known' = Known /\ Known <= Known'
  <2>1. Known' = Known
    BY DEF Known, SetData
  <2> QED
    BY <2>1, KnownTyped DEF DecoderInv
<1>3. step = "idle" /\ step' = "idle"
  BY DEF SetData
<1>4. all_data' \in BOOLEAN /\ (all_data' => received' = file'.size)
  <2>1. file' = file
    BY DEF ParserKept
  <2>2. CASE Receive /\ all_data' \in {FALSE, received' = file.size}
    BY <2>1, <2>2
  <2>3. CASE received = file.size /\ all_data' = TRUE /\ UNCHANGED reader
    BY <2>1, <2>3 DEF reader, vars, input
  <2> QED
    BY <2>2, <2>3 DEF SetData
<1>5. RequestInv'
  BY <1>3, <1>4 DEF SetData, DecoderInv, RequestInv, Loops
<1> QED
  BY <1>1, <1>2, <1>3, <1>5, OutsideOfLoops DEF SetData

LEMMA AskFrameStep ==
  ASSUME DecoderInv, ParserInv', ParserKept, NEW i \in 1 .. MaxFrames, AskFrame(i)
  PROVE  DecoderInv'
<1> USE DEF loop, session, cache
<1>1. CacheInv'
  BY BuffersStay DEF DecoderInv, AskFrame
<1>2. Known' = Known /\ Known <= Known'
  <2>1. Known' = Known
    BY DEF Known, AskFrame
  <2> QED
    BY <2>1, KnownTyped DEF DecoderInv
<1>3. step' = "counting" /\ index' \in Nat \ {0}
  BY DecoderAssumption DEF AskFrame
<1>4. all_data' = all_data /\ (all_data => received' = file'.size)
  <2>1. /\ received \in 0 .. file.size /\ received' \in 0 .. file'.size
        /\ file.size \in Nat
    BY DEF DecoderInv, ParserInv, IInv, TypeOK, InputOK, IsFile
  <2>2. file' = file /\ received <= received'
    BY DEF ParserKept
  <2> QED
    BY <2>1, <2>2 DEF DecoderInv, RequestInv, AskFrame
<1>5. RequestInv'
  BY <1>3, <1>4 DEF AskFrame, DecoderInv, RequestInv, Calls, Loops
<1> QED
  BY <1>1, <1>2, <1>3, <1>5, OutsideOfLoops DEF AskFrame, Calls

(* The cache grows to the frames that are registered.                      *)
LEMMA GrowCacheStep ==
  ASSUME DecoderInv, ParserInv', ParserKept, GrowCache
  PROVE  DecoderInv'
<1> USE DEF loop, session
<1> DEFINE count == IF failed THEN Known ELSE Len(frame_info)
           c == count - Known
           grown == FoldLeft(InitializeNewFrame, frame_buffer_cache,
                             [n \in 1 .. c |-> Known + n])
<1>1. /\ frame_buffer_cache' = grown
      /\ step' \in {"idle", "parsing"}
      /\ step' = "parsing" => ~(index > count)
      /\ UNCHANGED reader \/ CallParse("kMetaData")
      /\ UNCHANGED <<all_data, index, todo, offset, progressive_decode_offset,
                     png, current_buffer_saw_alpha>>
  <2> HIDE DEF grown
  <2> QED
    BY DEF GrowCache, grown
<1>2. UNCHANGED <<frame_info, ihdr>>
  <2>1. CASE UNCHANGED reader
    BY <2>1 DEF reader, vars, frames, header
  <2>2. CASE CallParse("kMetaData")
    BY <2>2 DEF CallParse, BeginParse, reader, vars, frames, header
  <2> QED
    BY <1>1, <2>1, <2>2
<1>3. Known \in Nat /\ Known <= Len(frame_info) /\ Len(frame_info) \in Nat
  <2>1. frame_info \in Seq(FrameInfo)
    BY DEF DecoderInv, ParserInv, IInv, TypeOK, RecordsOK
  <2> QED
    BY <2>1, KnownTyped DEF DecoderInv, CacheInv
<1>4. /\ c \in Nat /\ Known + c = count /\ count <= Len(frame_info)
      /\ AreBuffers(frame_buffer_cache)
  BY <1>3 DEF DecoderInv, CacheInv
<1>5. PICK new : new = grown
  OBVIOUS
<1>6. AreBuffers(new) /\ Len(new) = Known + c
  <2> HIDE DEF c
  <2> QED
    BY <1>4, <1>5, CacheGrown
<1>7. CacheInv'
  <2>1. Len(new) <= Len(frame_info) /\ frame_buffer_cache' = new
    BY <1>1, <1>4, <1>5, <1>6
  <2> QED
    BY <1>2, <1>6, <2>1, BuffersMove
<1>8. Known' = count /\ Known <= Known'
  <2>1. Known' = Len(new)
    BY <1>1, <1>5 DEF Known
  <2> HIDE DEF count, c
  <2> QED
    BY <1>3, <1>4, <1>6, <2>1
<1>9. step' = "parsing" => index <= Known'
  BY <1>1, <1>3, <1>8 DEF DecoderInv, RequestInv
<1> HIDE DEF grown, count, c
<1>10. RequestInv'
  BY <1>1, <1>7, <1>8, <1>9, RequestKept DEF DecoderInv, RequestInv, Calls
<1> QED
  BY <1>1, <1>7, <1>8, <1>10, OutsideOfLoops DEF Calls

(* The cache is cleared.                                                   *)
LEMMA PurgeStep ==
  ASSUME DecoderInv, ParserInv', ParserKept, NEW keep, Purge(keep)
  PROVE  DecoderInv'
<1> USE DEF loop, call
<1>1. PICK new : new = frame_buffer_cache'
  OBVIOUS
<1>2. PICK S : S = Clearable(keep)
  OBVIOUS
<1>3. AreBuffers(new) /\ Len(new) = Known
  <2>1. new = ClearedCache(S)
    BY <1>1, <1>2 DEF Purge, ClearFrameBuffers, ClearedCache
  <2> QED
    BY <2>1, BuffersCleared DEF DecoderInv
<1>4. UNCHANGED <<frame_info, ihdr>>
  BY DEF Purge, reader, vars, frames, header
<1>5. CacheInv'
  <2>1. Len(new) <= Len(frame_info)
    BY <1>3 DEF DecoderInv, CacheInv
  <2> QED
    BY <1>1, <1>3, <1>4, <2>1, BuffersMove
<1>6. Known <= Known'
  <2>1. Known' = Len(new)
    BY <1>1 DEF Known
  <2> QED
    BY <1>3, <2>1, KnownTyped DEF DecoderInv
<1>7. /\ step' = "idle"
      /\ UNCHANGED <<all_data, index, todo, offset, current_buffer_saw_alpha>>
      /\ progressive_decode_offset' \in {0, progressive_decode_offset}
      /\ png' \in {NoPng, png}
  <2>1. ClearFrameBuffers(Clearable(keep)) /\ step = "idle"
        /\ UNCHANGED <<all_data, call, loop, current_buffer_saw_alpha>>
    BY DEF Purge
  <2>2. \/ png' = NoPng /\ progressive_decode_offset' = 0
        \/ UNCHANGED <<png, progressive_decode_offset>>
    BY <2>1 DEF ClearFrameBuffers
  <2> QED
    BY <2>1, <2>2
<1>8. RequestInv'
  BY <1>5, <1>6, <1>7, RequestKept DEF DecoderInv, RequestInv
<1> QED
  BY <1>5, <1>6, <1>7, <1>8, OutsideOfLoops

-----------------------------------------------------------------------------
(* The decoding of a frame.                                                *)

(* What is drawn, and what is not, when the reader has not moved.          *)
LEMMA DrawnCache ==
  ASSUME DecoderInv, UNCHANGED <<frame_info, ihdr>>, NEW f \in 1 .. Known,
         NEW s, Drawing(f, s), frame_buffer_cache' = s.buffers
  PROVE  /\ CacheInv' /\ Known' = Known /\ Known <= Known'
         /\ \A k \in 1 .. Known : frame_buffer_cache'[k].required
                                    = frame_buffer_cache[k].required
         /\ Prepared(f) => Prepared(f)'
         /\ s.saw_alpha \in BOOLEAN
<1>1. PICK new : new = s.buffers
  OBVIOUS
<1>2. AreBuffers(new) /\ Len(new) = Known
  BY <1>1 DEF Drawing
<1>3. Known' = Len(new)
  BY <1>1 DEF Known
<1>4. CacheInv'
  <2>1. Len(new) <= Len(frame_info)
    BY <1>2 DEF DecoderInv, CacheInv
  <2> QED
    BY <1>1, <1>2, <2>1, BuffersMove
<1>5. Known' = Known /\ Known <= Known'
  BY <1>2, <1>3, KnownTyped DEF DecoderInv
<1>6. s.saw_alpha \in BOOLEAN
  BY DEF Drawing
<1>7. \A k \in 1 .. Known : frame_buffer_cache'[k].required
                              = frame_buffer_cache[k].required
  BY DEF Drawing
<1>8. Prepared(f) => Prepared(f)'
  <2>1. CASE s.buffers[f].status = "kFrameEmpty"
    <3>1. frame_buffer_cache' = frame_buffer_cache
      BY <2>1 DEF Drawing
    <3> QED
      BY <3>1 DEF Prepared, Ready
  <2>2. CASE s.buffers[f].status # "kFrameEmpty"
    BY <2>2 DEF Prepared
  <2> QED
    BY <2>1, <2>2
<1> QED
  BY <1>4, <1>5, <1>6, <1>7, <1>8

LEMMA FeedFailsStep ==
  ASSUME DecoderInv, ParserInv', ParserKept, NEW f \in 1 .. Known,
         NEW s, Drawing(f, s), FeedFails(s), UNCHANGED offset
  PROVE  DecoderInv'
<1>1. UNCHANGED <<frame_info, ihdr>> /\ frame_buffer_cache' = s.buffers
      /\ current_buffer_saw_alpha' = s.saw_alpha
  BY DEF FeedFails, LoseReader, Fail, frames, header
<1>2. /\ CacheInv' /\ Known <= Known' /\ current_buffer_saw_alpha' \in BOOLEAN
  BY <1>1, DrawnCache
<1>3. /\ UNCHANGED <<todo, all_data, index>> /\ step' = "idle"
      /\ progressive_decode_offset' = 0 /\ png' = NoPng
  BY DEF FeedFails, LoseReader
<1>4. RequestInv'
  BY <1>2, <1>3, RequestKept DEF DecoderInv, RequestInv
<1> QED
  BY <1>2, <1>3, <1>4, OutsideOfLoops

(* The head of the list is a frame of the cache, and of the file.          *)
LEMMA HeadKnown ==
  ASSUME DecoderInv, todo # <<>>
  PROVE  /\ Head(todo) \in 1 .. Known /\ Head(todo) \in Nat
         /\ Head(todo) \in DOMAIN frame_info
         /\ frame_info[Head(todo)] \in FrameInfo
         /\ frame_info # <<>> /\ size_available
<1>1. Head(todo) \in 1 .. Known
  <2>1. PICK X : X = 1 .. Known
    OBVIOUS
  <2>2. todo \in Seq(X)
    BY <2>1 DEF DecoderInv, TodoInv
  <2>3. Head(todo) \in X
    BY <2>2
  <2> QED
    BY <2>1, <2>3
<1>2. /\ frame_info \in Seq(FrameInfo) /\ Known \in Nat
      /\ Known <= Len(frame_info)
  BY KnownTyped DEF DecoderInv, ParserInv, IInv, TypeOK, RecordsOK, CacheInv
<1>3. /\ Head(todo) \in DOMAIN frame_info /\ frame_info # <<>>
      /\ frame_info[Head(todo)] \in FrameInfo
  BY <1>1, <1>2
<1> QED
  BY <1>1, <1>2, <1>3 DEF DecoderInv, ParserInv, RegisteredInv

(* Decode lists the frames.                                                *)
LEMMA DecodeStep ==
  ASSUME DecoderInv, ParserInv', ParserKept, Decode, ~failed
  PROVE  DecoderInv'
<1> USE DEF loop, session, cache
<1>1. /\ step = "parsing" /\ step' = "frames" /\ todo' = FramesToDecode(index)
      /\ UNCHANGED <<reader, all_data, index, loop, session, cache>>
  BY DEF Decode, Parsed
<1>2. CacheInv'
  BY <1>1, BuffersStay DEF DecoderInv
<1>3. Known' = Known /\ Known <= Known'
  <2>1. Known' = Known
    BY <1>1 DEF Known
  <2> QED
    BY <2>1, KnownTyped DEF DecoderInv
<1>4. index \in 1 .. Known
  BY <1>1, KnownTyped DEF DecoderInv, RequestInv
<1>5. PICK t : t = FramesToDecode(index)
  OBVIOUS
<1>6. t \in Seq(1 .. Known) /\ t # <<>> /\ Linked(t) /\ Ready(Head(t))
  BY <1>4, <1>5, FramesListed DEF DecoderInv
<1>7. TodoInv'
  <2>1. todo' \in Seq(1 .. Known')
    BY <1>1, <1>3, <1>5, <1>6
  <2>2. Linked(todo)'
    BY <1>1, <1>5, <1>6 DEF Linked
  <2>3. Prepared(Head(todo))'
    BY <1>1, <1>5, <1>6 DEF Prepared, Ready
  <2> QED
    BY <1>1, <2>1, <2>2, <2>3 DEF TodoInv, Loops
<1>8. RequestInv'
  <2>1. ~failed'
    BY <1>1 DEF reader, vars
  <2> QED
    BY <1>1, <1>2, <1>3, <2>1, RequestKept DEF DecoderInv, RequestInv
<1>9. OffsetInv'
  BY <1>1 DEF DecoderInv, OffsetInv, Loops
<1> QED
  BY <1>2, <1>7, <1>8, <1>9 DEF DecoderInv

(* The list while a frame is being decoded.                                *)
LEMMA TodoStays ==
  ASSUME DecoderInv, UNCHANGED todo, todo # <<>>, Known' = Known,
         \A k \in 1 .. Known : frame_buffer_cache'[k].required
                                 = frame_buffer_cache[k].required,
         step \in Loops \cup {"frames"}, step' \in Loops \cup {"decoded"},
         current_frame' = Head(todo),
         step' \in Loops => Prepared(Head(todo))'
  PROVE  TodoInv'
<1>1. /\ todo \in Seq(1 .. Known) /\ Linked(todo)
  BY DEF DecoderInv, TodoInv
<1>2. Linked(todo)'
  <2>1. PICK t : t = todo
    OBVIOUS
  <2> QED
    BY <1>1, <2>1, LinkedKept
<1> QED
  BY <1>1, <1>2 DEF TodoInv, Loops

(* A loop begins.                                                          *)
LEMMA BeginFrameStep ==
  ASSUME DecoderInv, ParserInv', ParserKept, BeginFrame
  PROVE  DecoderInv'
<1> USE DEF call, cache
<1> DEFINE i == Head(todo)
           new == ShouldDecodeWithNewPNG(i)
           progress == IF new THEN 0 ELSE progressive_decode_offset
<1>1. /\ step = "frames" /\ todo # <<>> /\ is_animated
      /\ current_frame' = i
      /\ offset' = frame_info[i].start_offset
      /\ png' = IF new THEN StartedPng(i) ELSE png
      /\ progressive_decode_offset' = progress
      /\ step' = IF i = 1 /\ (~FirstFrameFullyReceived \/ progress # 0)
                   THEN "progressive" ELSE "whole"
      /\ UNCHANGED <<reader, all_data, index, todo, frame_buffer_cache,
                     current_buffer_saw_alpha>>
  BY DEF BeginFrame
<1>2. step' \in Loops
  BY <1>1 DEF Loops
<1>3. CacheInv'
  BY <1>1, BuffersStay DEF DecoderInv
<1>4. Known' = Known /\ Known <= Known'
  <2>1. Known' = Known
    BY <1>1 DEF Known
  <2> QED
    BY <2>1, KnownTyped DEF DecoderInv
<1>5. /\ i \in 1 .. Known /\ i \in Nat /\ i \in DOMAIN frame_info
      /\ frame_info[i] \in FrameInfo /\ frame_info # <<>>
  BY <1>1, HeadKnown
<1>6. RequestInv'
  <2>1. ~failed'
    BY <1>1 DEF DecoderInv, RequestInv, reader, vars
  <2> QED
    BY <1>1, <1>2, <1>3, <1>4, <2>1, RequestKept DEF DecoderInv, RequestInv, Loops
<1>7. TodoInv'
  <2>1. Prepared(i)'
    BY <1>1 DEF DecoderInv, TodoInv, Prepared, Ready
  <2> HIDE DEF i
  <2> QED
    BY <1>1, <1>2, <1>4, <2>1, TodoStays DEF i
<1>8. UNCHANGED <<file, received, frame_info, is_animated>>
  BY <1>1 DEF reader, vars, input, frames, animated
<1>9. /\ Begun(frame_info[i].start_offset)
      /\ frame_info[i].start_offset \in Nat
      /\ frame_info[i].byte_length \in Nat
  BY <1>1, <1>5 DEF DecoderInv, ParserInv, RegisteredInv, FrameInfo
<1>10. progressive_decode_offset' \in Nat /\ png' \in Session
  <2>1. progressive_decode_offset \in Nat /\ png \in Session
    BY DEF DecoderInv, OffsetInv
  <2>2. StartedPng(i) \in Session
    <3>1. <<>> \in Seq(Nat)
      OBVIOUS
    <3> HIDE DEF i
    <3> QED
      BY <1>5, <3>1 DEF StartedPng, NewPng, Session
  <2> QED
    BY <1>1, <2>1, <2>2
<1>11. /\ offset' = frame_info'[current_frame'].start_offset
       /\ offset' \in Nat /\ is_animated' /\ offset' \in DOMAIN file'.chunk
       /\ \A o \in DOMAIN file'.chunk :
            ~(frame_info'[current_frame'].start_offset <= o /\ o < offset')
  <2>1. \A o \in DOMAIN file.chunk : o \in Nat
    BY DEF DecoderInv, ParserInv, IInv, TypeOK, InputOK, IsFile
  <2>2. PICK b \in Nat : b = frame_info[i].start_offset
    BY <1>9
  <2>3. \A o \in DOMAIN file.chunk : ~(b <= o /\ o < b)
    BY <2>1
  <2> HIDE DEF i
  <2> QED
    BY <1>1, <1>8, <1>9, <2>2, <2>3 DEF Begun
<1>12. CASE step' = "progressive"
  <2>1. current_frame' = 1
    BY <1>1, <1>12
  <2>2. OffsetInv'
    BY <1>10, <1>12, <1>11, <2>1 DEF OffsetInv, Loops
  <2> QED
    BY <1>3, <1>6, <1>7, <2>2 DEF DecoderInv
<1>13. CASE step' = "whole"
  <2>1. progressive_decode_offset' = 0
    <3>1. CASE i = 1
      BY <1>1, <1>13, <3>1
    <3>2. CASE i # 1
      BY <1>1, <1>5, <3>2 DEF ShouldDecodeWithNewPNG
    <3> QED
      BY <3>1, <3>2
  <2>2. frame_info[i].byte_length # kFirstFrameIndicator
    <3>1. CASE i = 1
      BY <1>1, <1>13, <3>1 DEF FirstFrameFullyReceived
    <3>2. CASE i # 1
      BY <1>5, <3>2 DEF DecoderInv, ParserInv, IInv, ReaderInv, LaterFramesClosed
    <3> QED
      BY <3>1, <3>2
  <2>3. /\ frame_info'[current_frame'].byte_length # kFirstFrameIndicator
        /\ offset' <= frame_info'[current_frame'].start_offset
                        + frame_info'[current_frame'].byte_length
    <3> HIDE DEF i, new, progress
    <3>1. frame_info'[current_frame'] = frame_info[i]
      BY <1>1, <1>8
    <3> QED
      BY <1>1, <1>9, <2>2, <3>1
  <2>4. OffsetInv'
    BY <1>10, <1>13, <1>11, <2>1, <2>3 DEF OffsetInv, Loops
  <2> QED
    BY <1>3, <1>6, <1>7, <2>4 DEF DecoderInv
<1> QED
  BY <1>1, <1>12, <1>13

(* The chunk a loop is at.                                                 *)
LEMMA LoopAtChunk ==
  ASSUME DecoderInv, step \in Loops, offset + 8 <= received
  PROVE  /\ offset \in DOMAIN file.chunk /\ here \in Chunk
         /\ offset \in Nat /\ here.length \in Nat /\ here_end \in Nat
         /\ here_end = offset + here.length + 12
         /\ received \in Nat /\ received <= file.size /\ file.size \in Nat
         /\ \A o \in DOMAIN file.chunk : o \in Nat /\ (offset < o => here_end <= o)
<1>1. offset \in DOMAIN file.chunk /\ offset \in Nat
  BY DEF DecoderInv, OffsetInv
<1>2. /\ IsFile(file) /\ file \in Files
      /\ received \in 0 .. file.size /\ file.size \in 0 .. SizeMax
  BY DEF DecoderInv, ParserInv, IInv, TypeOK, InputOK, IsFile, DataInv, FileInv
<1>3. here \in Chunk
  BY <1>1, <1>2 DEF IsFile, here
<1>4. here.length \in Nat /\ here_end = offset + here.length + 12
      /\ here_end \in Nat
  BY <1>1, <1>3 DEF Chunk, here_end
<1>5. ASSUME NEW o \in DOMAIN file.chunk
      PROVE  o \in Nat /\ (offset < o => here_end <= o)
  <2>1. offset < o => offset + 12 + file.chunk[offset].length <= o
    BY <1>1, <1>2, ChunksAssumption
  <2>2. o \in Nat
    BY <1>2 DEF IsFile
  <2> QED
    BY <1>1, <1>4, <2>1, <2>2 DEF here
<1>6. received \in Nat /\ received <= file.size /\ file.size \in Nat
  BY <1>2, ReaderAssumption
<1> QED
  BY <1>1, <1>3, <1>4, <1>5, <1>6

(* Behind it the loop is at the next one.                                  *)
LEMMA NextChunk ==
  ASSUME DecoderInv, step \in Loops, offset + 8 <= received, ~EndsFrame(offset)
  PROVE  /\ here_end + 8 <= received => here_end \in DOMAIN file.chunk
         /\ frame_info[current_frame].start_offset <= here_end
         /\ \A o \in DOMAIN file.chunk :
              frame_info[current_frame].start_offset <= o /\ o < here_end
                => ~EndsFrame(o)
<1>1. /\ offset \in DOMAIN file.chunk
      /\ offset \in Nat /\ here.length \in Nat /\ here_end \in Nat
      /\ here_end = offset + here.length + 12
      /\ received \in Nat /\ received <= file.size /\ file.size \in Nat
      /\ \A o \in DOMAIN file.chunk : o \in Nat /\ (offset < o => here_end <= o)
  BY LoopAtChunk
<1>2. /\ frame_info[current_frame].start_offset <= offset
      /\ \A o \in DOMAIN file.chunk :
           frame_info[current_frame].start_offset <= o /\ o < offset
             => ~EndsFrame(o)
  BY DEF DecoderInv, OffsetInv
<1>3. ASSUME NEW o \in DOMAIN file.chunk,
             frame_info[current_frame].start_offset <= o, o < here_end
      PROVE  ~EndsFrame(o)
  <2>1. o < offset \/ o = offset
    BY <1>1, <1>3
  <2> QED
    BY <1>2, <1>3, <2>1
<1>4. here_end + 8 <= received => here_end \in DOMAIN file.chunk
  <2>1. IsFile(file)
    BY DEF DecoderInv, ParserInv, IInv, TypeOK, InputOK
  <2>2. here_end = offset + 12 + file.chunk[offset].length
    BY <1>1 DEF here
  <2>3. here_end + 8 <= received => here_end + 8 <= file.size
    BY <1>1
  <2> QED
    BY <1>1, <2>1, <2>2, <2>3 DEF IsFile
<1>5. frame_info[current_frame].start_offset \in Nat
  <2>1. current_frame = Head(todo) /\ todo # <<>>
    BY DEF DecoderInv, TodoInv
  <2> QED
    BY <2>1, HeadKnown DEF FrameInfo
<1> QED
  BY <1>1, <1>2, <1>3, <1>4, <1>5

(* The data a loop finds in a chunk.                                       *)
LEMMA PayloadBounded ==
  ASSUME NEW o \in DOMAIN file.chunk, IsFile(file)
  PROVE  /\ Payload(o) \subseteq Nat
         /\ \A b \in Payload(o) :
              o + 8 <= b /\ b < o + 12 + file.chunk[o].length
         /\ IsBounded(Payload(o))
         /\ \A D : D \subseteq Payload(o) => IsBounded(D)
<1>1. o \in Nat /\ file.chunk[o] \in Chunk
  BY DEF IsFile
<1>2. PICK l \in Nat : l = file.chunk[o].length
  BY <1>1 DEF Chunk
<1>3. ASSUME NEW b \in Payload(o) PROVE b \in o + 8 .. o + 7 + l
  <2>1. CASE file.chunk[o].type = "IDAT"
    BY <1>2, <1>3, <2>1 DEF Payload
  <2>2. CASE file.chunk[o].type = "fdAT"
    <3>1. b \in o + 12 .. o + 7 + l
      BY <1>2, <1>3, <2>2 DEF Payload
    <3> QED
      BY <1>1, <3>1
  <2>3. CASE file.chunk[o].type \notin {"IDAT", "fdAT"}
    BY <1>3, <2>3 DEF Payload
  <2> QED
    BY <2>1, <2>2, <2>3
<1>4. \A b \in Payload(o) : b \in Nat /\ b \in 0 .. o + 7 + l
                            /\ o + 8 <= b /\ b < o + 12 + l
  BY <1>1, <1>3
<1>5. \A D : D \subseteq Payload(o) => IsBounded(D)
  <2>1. o + 7 + l \in Nat
    BY <1>1
  <2> QED
    BY <1>4, <2>1 DEF IsBounded
<1> QED
  BY <1>2, <1>4, <1>5

(* The end of a frame.                                                     *)
LEMMA EndFrameStep ==
  ASSUME DecoderInv, ParserInv', ParserKept, EndFrame, step \in Loops
  PROVE  DecoderInv'
<1> USE DEF loop
<1>1. CASE DecodeFails
  BY <1>1, DecodeFailsStep
<1>2. CASE ~DecodeFails
  <2>1. /\ frame_buffer_cache' = Completed(frame_buffer_cache, current_frame,
                                           current_buffer_saw_alpha)
        /\ png' = NoPng
        /\ progressive_decode_offset' \in {0, progressive_decode_offset}
        /\ step' = "decoded"
        /\ UNCHANGED <<reader, all_data, index, todo, current_frame, offset,
                       current_buffer_saw_alpha>>
    BY <1>2 DEF EndFrame
  <2>2. current_frame = Head(todo) /\ todo # <<>>
    BY DEF DecoderInv, TodoInv
  <2>3. current_frame \in 1 .. Known
    BY <2>2, HeadKnown
  <2>4. UNCHANGED <<frame_info, ihdr, failed>>
    BY <2>1 DEF reader, vars, frames, header
  <2>5. PICK new : new = frame_buffer_cache'
    OBVIOUS
  <2>6. /\ AreBuffers(new) /\ Len(new) = Known
        /\ \A k \in 1 .. Known : new[k].required = frame_buffer_cache[k].required
    <3>1. AreBuffers(frame_buffer_cache) /\ Known = Len(frame_buffer_cache)
      BY KnownTyped DEF DecoderInv, CacheInv
    <3>2. current_buffer_saw_alpha \in BOOLEAN
      BY DEF DecoderInv, RequestInv
    <3> QED
      BY <2>1, <2>3, <2>5, <3>1, <3>2, BufferCompleted
  <2>7. CacheInv'
    <3>1. Len(new) <= Len(frame_info)
      BY <2>6 DEF DecoderInv, CacheInv
    <3> QED
      BY <2>4, <2>5, <2>6, <3>1, BuffersMove
  <2>8. Known' = Known /\ Known <= Known'
    <3>1. Known' = Len(new)
      BY <2>5 DEF Known
    <3> QED
      BY <2>6, <3>1, KnownTyped DEF DecoderInv
  <2>9. TodoInv'
    <3>1. step' \notin Loops /\ step' \in Loops \cup {"decoded"}
      BY <2>1 DEF Loops
    <3>2. current_frame' = Head(todo)
      BY <2>1, <2>2
    <3>3. \A k \in 1 .. Known : frame_buffer_cache'[k].required
                                  = frame_buffer_cache[k].required
      BY <2>5, <2>6
    <3> QED
      BY <2>1, <2>2, <2>8, <3>1, <3>2, <3>3, TodoStays
  <2>10. RequestInv'
    <3>1. ~failed'
      BY <2>4 DEF DecoderInv, RequestInv
    <3> QED
      BY <2>1, <2>7, <2>8, <3>1, RequestKept DEF DecoderInv, RequestInv
  <2>11. OffsetInv'
    <3>1. png' \in Session
      BY <2>1, NoSession
    <3> QED
      BY <2>1, <3>1 DEF DecoderInv, OffsetInv, Loops
  <2> QED
    BY <2>7, <2>9, <2>10, <2>11 DEF DecoderInv
<1> QED
  BY <1>1, <1>2

(* Nothing is decoded.                                                     *)
LEMMA WaitingStep ==
  ASSUME DecoderInv, ParserInv', ParserKept, SkipDecodedChunk \/ AwaitFrameData
  PROVE  DecoderInv'
<1> USE DEF call, loop, cache, session
<1>1. /\ step = "progressive" /\ step' \in {"progressive", "decoded"}
      /\ UNCHANGED <<reader, all_data, index, todo, current_frame, session,
                     frame_buffer_cache, current_buffer_saw_alpha>>
  BY DEF SkipDecodedChunk, AwaitFrameData
<1>2. step \in Loops /\ step' \in Loops \cup {"decoded"}
  BY <1>1 DEF Loops
<1>3. current_frame = Head(todo) /\ todo # <<>>
  BY <1>2 DEF DecoderInv, TodoInv
<1>4. CacheInv'
  BY <1>1, BuffersStay DEF DecoderInv
<1>5. Known' = Known /\ Known <= Known'
  <2>1. Known' = Known
    BY <1>1 DEF Known
  <2> QED
    BY <2>1, KnownTyped DEF DecoderInv
<1>6. RequestInv'
  <2>1. ~failed'
    BY <1>1, <1>2 DEF DecoderInv, RequestInv, reader, vars
  <2> QED
    BY <1>1, <1>4, <1>5, <2>1, RequestKept DEF DecoderInv, RequestInv, Loops
<1>7. TodoInv'
  <2>1. Prepared(Head(todo))'
    BY <1>1, <1>2, <1>3 DEF DecoderInv, TodoInv, Prepared, Ready
  <2> QED
    BY <1>1, <1>2, <1>3, <1>5, <2>1, TodoStays
<1>8. UNCHANGED <<file, received, frame_info, is_animated>>
  BY <1>1 DEF reader, vars, input, frames, animated
<1>9. OffsetInv'
  <2>1. CASE AwaitFrameData
    BY <2>1 DEF AwaitFrameData, DecoderInv, OffsetInv, Loops
  <2>2. CASE SkipDecodedChunk
    <3>1. /\ offset + 8 <= received /\ offset' = here_end /\ step' = "progressive"
          /\ ~EndsFrame(offset) /\ here_end <= progressive_decode_offset
      <4>1. offset \in Nat /\ received \in Nat /\ progressive_decode_offset \in Nat
        <5>1. /\ received \in 0 .. file.size /\ file.size \in Nat
          BY DEF DecoderInv, ParserInv, IInv, TypeOK, InputOK, IsFile
        <5> QED
          BY <5>1 DEF DecoderInv, OffsetInv
      <4>2. offset + 8 <= received
        BY <2>2, <4>1 DEF SkipDecodedChunk
      <4>3. here_end \in Nat
        BY <1>2, <4>2, LoopAtChunk
      <4> QED
        BY <1>1, <2>2, <4>1, <4>2, <4>3 DEF SkipDecodedChunk, EndsFrame, here
    <3>2. /\ here_end \in Nat
          /\ here_end + 8 <= received => here_end \in DOMAIN file.chunk
          /\ frame_info[current_frame].start_offset <= here_end
          /\ \A o \in DOMAIN file.chunk :
               frame_info[current_frame].start_offset <= o /\ o < here_end
                 => ~EndsFrame(o)
      BY <1>2, <3>1, LoopAtChunk, NextChunk
    <3>3. /\ current_frame = 1 /\ is_animated
          /\ progressive_decode_offset \in Nat /\ png \in Session
      BY <1>1, <1>2 DEF DecoderInv, OffsetInv
    <3> QED
      BY <1>1, <1>8, <3>1, <3>2, <3>3 DEF OffsetInv, Loops, EndsFrame
  <2> QED
    BY <2>1, <2>2
<1> QED
  BY <1>4, <1>6, <1>7, <1>9 DEF DecoderInv

(* Where ResumeAt and FedUpTo lie in the chunk.                            *)
LEMMA FedInChunk ==
  ASSUME DecoderInv, step \in Loops, offset + 8 <= received,
         progressive_decode_offset < here_end
  PROVE  /\ ResumeAt \in Nat
         /\ offset + 8 <= ResumeAt /\ ResumeAt <= here_end
         /\ FedUpTo(ResumeAt, here_end) \in Nat
         /\ ResumeAt <= FedUpTo(ResumeAt, here_end)
         /\ FedUpTo(ResumeAt, here_end) <= here_end
<1>1. /\ offset \in Nat /\ here.length \in Nat /\ here_end \in Nat
      /\ here_end = offset + here.length + 12
      /\ received \in Nat
  BY LoopAtChunk
<1>2. progressive_decode_offset \in Nat
  BY DEF DecoderInv, OffsetInv
<1>3. /\ ResumeAt \in Nat /\ offset + 8 <= ResumeAt /\ ResumeAt <= here_end
  BY <1>1, <1>2 DEF ResumeAt
<1> QED
  BY <1>1, <1>3 DEF FedUpTo

(* Data is drawn for the frame at the head of the list.                    *)
LEMMA HeadDrawn ==
  ASSUME DecoderInv, todo # <<>>, NEW D, IsBounded(D), NEW writable,
         NEW s, s = RowStateAfter(Head(todo), D, writable)
  PROVE  /\ Drawing(Head(todo), s)
         /\ s.data \in Seq(Nat)
         /\ s.data = png.data \o InOrder(D)
<1>1. PICK f \in 1 .. Known : f = Head(todo)
  BY HeadKnown
<1>2. /\ CacheInv /\ FileInv /\ current_buffer_saw_alpha \in BOOLEAN
      /\ png.data \in Seq(Nat)
  BY DEF DecoderInv, ParserInv, DataInv, RequestInv, OffsetInv, Session
<1>3. Drawing(f, s) /\ s.data = png.data \o InOrder(D)
  <2>1. s = RowStateAfter(f, D, writable)
    BY <1>1
  <2> QED
    BY <1>2, <2>1, DataDrawn
<1>4. s.data \in Seq(Nat)
  <2>1. PICK u : u = InOrder(D)
    OBVIOUS
  <2>2. PICK n \in Nat : D \subseteq 0 .. n
    BY DEF IsBounded
  <2>3. u \in Seq(Nat)
    BY <2>1, <2>2, InOrderTyped
  <2>4. png.data \o u \in Seq(Nat)
    BY <1>2, <2>3
  <2> QED
    BY <1>3, <2>1, <2>4
<1> QED
  BY <1>1, <1>3, <1>4

(* What the rows have been drawn into becomes the cache.                   *)
LEMMA FeedStep ==
  ASSUME DecoderInv, ParserInv', ParserKept,
         step \in Loops \cup {"frames"}, todo # <<>>,
         NEW s, Drawing(Head(todo), s), s.data \in Seq(Nat), Feed(s),
         UNCHANGED <<reader, all_data, index, todo>>,
         current_frame' = Head(todo),
         step' \in Loops \cup {"decoded"}
  PROVE  /\ RequestInv' /\ CacheInv' /\ TodoInv'
         /\ png' \in Session
<1>1. PICK f \in 1 .. Known : f = Head(todo)
  BY HeadKnown
<1>2. UNCHANGED <<frame_info, ihdr, failed>>
  BY DEF reader, vars, frames, header
<1>3. frame_buffer_cache' = s.buffers /\ current_buffer_saw_alpha' = s.saw_alpha
  BY DEF Feed
<1>4. png' \in Session
  BY DEF Feed, DecoderInv, OffsetInv, Session
<1>5. /\ CacheInv' /\ Known' = Known /\ Known <= Known'
      /\ \A k \in 1 .. Known : frame_buffer_cache'[k].required
                                 = frame_buffer_cache[k].required
      /\ Prepared(f) => Prepared(f)'
      /\ s.saw_alpha \in BOOLEAN
  BY <1>1, <1>2, <1>3, DrawnCache
<1>6. Prepared(f)'
  BY <1>1, <1>5 DEF DecoderInv, TodoInv
<1>7. TodoInv'
  <2>1. Prepared(Head(todo))'
    <3>1. Head(todo') = f
      BY <1>1
    <3> QED
      BY <1>6, <3>1 DEF Prepared, Ready
  <2> QED
    BY <1>5, <2>1, TodoStays
<1>8. RequestInv'
  <2>1. ~failed'
    BY <1>2 DEF DecoderInv, RequestInv
  <2>2. step' # "parsing"
    BY DEF Loops
  <2> QED
    BY <1>3, <1>5, <2>1, <2>2, RequestKept DEF DecoderInv, RequestInv
<1> QED
  BY <1>4, <1>5, <1>7, <1>8

LEMMA ProgressiveChunkStep ==
  ASSUME DecoderInv, ParserInv', ParserKept, ProgressiveChunk
  PROVE  DecoderInv'
<1> USE DEF loop
<1> DEFINE end == FedUpTo(ResumeAt, here_end)
           D == {o \in Payload(offset) : ResumeAt <= o /\ o < end}
<1>1. /\ step = "progressive" /\ step \in Loops /\ received >= offset + 8
      /\ ~EndsFrame(offset) /\ progressive_decode_offset < here_end
  BY DEF ProgressiveChunk, Loops, EndsFrame, here
<1>2. PICK writable, s :
        /\ s = RowStateAfter(current_frame, D, writable)
        /\ \/ FeedFails(s) /\ UNCHANGED loop
           \/ /\ Feed(s)
              /\ progressive_decode_offset' = end
              /\ \/ end < here_end /\ step' = "decoded" /\ UNCHANGED offset
                 \/ ~(end < here_end) /\ offset' = here_end /\ UNCHANGED step
              /\ UNCHANGED <<reader, all_data, index, todo, current_frame>>
  <2> HIDE DEF D, end
  <2> QED
    BY DEF ProgressiveChunk, D, end
<1>3. current_frame = Head(todo) /\ todo # <<>> /\ current_frame \in 1 .. Known
  <2>1. current_frame = Head(todo) /\ todo # <<>>
    BY <1>1 DEF DecoderInv, TodoInv
  <2> QED
    BY <2>1, HeadKnown
<1>4. offset + 8 <= received /\ offset \in Nat /\ received \in Nat
  <2>1. offset \in Nat /\ received \in 0 .. file.size /\ file.size \in Nat
    BY DEF DecoderInv, ParserInv, IInv, TypeOK, InputOK, IsFile, OffsetInv
  <2> QED
    BY <1>1, <2>1
<1>5. IsBounded(D)
  <2>1. offset \in DOMAIN file.chunk /\ IsFile(file)
    BY <1>1, <1>4, LoopAtChunk DEF DecoderInv, ParserInv, IInv, TypeOK, InputOK
  <2>2. D \subseteq Payload(offset)
    OBVIOUS
  <2> HIDE DEF D
  <2> QED
    BY <2>1, <2>2, PayloadBounded
<1> HIDE DEF D
<1>6. Drawing(current_frame, s) /\ s.data \in Seq(Nat)
  <2>1. s = RowStateAfter(Head(todo), D, writable)
    BY <1>2, <1>3
  <2>2. Drawing(Head(todo), s) /\ s.data \in Seq(Nat)
    BY <1>3, <1>5, <2>1, HeadDrawn
  <2> QED
    BY <1>3, <2>2
<1>7. CASE FeedFails(s) /\ UNCHANGED loop
  BY <1>3, <1>6, <1>7, FeedFailsStep
<1>8. CASE /\ Feed(s)
           /\ progressive_decode_offset' = end
           /\ \/ end < here_end /\ step' = "decoded" /\ UNCHANGED offset
              \/ ~(end < here_end) /\ offset' = here_end /\ UNCHANGED step
           /\ UNCHANGED <<reader, all_data, index, todo, current_frame>>
  <2>1. RequestInv' /\ CacheInv' /\ TodoInv' /\ png' \in Session
    <3>1. step' \in Loops \cup {"decoded"} /\ current_frame' = Head(todo)
      BY <1>1, <1>3, <1>8
    <3>2. Drawing(Head(todo), s)
      BY <1>3, <1>6
    <3> QED
      BY <1>1, <1>3, <1>6, <1>8, <3>1, <3>2, FeedStep
  <2>2. end \in Nat /\ end <= here_end /\ here_end \in Nat
    BY <1>1, <1>4, FedInChunk, LoopAtChunk
  <2> HIDE DEF end
  <2>3. UNCHANGED <<file, received, frame_info, is_animated>>
    BY <1>8 DEF reader, vars, input, frames, animated
  <2>4. OffsetInv'
    <3>1. CASE step' = "decoded" /\ UNCHANGED offset
      BY <1>4, <1>8, <2>1, <2>2, <3>1 DEF OffsetInv, Loops
    <3>2. CASE ~(end < here_end) /\ offset' = here_end /\ UNCHANGED step
      <4>1. /\ here_end + 8 <= received => here_end \in DOMAIN file.chunk
            /\ frame_info[current_frame].start_offset <= here_end
            /\ \A o \in DOMAIN file.chunk :
                 frame_info[current_frame].start_offset <= o /\ o < here_end
                   => ~EndsFrame(o)
        BY <1>1, <1>4, NextChunk
      <4>2. current_frame = 1 /\ is_animated
        BY <1>1 DEF DecoderInv, OffsetInv
      <4>3. offset' <= progressive_decode_offset'
        BY <1>8, <2>2, <3>2
      <4> QED
        BY <1>1, <1>8, <2>1, <2>2, <2>3, <3>2, <4>1, <4>2, <4>3
           DEF OffsetInv, Loops, EndsFrame
    <3> QED
      BY <1>8, <3>1, <3>2
  <2> QED
    BY <2>1, <2>4 DEF DecoderInv
<1> QED
  BY <1>2, <1>7, <1>8

(* A closed frame, of which the loop has not seen the end.                 *)
LEMMA ClosedFrameAhead ==
  ASSUME DecoderInv, step = "whole",
         offset < frame_info[current_frame].start_offset
                    + frame_info[current_frame].byte_length
  PROVE  /\ step \in Loops /\ offset + 8 <= received /\ ~EndsFrame(offset)
         /\ here_end <= frame_info[current_frame].start_offset
                          + frame_info[current_frame].byte_length
<1>1. step \in Loops /\ current_frame = Head(todo) /\ todo # <<>>
  BY DEF DecoderInv, TodoInv, Loops
<1>2. PICK i, f : i = current_frame /\ f = frame_info[i]
  OBVIOUS
<1>3. PICK end : end = f.start_offset + f.byte_length
  OBVIOUS
<1>4. /\ i \in DOMAIN frame_info /\ f \in FrameInfo
      /\ frame_info # <<>> /\ size_available
  BY <1>1, <1>2, HeadKnown
<1>5. f.start_offset \in Nat /\ f.byte_length \in Nat /\ end \in Nat
  BY <1>3, <1>4 DEF FrameInfo
<1>6. /\ is_animated /\ f.byte_length # kFirstFrameIndicator
      /\ offset \in Nat /\ f.start_offset <= offset /\ offset < end
  BY <1>1, <1>2, <1>3 DEF DecoderInv, OffsetInv
<1>7. Ended(end)
  BY <1>2, <1>3, <1>4, <1>6 DEF DecoderInv, ParserInv, RegisteredInv
<1>8. received \in Nat /\ read_offset \in Nat
  BY DEF DecoderInv, ParserInv, IInv, TypeOK, InputOK, ScalarsOK, IsFile
<1>9. offset + 8 <= received /\ end \in DOMAIN file.chunk
  BY <1>5, <1>6, <1>7, <1>8 DEF Ended
<1>10. offset \in DOMAIN file.chunk /\ here_end <= end
  BY <1>1, <1>6, <1>9, LoopAtChunk
<1>11. end <= read_offset
  BY <1>2, <1>3, <1>4, <1>6 DEF DecoderInv, ParserInv, IInv, ReaderInv, ClosedInv
<1>12. offset \in Passed
  BY <1>5, <1>6, <1>8, <1>10, <1>11 DEF Passed
<1>13. InFrame(i, offset)
  BY <1>2, <1>3, <1>6 DEF InFrame, FrameStart, FrameEnd, FirstFrameIsOpen
<1>14. ~EndsFrame(offset)
  BY <1>4, <1>6, <1>12, <1>13 DEF DecoderInv, ParserInv, DataInv, RunsInv
<1> QED
  BY <1>1, <1>2, <1>3, <1>9, <1>10, <1>14

LEMMA WholeChunkStep ==
  ASSUME DecoderInv, ParserInv', ParserKept, WholeChunk
  PROVE  DecoderInv'
<1> USE DEF loop, call
<1> DEFINE D == Payload(offset)
           frame_end == frame_info[current_frame].start_offset
                          + frame_info[current_frame].byte_length
<1>1. step = "whole" /\ offset < frame_end
  BY DEF WholeChunk
<1>2. PICK writable, s :
        /\ s = RowStateAfter(current_frame, D, writable)
        /\ \/ FeedFails(s) /\ UNCHANGED loop
           \/ /\ Feed(s)
              /\ offset' = here_end
              /\ UNCHANGED <<reader, all_data, index, todo, current_frame, step,
                             progressive_decode_offset>>
  BY DEF WholeChunk
<1>3. /\ step \in Loops /\ offset + 8 <= received /\ ~EndsFrame(offset)
      /\ here_end <= frame_end
  BY <1>1, ClosedFrameAhead
<1>4. current_frame = Head(todo) /\ todo # <<>> /\ current_frame \in 1 .. Known
  <2>1. current_frame = Head(todo) /\ todo # <<>>
    BY <1>3 DEF DecoderInv, TodoInv
  <2> QED
    BY <2>1, HeadKnown
<1>5. IsBounded(D)
  <2>1. offset \in DOMAIN file.chunk /\ IsFile(file)
    BY <1>3, LoopAtChunk DEF DecoderInv, ParserInv, IInv, TypeOK, InputOK
  <2> HIDE DEF D
  <2> QED
    BY <2>1, PayloadBounded DEF D
<1> HIDE DEF D
<1>6. Drawing(current_frame, s) /\ s.data \in Seq(Nat)
  <2>1. s = RowStateAfter(Head(todo), D, writable)
    BY <1>2, <1>4
  <2>2. Drawing(Head(todo), s) /\ s.data \in Seq(Nat)
    BY <1>4, <1>5, <2>1, HeadDrawn
  <2> QED
    BY <1>4, <2>2
<1>7. CASE FeedFails(s) /\ UNCHANGED loop
  BY <1>4, <1>6, <1>7, FeedFailsStep
<1>8. CASE /\ Feed(s)
           /\ offset' = here_end
           /\ UNCHANGED <<reader, all_data, index, todo, current_frame, step,
                          progressive_decode_offset>>
  <2>1. RequestInv' /\ CacheInv' /\ TodoInv' /\ png' \in Session
    <3>1. step' \in Loops \cup {"decoded"} /\ current_frame' = Head(todo)
      BY <1>3, <1>4, <1>8
    <3>2. Drawing(Head(todo), s)
      BY <1>4, <1>6
    <3> QED
      BY <1>3, <1>4, <1>6, <1>8, <3>1, <3>2, FeedStep
  <2>2. here_end \in Nat
    BY <1>3, LoopAtChunk
  <2>3. UNCHANGED <<file, received, frame_info, is_animated>>
    BY <1>8 DEF reader, vars, input, frames, animated
  <2>4. /\ here_end + 8 <= received => here_end \in DOMAIN file.chunk
        /\ frame_info[current_frame].start_offset <= here_end
        /\ \A o \in DOMAIN file.chunk :
             frame_info[current_frame].start_offset <= o /\ o < here_end
               => ~EndsFrame(o)
    BY <1>3, NextChunk
  <2>5. /\ is_animated /\ progressive_decode_offset = 0
        /\ frame_info[current_frame].byte_length # kFirstFrameIndicator
    BY <1>1, <1>3 DEF DecoderInv, OffsetInv
  <2>6. OffsetInv'
    BY <1>1, <1>3, <1>8, <2>1, <2>2, <2>3, <2>4, <2>5 DEF OffsetInv, Loops, EndsFrame
  <2> QED
    BY <2>1, <2>6 DEF DecoderInv
<1> QED
  BY <1>2, <1>7, <1>8

(* The image is drawn to its end.                                          *)
LEMMA StillImageCompleted ==
  ASSUME DecoderInv, ParserInv', ParserKept, step = "frames", todo # <<>>,
         NEW s, Drawing(Head(todo), s), s.data \in Seq(Nat),
         NEW t, t.data = s.data, t.saw_alpha = s.saw_alpha,
         t.buffers = Completed(s.buffers, Head(todo), s.saw_alpha),
         Feed(t), UNCHANGED <<reader, all_data, index, todo>>,
         current_frame' = Head(todo), step' = "decoded"
  PROVE  RequestInv' /\ CacheInv' /\ TodoInv' /\ png' \in Session
<1>1. PICK f \in 1 .. Known : f = Head(todo)
  BY HeadKnown
<1>2. UNCHANGED <<frame_info, ihdr, failed>>
  BY DEF reader, vars, frames, header
<1>3. PICK old, new, saw_alpha : /\ old = s.buffers /\ saw_alpha = s.saw_alpha
                                 /\ new = Completed(old, f, saw_alpha)
  OBVIOUS
<1>4. /\ AreBuffers(old) /\ Len(old) = Known /\ saw_alpha \in BOOLEAN
      /\ \A k \in 1 .. Known : old[k].required = frame_buffer_cache[k].required
  BY <1>1, <1>3 DEF Drawing
<1>5. /\ AreBuffers(new) /\ Len(new) = Known
      /\ \A k \in 1 .. Known : new[k].required = old[k].required
  BY <1>1, <1>3, <1>4, BufferCompleted
<1>6. frame_buffer_cache' = new /\ current_buffer_saw_alpha' = saw_alpha
  BY <1>1, <1>3 DEF Feed
<1>7. CacheInv'
  <2>1. Len(new) <= Len(frame_info)
    BY <1>5 DEF DecoderInv, CacheInv
  <2> QED
    BY <1>2, <1>5, <1>6, <2>1, BuffersMove
<1>8. Known' = Known /\ Known <= Known'
  <2>1. Known' = Len(new)
    BY <1>6 DEF Known
  <2> QED
    BY <1>5, <2>1, KnownTyped DEF DecoderInv
<1>9. png' \in Session
  BY DEF Feed, DecoderInv, OffsetInv, Session
<1>10. TodoInv'
  <2>1. \A k \in 1 .. Known : frame_buffer_cache'[k].required
                                = frame_buffer_cache[k].required
    BY <1>4, <1>5, <1>6
  <2>2. step' \notin Loops /\ step' \in Loops \cup {"decoded"}
        /\ step \in Loops \cup {"frames"}
    BY DEF Loops
  <2> QED
    BY <1>8, <2>1, <2>2, TodoStays
<1>11. RequestInv'
  <2>1. ~failed'
    BY <1>2 DEF DecoderInv, RequestInv
  <2> QED
    BY <1>4, <1>6, <1>7, <1>8, <2>1, RequestKept DEF DecoderInv, RequestInv
<1> QED
  BY <1>7, <1>9, <1>10, <1>11

LEMMA StillImageStep ==
  ASSUME DecoderInv, ParserInv', ParserKept, StillImage
  PROVE  DecoderInv'
<1> USE DEF loop
<1> DEFINE start == frame_info[1].start_offset + progressive_decode_offset
           end == IF received > start THEN received ELSE start
           Data == {o \in StillChunks : file.chunk[o].type = "IDAT"}
           D == {b \in UNION {Payload(o) : o \in Data} : start <= b /\ b < end}
           Done(s) == [s EXCEPT !.interlaced = NoBuffer,
                                !.buffers = Completed(@, Head(todo), s.saw_alpha)]
           moved == progressive_decode_offset + end - start
<1>1. step = "frames" /\ todo # <<>> /\ current_frame' = Head(todo)
  BY DEF StillImage
<1>2. PICK s :
        /\ s = RowStateAfter(Head(todo), D, FALSE)
        /\ \/ FeedFails(s) /\ UNCHANGED offset
           \/ /\ Feed(s) \/ Feed(Done(s))
              /\ progressive_decode_offset' = moved
              /\ step' = "decoded"
              /\ UNCHANGED <<reader, all_data, index, todo, offset>>
  <2> DEFINE Ends == {o \in StillChunks :
                        LET e == o + 12 + file.chunk[o].length
                        IN start < e /\ e <= end}
             ended == \E o \in Ends : file.chunk[o].type = "IEND"
             s == RowStateAfter(Head(todo), D, FALSE)
  <2>1. \/ FeedFails(s) /\ UNCHANGED offset
        \/ /\ Feed(IF ended THEN Done(s) ELSE s)
           /\ progressive_decode_offset' = moved
           /\ step' = "decoded"
           /\ UNCHANGED <<reader, all_data, index, todo, offset>>
    <3> HIDE DEF s, Ends
    <3> QED
      BY DEF StillImage, s, Ends
  <2>2. Feed(IF ended THEN Done(s) ELSE s) => Feed(s) \/ Feed(Done(s))
    <3> HIDE DEF s, ended, Done
    <3> QED
      OBVIOUS
  <2> HIDE DEF s, ended, Done, moved
  <2> QED
    BY <2>1, <2>2 DEF s
<1>3. Head(todo) \in 1 .. Known /\ frame_info # <<>> /\ size_available
  BY <1>1, HeadKnown
<1>4. /\ start \in Nat /\ end \in Nat /\ start <= end /\ moved \in Nat
  <2>1. frame_info[1].start_offset \in Nat
    <3>1. frame_info \in Seq(FrameInfo)
      BY DEF DecoderInv, ParserInv, IInv, TypeOK, RecordsOK
    <3>2. 1 \in DOMAIN frame_info
      BY <1>3, <3>1
    <3>3. frame_info[1] \in FrameInfo
      BY <3>1, <3>2
    <3> QED
      BY <3>3 DEF FrameInfo
  <2>2. progressive_decode_offset \in Nat /\ received \in Nat
    BY DEF DecoderInv, ParserInv, IInv, TypeOK, InputOK, IsFile, OffsetInv
  <2> QED
    BY <2>1, <2>2
<1>5. IsBounded(D)
  <2>1. D \subseteq 0 .. end
    <3>1. ASSUME NEW b \in D PROVE b \in 0 .. end
      <4>1. PICK o \in Data : b \in Payload(o)
        OBVIOUS
      <4>2. o \in DOMAIN file.chunk /\ IsFile(file)
        BY DEF StillChunks, DecoderInv, ParserInv, IInv, TypeOK, InputOK
      <4>3. b \in Nat
        BY <4>1, <4>2, PayloadBounded
      <4>4. b < end
        OBVIOUS
      <4> HIDE DEF end, D
      <4> QED
        BY <1>4, <4>3, <4>4
    <3> HIDE DEF D, end
    <3> QED
      BY <3>1
  <2> HIDE DEF D, end
  <2> QED
    BY <1>4, <2>1 DEF IsBounded
<1> HIDE DEF D, moved
<1>6. Drawing(Head(todo), s) /\ s.data \in Seq(Nat)
  BY <1>1, <1>2, <1>5, HeadDrawn
<1>7. CASE FeedFails(s) /\ UNCHANGED offset
  BY <1>3, <1>6, <1>7, FeedFailsStep
<1>8. CASE /\ Feed(s) \/ Feed(Done(s))
           /\ progressive_decode_offset' = moved
           /\ step' = "decoded"
           /\ UNCHANGED <<reader, all_data, index, todo, offset>>
  <2>1. RequestInv' /\ CacheInv' /\ TodoInv' /\ png' \in Session
    <3>1. CASE Feed(s)
      <4>1. step' \in Loops \cup {"decoded"} /\ step \in Loops \cup {"frames"}
        BY <1>1, <1>8
      <4> QED
        BY <1>1, <1>6, <1>8, <3>1, <4>1, FeedStep
    <3>2. CASE Feed(Done(s))
      <4>1. PICK t : t = Done(s)
        OBVIOUS
      <4>2. /\ t.data = s.data /\ t.saw_alpha = s.saw_alpha
            /\ t.buffers = Completed(s.buffers, Head(todo), s.saw_alpha)
        BY <1>6, <4>1 DEF Drawing
      <4>3. Feed(t)
        BY <3>2, <4>1
      <4> HIDE DEF Done
      <4> QED
        BY <1>1, <1>6, <1>8, <4>2, <4>3, StillImageCompleted
    <3> QED
      BY <1>8, <3>1, <3>2
  <2>2. OffsetInv'
    BY <1>4, <1>8, <2>1 DEF DecoderInv, OffsetInv, Loops
  <2> QED
    BY <2>1, <2>2 DEF DecoderInv
<1> QED
  BY <1>2, <1>7, <1>8

(* After a frame: the next one, if any, starts from the frame just drawn,  *)
(* which is not cleared.                                                   *)
LEMMA CacheCleared ==
  ASSUME CacheInv, NEW S, ClearFrameBuffers(S), NEW new,
         new = frame_buffer_cache'
  PROVE  /\ AreBuffers(new) /\ Len(new) = Known
         /\ \A k \in 1 .. Known :
              new[k].required = frame_buffer_cache[k].required
         /\ \A k \in 1 .. Known : k \notin S => new[k] = frame_buffer_cache[k]
         /\ \/ UNCHANGED <<png, progressive_decode_offset>>
            \/ png' = NoPng /\ progressive_decode_offset' = 0
<1>1. new = ClearedCache(S)
  BY DEF ClearFrameBuffers, ClearedCache
<1>2. /\ AreBuffers(new) /\ Len(new) = Known
      /\ \A k \in 1 .. Known :
           new[k].required = frame_buffer_cache[k].required
  BY <1>1, BuffersCleared
<1>3. \A k \in 1 .. Known : k \notin S => new[k] = frame_buffer_cache[k]
  BY <1>1, BuffersCleared
<1>4. \/ UNCHANGED <<png, progressive_decode_offset>>
      \/ png' = NoPng /\ progressive_decode_offset' = 0
  BY DEF ClearFrameBuffers
<1> QED
  BY <1>2, <1>3, <1>4

(* The frame just decoded is not cleared.                                  *)
LEMMA PostDecodeCache ==
  ASSUME DecoderInv, PostDecodeProcessing, NEW i, i = current_frame,
         NEW new, new = frame_buffer_cache'
  PROVE  /\ i \in 1 .. Known
         /\ AreBuffers(new) /\ Len(new) = Known
         /\ \A k \in 1 .. Known : new[k].required = frame_buffer_cache[k].required
         /\ frame_buffer_cache[i].status = "kFrameComplete"
              => new[i].status = "kFrameComplete"
         /\ \/ UNCHANGED <<png, progressive_decode_offset>>
            \/ png' = NoPng /\ progressive_decode_offset' = 0
<1>1. step = "decoded"
  BY DEF PostDecodeProcessing
<1>2. i \in 1 .. Known
  <2>1. todo # <<>> /\ i = Head(todo)
    BY <1>1 DEF DecoderInv, TodoInv
  <2> QED
    BY <2>1, HeadKnown
<1>3. CASE UNCHANGED <<png, progressive_decode_offset, frame_buffer_cache>>
  BY <1>2, <1>3 DEF DecoderInv, CacheInv, Known
<1>4. CASE ClearFrameBuffers(Clearable(current_frame))
  <2>1. PICK S : S = Clearable(current_frame)
    OBVIOUS
  <2>2. i \notin S
    BY <1>2, <2>1 DEF Clearable, Kept
  <2>3. /\ AreBuffers(new) /\ Len(new) = Known
        /\ \A k \in 1 .. Known :
             new[k].required = frame_buffer_cache[k].required
        /\ \A k \in 1 .. Known : k \notin S => new[k] = frame_buffer_cache[k]
        /\ \/ UNCHANGED <<png, progressive_decode_offset>>
           \/ png' = NoPng /\ progressive_decode_offset' = 0
    <3>1. CacheInv /\ ClearFrameBuffers(S)
      BY <1>4, <2>1 DEF DecoderInv
    <3> QED
      BY <3>1, CacheCleared
  <2> QED
    BY <1>2, <2>2, <2>3
<1> QED
  BY <1>3, <1>4 DEF PostDecodeProcessing

LEMMA PostDecodeStep ==
  ASSUME DecoderInv, ParserInv', ParserKept, PostDecodeProcessing
  PROVE  DecoderInv'
<1> USE DEF loop
<1>1. /\ step = "decoded" /\ step' = "frames"
      /\ UNCHANGED <<reader, all_data, index, offset, current_frame,
                     current_buffer_saw_alpha>>
  BY DEF PostDecodeProcessing
<1>2. PICK i : i = current_frame
  OBVIOUS
<1>3. todo # <<>> /\ i = Head(todo) /\ Linked(todo) /\ todo \in Seq(1 .. Known)
  BY <1>1, <1>2 DEF DecoderInv, TodoInv
<1>4. i \in 1 .. Known
  BY <1>3, HeadKnown
<1>5. UNCHANGED <<frame_info, ihdr, failed>>
  BY <1>1 DEF reader, vars, frames, header
<1>6. PICK new : new = frame_buffer_cache'
  OBVIOUS
<1>7. /\ AreBuffers(new) /\ Len(new) = Known
      /\ \A k \in 1 .. Known : new[k].required = frame_buffer_cache[k].required
      /\ frame_buffer_cache[i].status = "kFrameComplete"
           => new[i].status = "kFrameComplete"
      /\ \/ UNCHANGED <<png, progressive_decode_offset>>
         \/ png' = NoPng /\ progressive_decode_offset' = 0
  BY <1>2, <1>6, PostDecodeCache
<1>8. CacheInv'
  <2>1. Len(new) <= Len(frame_info)
    BY <1>7 DEF DecoderInv, CacheInv
  <2> QED
    BY <1>5, <1>6, <1>7, <2>1, BuffersMove
<1>9. Known' = Known /\ Known <= Known'
  <2>1. Known' = Len(new)
    BY <1>6 DEF Known
  <2> QED
    BY <1>7, <2>1, KnownTyped DEF DecoderInv
<1>10. TodoInv'
  <2>1. \/ todo' = <<>>
        \/ frame_buffer_cache[i].status = "kFrameComplete" /\ todo' = Tail(todo)
    BY <1>2 DEF PostDecodeProcessing
  <2>2. CASE todo' = <<>>
    <3>1. Linked(todo)'
      BY <2>2 DEF Linked
    <3> QED
      BY <1>1, <2>2, <3>1 DEF TodoInv, Loops
  <2>3. CASE frame_buffer_cache[i].status = "kFrameComplete" /\ todo' = Tail(todo)
    <3>1. PICK t, X : t = Tail(todo) /\ X = 1 .. Known
      OBVIOUS
    <3>2. /\ t \in Seq(X) /\ Linked(t)
          /\ t # <<>> => frame_buffer_cache[Head(t)].required = i
      <4>1. todo \in Seq(X)
        BY <1>3, <3>1
      <4> QED
        BY <1>3, <3>1, <4>1, TailLinked
    <3>3. Linked(todo)'
      BY <1>6, <1>7, <2>3, <3>1, <3>2, LinkedKept
    <3>4. t # <<>> => Prepared(Head(todo))'
      <4> SUFFICES ASSUME t # <<>> PROVE Prepared(Head(todo))'
        OBVIOUS
      <4>1. PICK h : h = Head(t)
        OBVIOUS
      <4>2. h \in 1 .. Known
        <5>1. h \in X
          BY <3>2, <4>1
        <5> QED
          BY <3>1, <5>1
      <4>3. frame_buffer_cache'[h].required = i
        BY <1>6, <1>7, <3>2, <4>1, <4>2
      <4>4. frame_buffer_cache'[i].status = "kFrameComplete"
        BY <1>6, <1>7, <2>3
      <4>5. Head(todo') = h
        BY <2>3, <3>1, <4>1
      <4> QED
        BY <4>3, <4>4, <4>5 DEF Prepared, Ready
    <3>5. todo' = t /\ todo' \in Seq(1 .. Known')
      BY <1>9, <2>3, <3>1, <3>2
    <3> QED
      BY <1>1, <3>3, <3>4, <3>5 DEF TodoInv, Loops
  <2> QED
    BY <2>1, <2>2, <2>3
<1>11. RequestInv'
  <2>1. ~failed'
    BY <1>1, <1>5 DEF DecoderInv, RequestInv
  <2> QED
    BY <1>1, <1>8, <1>9, <2>1, RequestKept DEF DecoderInv, RequestInv
<1>12. OffsetInv'
  <2>1. progressive_decode_offset' \in Nat /\ png' \in Session
    BY <1>7, NoSession DEF DecoderInv, OffsetInv
  <2> QED
    BY <1>1, <2>1 DEF DecoderInv, OffsetInv, Loops
<1> QED
  BY <1>8, <1>10, <1>11, <1>12 DEF DecoderInv

LEMMA DecoderStutters ==
  ASSUME DecoderInv, UNCHANGED allvars, ParserInv'
  PROVE  DecoderInv'
<1> USE DEF allvars, reader, vars, input, header, animated, control, frames, call,
            loop, session, cache
<1>1. RequestInv'
  BY DEF DecoderInv, RequestInv, Known
<1>2. CacheInv'
  BY DEF DecoderInv, CacheInv, AreBuffers, IsBuffer, Known
<1>3. TodoInv'
  BY DEF DecoderInv, TodoInv, Known, Linked, Prepared, Ready
<1>4. OffsetInv'
  BY DEF DecoderInv, OffsetInv, EndsFrame
<1> QED
  BY <1>1, <1>2, <1>3, <1>4 DEF DecoderInv

LEMMA DecoderStep ==
  ASSUME DecoderInv, [DecoderNext]_allvars
  PROVE  DecoderInv'
<1>1. ParserInv' /\ ParserKept
  BY ParserStep DEF DecoderInv
<1>2. CASE SetData
  BY <1>1, <1>2, SetDataStep
<1>3. ASSUME NEW i \in 1 .. MaxFrames, AskFrame(i) PROVE DecoderInv'
  BY <1>1, <1>3, AskFrameStep
<1>4. ASSUME NEW keep \in 0 .. MaxFrames, Purge(keep) PROVE DecoderInv'
  BY <1>1, <1>4, PurgeStep
<1>5. CASE \/ AskSize \/ AskHighBitDepth \/ Parsing \/ SizeAnswered
          \/ (Decode /\ failed) \/ FinishDecode
  BY <1>1, <1>5, AskingStep
<1>6. CASE GrowCache
  BY <1>1, <1>6, GrowCacheStep
<1>7. CASE Decode /\ ~failed
  BY <1>1, <1>7, DecodeStep
<1>8. CASE BeginFrame
  BY <1>1, <1>8, BeginFrameStep
<1>9. CASE StillImage
  BY <1>1, <1>9, StillImageStep
<1>10. CASE FirstFrameEnds \/ WholeFrameEnds
  <2>1. EndFrame /\ step \in Loops
    BY <1>10 DEF FirstFrameEnds, WholeFrameEnds, Loops
  <2> QED
    BY <1>1, <2>1, EndFrameStep
<1>11. CASE SkipDecodedChunk \/ AwaitFrameData
  BY <1>1, <1>11, WaitingStep
<1>12. CASE ProgressiveChunk
  BY <1>1, <1>12, ProgressiveChunkStep
<1>13. CASE WholeChunk
  BY <1>1, <1>13, WholeChunkStep
<1>14. CASE PostDecodeProcessing
  BY <1>1, <1>14, PostDecodeStep
<1>15. CASE UNCHANGED allvars
  BY <1>1, <1>15, DecoderStutters
<1> QED
  BY <1>2, <1>3, <1>4, <1>5, <1>6, <1>7, <1>8, <1>9, <1>10, <1>11, <1>12, <1>13,
     <1>14, <1>15, Zenon DEF DecoderNext, CallStep

LEMMA DecoderInitInv ==
  ASSUME DecoderInit
  PROVE  DecoderInv
<1>1. ParserInv
  BY ParserInit DEF DecoderInit
<1>2. IsList(frame_buffer_cache) /\ Known = 0
  <2>1. frame_buffer_cache = [i \in 1 .. 0 |-> i]
    BY DEF DecoderInit
  <2> QED
    BY <2>1, ListOf DEF Known
<1>3. CacheInv
  <2>1. frame_info = <<>>
    BY DEF DecoderInit, Init
  <2> QED
    BY <1>2, <2>1 DEF CacheInv, AreBuffers, Known
<1>4. RequestInv /\ TodoInv
  <2>1. /\ step = "idle" /\ ~all_data /\ index = 1 /\ todo = <<>>
        /\ all_data \in BOOLEAN /\ current_buffer_saw_alpha \in BOOLEAN
    BY DEF DecoderInit
  <2>2. /\ step \in {"idle", "frames", "decoded"} \cup Calls \cup Loops
        /\ step # "parsing" /\ step \notin Loops \cup {"frames", "decoded"}
        /\ index \in Nat \ {0}
    BY <2>1 DEF Calls, Loops
  <2>3. RequestInv
    BY <2>1, <2>2, Zenon DEF RequestInv
  <2>4. TodoInv
    BY <2>1 DEF TodoInv, Loops
  <2> QED
    BY <2>4, <2>3
<1>5. OffsetInv
  <2>1. png \in Session
    BY DEF DecoderInit, NewPng, Session
  <2> QED
    BY <2>1 DEF DecoderInit, OffsetInv, Loops
<1> QED
  BY <1>1, <1>3, <1>4, <1>5 DEF DecoderInv

-----------------------------------------------------------------------------
(* The inductive invariant holds.                                          *)
THEOREM DecoderInvariant == DecoderSpec => []DecoderInv
<1>1. DecoderInit => DecoderInv
  BY DecoderInitInv
<1>2. DecoderInv /\ [DecoderNext]_allvars => DecoderInv'
  BY DecoderStep
<1> QED
  BY <1>1, <1>2, PTL DEF DecoderSpec

(* The cache has no frame the parser has not registered, and each buffer   *)
(* was set up with the final rectangle and operations of its frame, even   *)
(* the first, which is registered while its data still arrives.            *)
THEOREM DecoderTypeCorrect == DecoderSpec => []DecoderTypeOK
<1>1. DecoderInv => DecoderTypeOK
  <2> SUFFICES ASSUME DecoderInv PROVE DecoderTypeOK
    OBVIOUS
  <2>1. ASSUME NEW i \in 1 .. Known
        PROVE  LET b == frame_buffer_cache[i]
               IN /\ b.status \in {"kFrameEmpty", "kFramePartial",
                                   "kFrameComplete"}
                  /\ b.required \in 0 .. i - 1
                  /\ b.rect = frame_info[i].frame_rect
                  /\ b.disposal = frame_info[i].disposal_method
                  /\ b.blend = frame_info[i].alpha_blend
                  /\ DOMAIN b.rows = 1 .. ihdr.height
    <3>1. IsBuffer(frame_buffer_cache[i], i)
      BY DEF DecoderInv, CacheInv, AreBuffers, Known
    <3> QED
      BY <3>1 DEF IsBuffer, Statuses
  <2>2. /\ step \in {"idle", "sizing", "counting", "parsing", "frames",
                     "progressive", "whole", "decoded"}
        /\ all_data => received = file.size
        /\ Known <= Len(frame_info)
    BY DEF DecoderInv, RequestInv, CacheInv, Calls, Loops
  <2> QED
    BY <2>1, <2>2 DEF DecoderTypeOK
<1> QED
  BY <1>1, DecoderInvariant, PTL

(* A buffer is set up from a complete frame: nothing in the same call      *)
(* clears or takes over a frame that the rest of the call needs.           *)
THEOREM RequiredFramesAreComplete == DecoderSpec => []RequiredFrameIsComplete
<1>1. DecoderInv => RequiredFrameIsComplete
  <2> SUFFICES ASSUME DecoderInv, step \in Loops,
                      frame_buffer_cache[current_frame].status = "kFrameEmpty",
                      frame_buffer_cache[current_frame].required # kNotFound
               PROVE  frame_buffer_cache[current_frame].required
                        \in CompleteFrames
    BY DEF RequiredFrameIsComplete, Loops
  <2>1. todo # <<>> /\ current_frame = Head(todo)
    BY DEF DecoderInv, TodoInv
  <2>2. current_frame \in 1 .. Known /\ Known \in Nat
    BY <2>1, HeadKnown, KnownTyped DEF DecoderInv
  <2>3. Ready(current_frame)
    BY <2>1 DEF DecoderInv, TodoInv, Prepared
  <2>4. frame_buffer_cache[current_frame].required \in 1 .. Known
    <3>1. IsBuffer(frame_buffer_cache[current_frame], current_frame)
      BY <2>2 DEF DecoderInv, CacheInv, AreBuffers, Known
    <3> QED
      BY <2>2, <3>1 DEF IsBuffer, kNotFound
  <2> QED
    BY <2>3, <2>4 DEF Ready, CompleteFrames
<1> QED
  BY <1>1, DecoderInvariant, PTL

-----------------------------------------------------------------------------
(* Data in the order of the file.                                          *)

LEMMA NothingInOrder == InOrder({}) = <<>>
<1>1. IsBounded({})
  BY DEF IsBounded
<1>2. PICK D : D = {}
  OBVIOUS
<1>3. PICK g : InOrder(D) = g[D] /\ g[{}] = <<>>
  BY <1>1, <1>2, InOrderUnfolds
<1> QED
  BY <1>2, <1>3

LEMMA SmallerIsBounded ==
  ASSUME NEW D, IsBounded(D), NEW E, \A b \in E : b \in D
  PROVE  IsBounded(E)
BY DEF IsBounded

(* g lists the subsets of D.                                               *)
Lists(g, D) ==
  /\ InOrder(D) = g[D]
  /\ g[{}] = <<>>
  /\ \A s \in SUBSET D : s # {} => g[s] = Append(g[s \ {Max(s)}], Max(s))

LEMMA ListsExist ==
  ASSUME NEW D, IsBounded(D)
  PROVE  \E g : Lists(g, D)
BY InOrderUnfolds DEF Lists

(* The last offset of a set comes last.                                    *)
LEMMA LastInOrder ==
  ASSUME NEW D, IsBounded(D), D # {}, NEW x, x = Max(D), NEW R, R = D \ {x}
  PROVE  /\ x \in D /\ x \in Nat /\ \A y \in D : y \in Nat /\ y <= x
         /\ IsBounded(R)
         /\ InOrder(D) = Append(InOrder(R), x)
<1>1. PICK n \in Nat : D \subseteq 0 .. n
  BY DEF IsBounded
<1>2. /\ x \in D /\ x \in Nat /\ \A y \in D : y \in Nat /\ y <= x
  <2>1. Max(D) \in D /\ \A y \in D : y <= Max(D)
    BY <1>1, GreatestNatural
  <2>2. \A y \in D : y \in Nat
    BY <1>1
  <2> QED
    BY <2>1, <2>2
<1>3. IsBounded(R)
  BY SmallerIsBounded
<1>4. PICK g : Lists(g, D)
  BY ListsExist
<1>5. PICK h : Lists(h, R)
  BY <1>3, ListsExist
<1>6. /\ InOrder(D) = g[D]
      /\ g[{}] = <<>>
      /\ \A s \in SUBSET D : s # {} => g[s] = Append(g[s \ {Max(s)}], Max(s))
  BY <1>4 DEF Lists
<1>7. /\ InOrder(R) = h[R]
      /\ h[{}] = <<>>
      /\ \A s \in SUBSET R : s # {} => h[s] = Append(h[s \ {Max(s)}], Max(s))
  BY <1>5 DEF Lists
<1> DEFINE S == {m \in Nat : \A s \in SUBSET R : s \subseteq 0 .. m - 1 =>
                               h[s] = g[s]}
<1>8. 0 \in S
  <2>1. \A s : s \subseteq 0 .. 0 - 1 => s = {}
    OBVIOUS
  <2>2. \A s \in SUBSET R : s \subseteq 0 .. 0 - 1 => h[s] = g[s]
    BY <1>6, <1>7, <2>1, Zenon
  <2> QED
    BY <2>2
<1>9. ASSUME NEW m \in Nat, m \in S PROVE m + 1 \in S
  <2> SUFFICES ASSUME NEW s \in SUBSET R, s \subseteq 0 .. (m + 1) - 1
               PROVE  h[s] = g[s]
    OBVIOUS
  <2>1. CASE s = {}
    BY <1>6, <1>7, <2>1
  <2>2. CASE s # {}
    <3>1. PICK y : y = Max(s)
      OBVIOUS
    <3>2. y \in s /\ (\A z \in s : z <= y) /\ s \subseteq 0 .. m
      <4>1. s \subseteq 0 .. m
        OBVIOUS
      <4> QED
        BY <2>2, <3>1, <4>1, GreatestNatural
    <3>3. y \in Nat /\ y <= m
      BY <3>2
    <3>4. PICK r : r = s \ {y}
      OBVIOUS
    <3>5. r \in SUBSET R /\ r \subseteq 0 .. m - 1 /\ s \in SUBSET D
      BY <3>2, <3>3, <3>4
    <3>6. h[r] = g[r]
      BY <1>9, <3>5
    <3> QED
      BY <1>6, <1>7, <2>2, <3>1, <3>4, <3>5, <3>6, Zenon
  <2> QED
    BY <2>1, <2>2
<1>10. n + 1 \in S
  <2> HIDE DEF S
  <2> QED
    BY <1>8, <1>9, SetInduction
<1>11. h[R] = g[R]
  <2>1. R \subseteq 0 .. (n + 1) - 1
    <3>1. \A y \in R : y \in 0 .. n
      BY <1>1
    <3>2. \A y : y \in 0 .. n => y \in 0 .. (n + 1) - 1
      OBVIOUS
    <3> QED
      BY <3>1, <3>2
  <2> QED
    BY <1>10, <2>1
<1>12. InOrder(D) = Append(InOrder(R), x)
  <2>1. D \in SUBSET D /\ D \ {Max(D)} = R
    OBVIOUS
  <2>2. g[D] = Append(g[R], x)
    BY <1>6, <2>1, Zenon
  <2> QED
    BY <1>6, <1>7, <1>11, <2>2, Zenon
<1> QED
  BY <1>2, <1>3, <1>12

(* A set is read as the part before m and then the rest.                   *)
Below(D, m) == {b \in D : b < m}
NotBelow(D, m) == {b \in D : ~(b < m)}

LEMMA OrderSplits ==
  ASSUME NEW D, IsBounded(D), NEW m \in Nat
  PROVE  InOrder(D) = InOrder(Below(D, m)) \o InOrder(NotBelow(D, m))
<1> DEFINE Splits(E) == InOrder(E) = InOrder(Below(E, m)) \o InOrder(NotBelow(E, m))
           S == {k \in Nat : \A E \in SUBSET (0 .. k - 1) : Splits(E)}
<1>1. ASSUME NEW E, IsBounded(E), Below(E, m) = E PROVE Splits(E)
  <2>1. NotBelow(E, m) = {}
    BY <1>1 DEF Below, NotBelow
  <2>2. PICK u : u = InOrder(E)
    OBVIOUS
  <2>3. u \in Seq(Nat)
    BY <1>1, <2>2, InOrderTyped
  <2>4. u \o <<>> = u
    BY <2>3
  <2> QED
    BY <1>1, <2>1, <2>2, <2>4, NothingInOrder
<1>2. ASSUME NEW k \in Nat, NEW E \in SUBSET (0 .. k - 1) PROVE IsBounded(E)
  <2>1. \A y \in E : y \in 0 .. k
    OBVIOUS
  <2>2. E \subseteq 0 .. k
    BY <2>1
  <2> QED
    BY <2>2 DEF IsBounded
<1>3. 0 \in S
  <2>1. ASSUME NEW E \in SUBSET (0 .. 0 - 1) PROVE Splits(E)
    <3>1. \A s : s \subseteq 0 .. 0 - 1 => s = {}
      OBVIOUS
    <3>2. E = {} /\ Below(E, m) = E
      BY <3>1 DEF Below
    <3> HIDE DEF Splits
    <3> QED
      BY <1>1, <1>2, <3>2
  <2> QED
    BY <2>1
<1>4. ASSUME NEW k \in Nat, k \in S PROVE k + 1 \in S
  <2>1. ASSUME NEW E \in SUBSET (0 .. (k + 1) - 1) PROVE Splits(E)
    <3>1. IsBounded(E)
      <4>1. k + 1 \in Nat
        OBVIOUS
      <4> QED
        BY <1>2, <4>1
    <3>2. CASE Below(E, m) = E
      <4> HIDE DEF Splits
      <4> QED
        BY <1>1, <3>1, <3>2
    <3>3. CASE Below(E, m) # E
      <4>1. PICK x : x = Max(E)
        OBVIOUS
      <4>2. PICK R : R = E \ {x}
        OBVIOUS
      <4>3. E # {}
        BY <3>3 DEF Below
      <4>4. /\ x \in E /\ x \in Nat /\ \A y \in E : y \in Nat /\ y <= x
            /\ IsBounded(R)
            /\ InOrder(E) = Append(InOrder(R), x)
        BY <3>1, <4>1, <4>2, <4>3, LastInOrder
      <4>5. ~(x < m)
        <5>1. PICK z \in E : ~(z < m)
          BY <3>3 DEF Below
        <5> QED
          BY <4>4, <5>1
      <4>6. R \in SUBSET (0 .. k - 1)
        BY <4>2, <4>4
      <4>7. Splits(R)
        BY <1>4, <4>6
      <4>8. PICK F, G : F = NotBelow(E, m) /\ G = NotBelow(R, m)
        OBVIOUS
      <4>9. /\ IsBounded(F) /\ F # {} /\ Max(F) = x /\ G = F \ {x}
            /\ Below(E, m) = Below(R, m)
        <5>1. IsBounded(F) /\ F # {} /\ x \in F /\ G = F \ {x}
          BY <3>1, <4>2, <4>4, <4>5, <4>8, SmallerIsBounded DEF NotBelow
        <5>2. Max(F) = x
          <6>1. \A y \in F : y \in E
            BY <4>8 DEF NotBelow
          <6>2. F \subseteq Int /\ (\A y \in F : y <= x) /\ x \in Int
            <7>1. \A y \in E : y \in Int /\ y <= x
              BY <4>4
            <7>2. \A y \in F : y \in Int /\ y <= x
              BY <6>1, <7>1
            <7>3. F \subseteq Int
              BY <7>2
            <7> QED
              BY <4>4, <7>2, <7>3
          <6> QED
            BY <5>1, <6>2, MaxIs
        <5>3. Below(E, m) = Below(R, m)
          BY <4>2, <4>5 DEF Below
        <5> QED
          BY <5>1, <5>2, <5>3
      <4>10. InOrder(F) = Append(InOrder(G), x)
        BY <4>9, LastInOrder
      <4>11. PICK u, v : u = InOrder(Below(R, m)) /\ v = InOrder(G)
        OBVIOUS
      <4>12. u \in Seq(Nat) /\ v \in Seq(Nat)
        <5>1. IsBounded(G)
          BY <4>9, SmallerIsBounded
        <5>2. PICK H : H = Below(R, m)
          OBVIOUS
        <5>3. IsBounded(H)
          BY <4>4, <5>2, SmallerIsBounded DEF Below
        <5> QED
          BY <4>11, <5>1, <5>2, <5>3, InOrderTyped
      <4>13. Append(u \o v, x) = u \o Append(v, x)
        BY <4>4, <4>12, AppendedBehind
      <4> QED
        BY <4>4, <4>7, <4>8, <4>9, <4>10, <4>11, <4>13
    <3> QED
      BY <3>2, <3>3
  <2> QED
    BY <2>1
<1>5. PICK n \in Nat : D \subseteq 0 .. n
  BY DEF IsBounded
<1>6. n + 1 \in S
  <2> HIDE DEF S
  <2> QED
    BY <1>3, <1>4, SetInduction
<1>7. D \in SUBSET (0 .. (n + 1) - 1)
  BY <1>5
<1> QED
  BY <1>6, <1>7

(* The data of a frame.                                                    *)
LEMMA OwnDataTyped ==
  ASSUME DecoderInv, NEW i, NEW b \in OwnData(i)
  PROVE  /\ b \in Nat
         /\ \E o \in OwnChunks(i) : o \in DOMAIN file.chunk /\ b \in Payload(o)
<1>1. PICK o \in OwnChunks(i) : b \in Payload(o)
  BY DEF OwnData
<1>2. o \in DOMAIN file.chunk
  BY DEF OwnChunks, StillChunks
<1>3. IsFile(file)
  BY DEF DecoderInv, ParserInv, IInv, TypeOK, InputOK
<1> QED
  BY <1>1, <1>2, <1>3, PayloadBounded

(* libpng is given the next part of it.                                    *)
LEMMA OwnDataFed ==
  ASSUME DecoderInv, NEW i, NEW m \in Nat, NEW k \in Nat, m <= k,
         NEW E, \A b : b \in E <=> b \in OwnData(i) /\ m <= b /\ b < k
  PROVE  /\ IsBounded(E)
         /\ OwnDataBefore(i, k) = OwnDataBefore(i, m) \o InOrder(E)
<1>1. PICK D : D = {b \in OwnData(i) : b < k}
  OBVIOUS
<1>2. PICK C : C = {b \in OwnData(i) : b < m}
  OBVIOUS
<1>3. \A b \in OwnData(i) : b \in Nat
  BY OwnDataTyped
<1>4. IsBounded(D)
  <2>1. \A b \in D : b \in 0 .. k
    BY <1>1, <1>3
  <2> QED
    BY <2>1 DEF IsBounded
<1>5. Below(D, m) = C
  BY <1>1, <1>2, <1>3 DEF Below
<1>6. NotBelow(D, m) = E
  BY <1>1, <1>3 DEF NotBelow
<1>7. InOrder(D) = InOrder(C) \o InOrder(E)
  BY <1>4, <1>5, <1>6, OrderSplits
<1>8. IsBounded(E)
  BY <1>1, <1>4, SmallerIsBounded
<1> QED
  BY <1>1, <1>2, <1>7, <1>8 DEF OwnDataBefore

LEMMA OwnDataStarts ==
  ASSUME NEW i, NEW m, \A b \in OwnData(i) : ~(b < m)
  PROVE  OwnDataBefore(i, m) = <<>>
<1>1. {b \in OwnData(i) : b < m} = {}
  OBVIOUS
<1> QED
  BY <1>1, NothingInOrder DEF OwnDataBefore

(* What a chunk has of it.                                                 *)
LEMMA ChunkIsOwn ==
  ASSUME DecoderInv, step \in Loops, offset + 8 <= received, ~EndsFrame(offset),
         NEW b
  PROVE  b \in Payload(offset)
           <=> b \in OwnData(current_frame) /\ offset <= b /\ b < here_end
<1>1. /\ offset \in DOMAIN file.chunk
      /\ offset \in Nat /\ here.length \in Nat /\ here_end \in Nat
      /\ here_end = offset + here.length + 12
      /\ \A o \in DOMAIN file.chunk : o \in Nat /\ (offset < o => here_end <= o)
  BY LoopAtChunk
<1>2. /\ is_animated
      /\ frame_info[current_frame].start_offset <= offset
      /\ \A o \in DOMAIN file.chunk :
           frame_info[current_frame].start_offset <= o /\ o < offset
             => ~EndsFrame(o)
  BY DEF DecoderInv, OffsetInv
<1>3. IsFile(file) /\ file \in Files
  BY DEF DecoderInv, ParserInv, IInv, TypeOK, InputOK, DataInv, FileInv
<1>4. ASSUME b \in Payload(offset)
      PROVE  b \in OwnData(current_frame) /\ offset <= b /\ b < here_end
  <2>1. offset \in OwnChunks(current_frame)
    <3>1. ASSUME NEW p \in DOMAIN file.chunk,
                 frame_info[current_frame].start_offset <= p, p <= offset
          PROVE  file.chunk[p].type \notin {"fcTL", "IEND"}
      <4>1. p < offset \/ p = offset
        BY <1>1, <3>1
      <4> QED
        BY <1>2, <3>1, <4>1 DEF EndsFrame
    <3> QED
      BY <1>1, <1>2, <3>1 DEF OwnChunks
  <2>2. b \in Nat /\ offset + 8 <= b /\ b < offset + 12 + file.chunk[offset].length
    BY <1>1, <1>3, <1>4, PayloadBounded
  <2> QED
    BY <1>1, <1>4, <2>1, <2>2 DEF OwnData, here
<1>5. ASSUME b \in OwnData(current_frame), offset <= b, b < here_end
      PROVE  b \in Payload(offset)
  <2>1. PICK o \in OwnChunks(current_frame) :
          o \in DOMAIN file.chunk /\ b \in Payload(o)
    BY <1>5, OwnDataTyped
  <2>2. o \in Nat /\ file.chunk[o] \in Chunk
    BY <1>1, <1>3, <2>1 DEF IsFile
  <2>3. /\ b \in Nat /\ o + 8 <= b /\ b < o + 12 + file.chunk[o].length
    BY <1>3, <2>1, PayloadBounded
  <2>4. ~(o < offset)
    <3>1. o < offset => o + 12 + file.chunk[o].length <= offset
      BY <1>1, <1>3, <2>1, ChunksAssumption
    <3>2. file.chunk[o].length \in Nat
      BY <2>2 DEF Chunk
    <3> QED
      BY <1>1, <1>5, <2>2, <2>3, <3>1, <3>2
  <2>5. ~(offset < o)
    BY <1>1, <1>5, <2>1, <2>2, <2>3
  <2> QED
    BY <1>1, <2>1, <2>2, <2>4, <2>5
<1> QED
  BY <1>4, <1>5

LEMMA OwnDataBegins ==
  ASSUME DecoderInv, NEW i \in DOMAIN frame_info,
         NEW b \in OwnData(i)
  PROVE  frame_info[i].start_offset <= b
<1>1. PICK o \in OwnChunks(i) : o \in DOMAIN file.chunk /\ b \in Payload(o)
  BY OwnDataTyped
<1>2. IsFile(file) /\ frame_info \in Seq(FrameInfo)
  BY DEF DecoderInv, ParserInv, IInv, TypeOK, InputOK, RecordsOK
<1>3. b \in Nat /\ o \in Nat /\ o + 8 <= b
  BY <1>1, <1>2, OwnDataTyped, PayloadBounded DEF IsFile
<1>4. frame_info[i].start_offset <= o
  <2>1. CASE is_animated
    BY <1>1, <2>1 DEF OwnChunks
  <2>2. CASE ~is_animated
    <3>1. Len(frame_info) = 1 /\ frame_info[1].start_offset = idat_offset
      <4>1. frame_info # <<>>
        BY <1>2
      <4> QED
        BY <2>2, <4>1 DEF DecoderInv, ParserInv, RegisteredInv
    <3>2. i = 1
      BY <1>2, <3>1
    <3> QED
      BY <2>2, <3>1, <3>2 DEF OwnChunks, StillChunks
  <2> QED
    BY <2>1, <2>2
<1>5. frame_info[i].start_offset \in Nat
  <2>1. frame_info[i] \in FrameInfo
    BY <1>2
  <2> QED
    BY <2>1 DEF FrameInfo
<1> QED
  BY <1>3, <1>4, <1>5

(* It stays the same while more arrives and is parsed.                     *)
LEMMA OwnDataStays ==
  ASSUME UNCHANGED <<file, is_animated, idat_offset>>,
         NEW i, frame_info'[i].start_offset = frame_info[i].start_offset
  PROVE  /\ OwnData(i)' = OwnData(i)
         /\ \A m : OwnDataBefore(i, m)' = OwnDataBefore(i, m)
<1>1. StillChunks' = StillChunks
  BY DEF StillChunks
<1>2. OwnChunks(i)' = OwnChunks(i)
  BY <1>1 DEF OwnChunks
<1>3. OwnData(i)' = OwnData(i)
  BY <1>2 DEF OwnData, Payload
<1> QED
  BY <1>3 DEF OwnDataBefore

-----------------------------------------------------------------------------
(* What libpng has been given.                                             *)

(* Offsets count from the beginning of the file or of the image data.      *)
Base == IF is_animated THEN 0 ELSE frame_info[1].start_offset

(* It has had the first frame up to progressive_decode_offset.             *)
FirstFrameFed ==
  /\ frame_info # <<>>
  /\ png.exists
  /\ SessionHeight = frame_info[1].frame_rect.height
  /\ png.data = OwnDataBefore(1, Base + progressive_decode_offset)

SessionInv ==
  ~failed =>
    /\ png.ihdr_of \in 0 .. Len(frame_info)
    /\ (size_available /\ is_animated) \/ (png.exists /\ png.ihdr_of = 0)
    /\ step \notin Loops /\ progressive_decode_offset = 0 /\ png.exists
         => png.ihdr_of = 0
    /\ step \in Loops =>
         /\ png.exists
         /\ SessionHeight = frame_info[current_frame].frame_rect.height
    /\ progressive_decode_offset = 0 /\ step # "whole" => png.data = <<>>
    /\ progressive_decode_offset # 0 => FirstFrameFed
    /\ step = "whole" => png.data = OwnDataBefore(current_frame, offset)

LEMMA FailedStays ==
  ASSUME ParserInv, [DecoderNext]_allvars, failed
  PROVE  failed'
<1>1. [Next]_vars \/ Fail
  BY ReaderMoves
<1>2. pc = "idle"
  BY DEF ParserInv, IInv, ReaderInv, CallInv
<1>3. ~ParseSize
  BY <1>2 DEF ParseSize, SizeIsKnown, AwaitHeader, ParseSignature,
     HeaderLengthError, HeaderAcTL, HeaderFcTL, HeaderFdAT, HeaderLibpngChunk,
     HeaderLibpngError, HeaderIgnored, HeaderIDAT, HeaderSizeError, HeaderChunk,
     InHeader
<1>4. ~ParseMetadata
  BY <1>2 DEF ParseMetadata, AwaitChunk, MetadataLengthError, FrameData,
     AwaitSequenceNumber, AwaitFrameEnd, EndOfImage, NextFrame, SkipChunk,
     MetadataError, InMetadata
<1>5. ~FinishSize
  BY <1>2 DEF FinishSize
<1> QED
  BY <1>1, <1>3, <1>4, <1>5
     DEF Next, Fail, Receive, BeginParse, ImageIsHighBitDepth, vars

(* The size of a session stays the same.                                   *)
LEMMA HeightStays ==
  ASSUME DecoderInv, ParserKept, frame_info # <<>>,
         png.ihdr_of \in 0 .. Len(frame_info), UNCHANGED png
  PROVE  /\ SessionHeight' = SessionHeight
         /\ Len(frame_info) \in Nat /\ Len(frame_info') \in Nat
         /\ Len(frame_info) <= Len(frame_info')
         /\ UNCHANGED SizeVars
         /\ frame_info' # <<>>
         /\ \A i \in DOMAIN frame_info :
              SameFrame(frame_info[i], frame_info'[i])
<1>1. /\ Len(frame_info) \in Nat /\ DOMAIN frame_info = 1 .. Len(frame_info)
      /\ Len(frame_info) # 0
  <2>1. frame_info \in Seq(FrameInfo)
    BY DEF DecoderInv, ParserInv, IInv, TypeOK, RecordsOK
  <2> QED
    BY <2>1
<1>2. size_available
  BY DEF DecoderInv, ParserInv, RegisteredInv
<1>3. UNCHANGED SizeVars /\ FramesKept
  BY <1>2 DEF ParserKept
<1>4. 1 \in DOMAIN frame_info /\ 1 \in DOMAIN frame_info'
  BY <1>1, <1>3 DEF FramesKept
<1>5. SessionHeight' = SessionHeight
  <2>1. CASE png.ihdr_of = 0
    BY <1>3, <2>1 DEF SessionHeight, SizeVars
  <2>2. CASE png.ihdr_of # 0
    <3>1. png.ihdr_of \in DOMAIN frame_info
      BY <1>1, <2>2
    <3>2. SameFrame(frame_info[png.ihdr_of], frame_info'[png.ihdr_of])
      BY <1>3, <3>1 DEF FramesKept
    <3> QED
      BY <2>2, <3>2 DEF SessionHeight, SameFrame
  <2> QED
    BY <2>1, <2>2
<1>6. Len(frame_info') \in Nat /\ frame_info' # <<>>
  <2>1. Len(frame_info) <= Len(frame_info')
    BY <1>3 DEF FramesKept
  <2> QED
    BY <1>1, <1>4, <2>1
<1> QED
  BY <1>1, <1>3, <1>5, <1>6 DEF FramesKept

(* It does not change between the loops unless it is given up.             *)
LEMMA QuietSession ==
  ASSUME DecoderInv, SessionInv, ParserInv', ParserKept,
         failed => failed', UNCHANGED <<png, progressive_decode_offset>>,
         step \notin Loops, step' \notin Loops
  PROVE  SessionInv'
<1> SUFFICES ASSUME ~failed' PROVE SessionInv'
  BY DEF SessionInv
<1>1. /\ ~failed
      /\ png.ihdr_of \in 0 .. Len(frame_info)
      /\ (size_available /\ is_animated) \/ (png.exists /\ png.ihdr_of = 0)
      /\ progressive_decode_offset = 0 /\ png.exists => png.ihdr_of = 0
      /\ progressive_decode_offset = 0 => png.data = <<>>
      /\ progressive_decode_offset # 0 => FirstFrameFed
      /\ step' # "whole"
  BY DEF SessionInv, Loops
<1>2. (size_available /\ is_animated)' \/ (png.exists /\ png.ihdr_of = 0)'
  BY <1>1 DEF ParserKept, SizeVars
<1>3. CASE frame_info = <<>>
  <2>1. Len(frame_info') \in Nat /\ Len(frame_info) = 0
    BY <1>3 DEF ParserInv, IInv, TypeOK, RecordsOK
  <2>2. png.ihdr_of \in 0 .. Len(frame_info')
    BY <1>1, <2>1
  <2>3. progressive_decode_offset = 0
    BY <1>1, <1>3 DEF FirstFrameFed
  <2> QED
    BY <1>1, <1>2, <2>2, <2>3 DEF SessionInv
<1>4. CASE frame_info # <<>>
  <2>1. /\ SessionHeight' = SessionHeight
        /\ Len(frame_info) \in Nat /\ Len(frame_info') \in Nat
        /\ Len(frame_info) <= Len(frame_info')
        /\ UNCHANGED SizeVars
        /\ frame_info' # <<>>
        /\ \A i \in DOMAIN frame_info :
             SameFrame(frame_info[i], frame_info'[i])
    BY <1>1, <1>4, HeightStays
  <2>2. png.ihdr_of \in 0 .. Len(frame_info')
    BY <1>1, <2>1
  <2>3. ASSUME progressive_decode_offset # 0 PROVE FirstFrameFed'
    <3>1. 1 \in DOMAIN frame_info
      BY <1>4 DEF DecoderInv, ParserInv, IInv, TypeOK, RecordsOK
    <3>2. /\ frame_info'[1].frame_rect = frame_info[1].frame_rect
          /\ frame_info'[1].start_offset = frame_info[1].start_offset
      BY <2>1, <3>1 DEF SameFrame
    <3>3. UNCHANGED <<file, is_animated, idat_offset>>
      BY <2>1 DEF ParserKept, SizeVars
    <3>4. \A m : OwnDataBefore(1, m)' = OwnDataBefore(1, m)
      BY <3>2, <3>3, OwnDataStays
    <3>5. Base' = Base
      BY <3>2, <3>3 DEF Base
    <3>6. PICK m : m = Base + progressive_decode_offset
      OBVIOUS
    <3>7. png.exists /\ png.data = OwnDataBefore(1, m)
          /\ SessionHeight = frame_info[1].frame_rect.height
      BY <1>1, <2>3, <3>6 DEF FirstFrameFed
    <3>8. OwnDataBefore(1, Base + progressive_decode_offset)'
            = OwnDataBefore(1, m)
      <4>1. OwnDataBefore(1, m)' = OwnDataBefore(1, m)
        BY <3>4
      <4> QED
        BY <3>5, <3>6, <4>1 DEF OwnDataBefore
    <3> QED
      BY <2>1, <3>2, <3>7, <3>8 DEF FirstFrameFed
  <2> QED
    BY <1>1, <1>2, <2>2, <2>3 DEF SessionInv
<1> QED
  BY <1>3, <1>4

LEMMA LostSession ==
  ASSUME failed'
  PROVE  SessionInv'
BY DEF SessionInv

(* It is given up when the first frame of an animation is cleared.         *)
LEMMA SessionCleared ==
  ASSUME png' = NoPng, progressive_decode_offset' = 0, step' \notin Loops,
         size_available', is_animated', ParserInv'
  PROVE  SessionInv'
<1>1. Len(frame_info') \in Nat
  BY DEF ParserInv, IInv, TypeOK, RecordsOK
<1>2. ~png'.exists /\ png'.ihdr_of = 0 /\ png'.data = <<>>
  BY DEF NoPng
<1>3. png'.ihdr_of \in 0 .. Len(frame_info')
  BY <1>1, <1>2
<1>4. step' # "whole"
  BY DEF Loops
<1> QED
  BY <1>2, <1>3, <1>4 DEF SessionInv

LEMMA OwnDataUnmoved ==
  ASSUME UNCHANGED reader
  PROVE  /\ \A i : \A m : OwnDataBefore(i, m)' = OwnDataBefore(i, m)
         /\ Base' = Base
         /\ UNCHANGED <<failed, size_available, is_animated, frame_info, ihdr,
                        file, received>>
<1>1. UNCHANGED <<failed, size_available, is_animated, frame_info, ihdr, file,
                  received, idat_offset>>
  BY DEF reader, vars, input, header, decoder, frames, animated
<1>2. ASSUME NEW i PROVE \A m : OwnDataBefore(i, m)' = OwnDataBefore(i, m)
  BY <1>1, OwnDataStays
<1>3. Base' = Base
  BY <1>1 DEF Base
<1> QED
  BY <1>1, <1>2, <1>3

LEMMA FirstFrameStays ==
  ASSUME UNCHANGED <<reader, png, progressive_decode_offset>>, FirstFrameFed
  PROVE  FirstFrameFed'
<1>1. PICK m : m = Base + progressive_decode_offset
  OBVIOUS
<1>2. OwnDataBefore(1, m)' = OwnDataBefore(1, m)
  BY OwnDataUnmoved
<1>3. Base' = Base /\ UNCHANGED <<frame_info, ihdr>>
  BY OwnDataUnmoved
<1>4. OwnDataBefore(1, Base + progressive_decode_offset)' = OwnDataBefore(1, m)
  BY <1>1, <1>2, <1>3 DEF OwnDataBefore
<1> QED
  BY <1>1, <1>3, <1>4 DEF FirstFrameFed, SessionHeight

(* Nothing is done but to wait or to go on behind a chunk.                 *)
LEMMA SessionInLoop ==
  ASSUME DecoderInv, SessionInv, UNCHANGED <<reader, png,
         progressive_decode_offset, current_frame>>,
         step = "progressive",
         \/ step' = "progressive"
         \/ step' = "decoded" /\ progressive_decode_offset # 0
  PROVE  SessionInv'
<1>1. UNCHANGED <<failed, size_available, is_animated, frame_info, ihdr>>
  BY OwnDataUnmoved
<1>2. SessionHeight' = SessionHeight
  BY <1>1 DEF SessionHeight
<1>3. FirstFrameFed => FirstFrameFed'
  BY FirstFrameStays
<1> QED
  BY <1>1, <1>2, <1>3 DEF SessionInv, Loops

LEMMA QuietCallSession ==
  ASSUME DecoderInv, SessionInv, ParserInv', ParserKept, failed => failed',
         \/ SetData \/ AskSize \/ AskHighBitDepth
         \/ \E i \in 1 .. MaxFrames : AskFrame(i)
         \/ Parsing \/ SizeAnswered \/ GrowCache \/ Decode \/ FinishDecode
  PROVE  SessionInv'
<1> USE DEF call, loop, session, cache
<1>1. CASE DecodeFails
  <2>1. failed'
    BY <1>1 DEF DecodeFails, LoseReader, Fail
  <2> QED
    BY <2>1, LostSession
<1>2. CASE ~DecodeFails
  <2>1. UNCHANGED <<png, progressive_decode_offset>>
    BY <1>2 DEF SetData, AskSize, AskHighBitDepth, AskFrame, Parsing, SizeAnswered, GrowCache,
                Decode, FinishDecode
  <2>2. step \notin Loops /\ step' \notin Loops
    BY <1>2 DEF SetData, AskSize, AskHighBitDepth, AskFrame, Parsing, SizeAnswered, Parsed,
                GrowCache, Decode, FinishDecode, Loops
  <2> QED
    BY <2>1, <2>2, QuietSession
<1> QED
  BY <1>1, <1>2

(* Only in an animation is there more than one frame to clear.             *)
LEMMA ClearingSession ==
  ASSUME DecoderInv, SessionInv, ParserInv', ParserKept, UNCHANGED reader,
         NEW keep, ClearFrameBuffers(Clearable(keep)),
         step \notin Loops, step' \notin Loops
  PROVE  SessionInv'
<1>1. UNCHANGED <<failed, size_available, is_animated, frame_info>>
  BY DEF reader, vars, decoder, frames, animated
<1>2. CASE UNCHANGED <<png, progressive_decode_offset>>
  BY <1>1, <1>2, QuietSession
<1>3. CASE ~UNCHANGED <<png, progressive_decode_offset>>
  <2>1. /\ 1 \in Clearable(keep)
        /\ png' = NoPng /\ progressive_decode_offset' = 0
    BY <1>3 DEF ClearFrameBuffers
  <2>2. Known > 1
    BY <2>1 DEF Clearable
  <2>3. Known \in Nat /\ Known <= Len(frame_info) /\ Len(frame_info) \in Nat
        /\ (frame_info = <<>> => Len(frame_info) = 0)
    BY KnownTyped DEF DecoderInv, CacheInv, ParserInv, IInv, TypeOK, RecordsOK
  <2>4. size_available /\ is_animated
    <3>1. PICK n, l : n = Known /\ l = Len(frame_info)
      OBVIOUS
    <3>2. l # 0 /\ l # 1
      BY <2>2, <2>3, <3>1
    <3>3. frame_info # <<>> /\ Len(frame_info) # 1
      BY <2>3, <3>1, <3>2
    <3>4. RegisteredInv
      BY DEF DecoderInv, ParserInv
    <3> QED
      BY <3>3, <3>4 DEF RegisteredInv
  <2> QED
    BY <1>1, <2>1, <2>4, SessionCleared
<1> QED
  BY <1>2, <1>3

LEMMA PurgeSession ==
  ASSUME DecoderInv, SessionInv, ParserInv', ParserKept, NEW keep, Purge(keep)
  PROVE  SessionInv'
<1>1. /\ UNCHANGED reader /\ ClearFrameBuffers(Clearable(keep))
      /\ step \notin Loops /\ step' \notin Loops
  BY DEF Purge, call, Loops
<1> QED
  BY <1>1, ClearingSession

LEMMA PostDecodeSession ==
  ASSUME DecoderInv, SessionInv, ParserInv', ParserKept, PostDecodeProcessing
  PROVE  SessionInv'
<1>1. UNCHANGED reader /\ step \notin Loops /\ step' \notin Loops
  BY DEF PostDecodeProcessing, Loops
<1>2. UNCHANGED failed
  BY <1>1 DEF reader, vars, header
<1>3. CASE UNCHANGED <<png, progressive_decode_offset>>
  BY <1>1, <1>2, <1>3, QuietSession
<1>4. CASE ClearFrameBuffers(Clearable(current_frame))
  BY <1>1, <1>4, ClearingSession
<1> QED
  BY <1>3, <1>4 DEF PostDecodeProcessing

LEMMA EndFrameSession ==
  ASSUME DecoderInv, SessionInv, ParserInv', EndFrame, step \in Loops
  PROVE  SessionInv'
<1>1. CASE DecodeFails
  <2>1. failed'
    BY <1>1 DEF DecodeFails, LoseReader, Fail
  <2> QED
    BY <2>1, LostSession
<1>2. CASE ~DecodeFails
  <2>1. /\ png' = NoPng /\ step' \notin Loops /\ UNCHANGED reader
        /\ \/ progressive_decode_offset' = 0
           \/ step = "whole" /\ UNCHANGED progressive_decode_offset
    BY <1>2 DEF EndFrame, Loops
  <2>2. is_animated /\ (step = "whole" => progressive_decode_offset = 0)
    BY DEF DecoderInv, OffsetInv
  <2>3. size_available
    <3>1. todo # <<>>
      BY DEF DecoderInv, TodoInv
    <3> QED
      BY <3>1, HeadKnown
  <2>4. size_available' /\ is_animated'
    BY <2>1, <2>2, <2>3 DEF reader, vars, decoder, animated
  <2> QED
    BY <2>1, <2>2, <2>4, SessionCleared
<1> QED
  BY <1>1, <1>2

(* The first frame waits for data only after some has been drawn: the      *)
(* chunk it begins at is here.                                             *)
LEMMA WaitingSession ==
  ASSUME DecoderInv, SessionInv, SkipDecodedChunk \/ AwaitFrameData
  PROVE  SessionInv'
<1> USE DEF call, loop, session, cache
<1>1. /\ step = "progressive" /\ step \in Loops
      /\ UNCHANGED <<reader, png, progressive_decode_offset, current_frame>>
      /\ \/ step' = "progressive"
         \/ step' = "decoded" /\ received < offset + 8
  BY DEF SkipDecodedChunk, AwaitFrameData, Loops
<1>2. ASSUME received < offset + 8 PROVE progressive_decode_offset # 0
  <2>1. /\ offset \in Nat /\ progressive_decode_offset \in Nat
        /\ \/ offset = frame_info[1].start_offset
           \/ offset <= progressive_decode_offset
        /\ frame_info[1].start_offset <= offset
        /\ is_animated
    BY <1>1 DEF DecoderInv, OffsetInv
  <2>2. 1 \in DOMAIN frame_info
    <3>1. todo # <<>> /\ current_frame = Head(todo) /\ current_frame = 1
      BY <1>1 DEF DecoderInv, TodoInv, OffsetInv
    <3> QED
      BY <3>1, HeadKnown
  <2>3. Begun(frame_info[1].start_offset) /\ frame_info[1] \in FrameInfo
    BY <2>1, <2>2 DEF DecoderInv, ParserInv, RegisteredInv, IInv, TypeOK, RecordsOK
  <2>4. frame_info[1].start_offset \in Nat /\ received \in Nat
    BY <2>3 DEF FrameInfo, DecoderInv, ParserInv, IInv, TypeOK, InputOK, IsFile
  <2> QED
    BY <1>2, <2>1, <2>3, <2>4 DEF Begun
<1> QED
  BY <1>1, <1>2, SessionInLoop

(* A frame is begun, with a session of its own or with one that fits.      *)
LEMMA BeginFrameSession ==
  ASSUME DecoderInv, SessionInv, ParserInv', BeginFrame
  PROVE  SessionInv'
<1>1. /\ step = "frames" /\ todo # <<>> /\ is_animated /\ UNCHANGED reader
  BY DEF BeginFrame
<1>2. PICK i : i = Head(todo)
  OBVIOUS
<1>3. /\ i \in Nat /\ i \in DOMAIN frame_info /\ frame_info[i] \in FrameInfo
      /\ size_available
  BY <1>1, <1>2, HeadKnown
<1>4. /\ UNCHANGED <<failed, size_available, is_animated, frame_info, ihdr>>
      /\ \A m : OwnDataBefore(i, m)' = OwnDataBefore(i, m)
  BY <1>1, OwnDataUnmoved
<1>5. ~failed /\ step \notin Loops
  BY <1>1 DEF DecoderInv, RequestInv, Loops
<1>6. i \in 1 .. Len(frame_info) /\ Len(frame_info) \in Nat
  BY <1>3 DEF DecoderInv, ParserInv, IInv, TypeOK, RecordsOK
<1>7. PICK start \in Nat : start = frame_info[i].start_offset
  BY <1>3 DEF FrameInfo
<1>8. OwnDataBefore(i, start) = <<>>
  <2>1. ASSUME NEW b \in OwnData(i) PROVE ~(b < start)
    <3>1. start <= b
      BY <1>3, <1>7, OwnDataBegins
    <3>2. b \in Nat
      BY OwnDataTyped
    <3> QED
      BY <1>7, <3>1, <3>2
  <2> QED
    BY <2>1, OwnDataStarts
<1>9. /\ current_frame' = i /\ offset' = start
      /\ step' \in Loops /\ step' \in {"progressive", "whole"}
  BY <1>2, <1>7 DEF BeginFrame, Loops
<1>10. OwnDataBefore(current_frame, offset)' = <<>>
  <2>1. OwnDataBefore(i, start)' = <<>>
    BY <1>4, <1>8
  <2> QED
    BY <1>9, <2>1 DEF OwnDataBefore
<1>11. CASE ShouldDecodeWithNewPNG(i)
  <2>1. png' = StartedPng(i) /\ progressive_decode_offset' = 0
    BY <1>2, <1>11 DEF BeginFrame
  <2>2. png'.exists /\ png'.data = <<>> /\ png'.ihdr_of \in 0 .. Len(frame_info)
    BY <1>6, <2>1 DEF StartedPng, NewPng
  <2>3. SessionHeight' = frame_info'[i].frame_rect.height
    <3>1. CASE frame_info[i].frame_rect = ImageRect
      <4>1. png'.ihdr_of = 0
        BY <2>1, <3>1 DEF StartedPng, NewPng
      <4>2. frame_info[i].frame_rect.height = ihdr.height
        BY <3>1 DEF ImageRect
      <4> QED
        BY <1>4, <4>1, <4>2 DEF SessionHeight
    <3>2. CASE frame_info[i].frame_rect # ImageRect
      <4>1. png'.ihdr_of = i /\ i # 0
        BY <1>6, <2>1, <3>2 DEF StartedPng, NewPng
      <4> QED
        BY <4>1 DEF SessionHeight
    <3> QED
      BY <3>1, <3>2
  <2> QED
    BY <1>1, <1>3, <1>4, <1>9, <1>10, <2>1, <2>2, <2>3 DEF SessionInv
<1>12. CASE ~ShouldDecodeWithNewPNG(i)
  <2>1. UNCHANGED <<png, progressive_decode_offset>> /\ png.exists
    BY <1>2, <1>12 DEF BeginFrame, ShouldDecodeWithNewPNG
  <2>2. png.ihdr_of \in 0 .. Len(frame_info)
    BY <1>5 DEF SessionInv
  <2>3. CASE progressive_decode_offset # 0
    <3>1. i = 1
      BY <1>6, <1>12, <2>3 DEF ShouldDecodeWithNewPNG
    <3>2. step' = "progressive"
      BY <1>2, <1>12, <2>3, <3>1 DEF BeginFrame
    <3>3. FirstFrameFed
      BY <1>5, <2>3 DEF SessionInv
    <3>4. FirstFrameFed'
      BY <1>1, <2>1, <3>3, FirstFrameStays
    <3>5. SessionHeight' = frame_info'[current_frame'].frame_rect.height
      BY <1>9, <3>1, <3>4 DEF FirstFrameFed
    <3> QED
      BY <1>1, <1>3, <1>4, <1>9, <2>1, <2>2, <2>3, <3>2, <3>4, <3>5 DEF SessionInv
  <2>4. CASE progressive_decode_offset = 0
    <3>1. frame_info[i].frame_rect = ImageRect
      BY <1>6, <1>12, <2>4 DEF ShouldDecodeWithNewPNG
    <3>2. png.ihdr_of = 0 /\ png.data = <<>>
      BY <1>1, <1>5, <2>1, <2>4 DEF SessionInv
    <3>3. SessionHeight' = frame_info'[current_frame'].frame_rect.height
      <4>1. SessionHeight' = ihdr.height
        BY <1>4, <2>1, <3>2 DEF SessionHeight
      <4>2. frame_info[i].frame_rect.height = ihdr.height
        BY <3>1 DEF ImageRect
      <4> QED
        BY <1>4, <1>9, <4>1, <4>2
    <3> QED
      BY <1>1, <1>3, <1>4, <1>9, <1>10, <2>1, <2>2, <2>4, <3>2, <3>3 DEF SessionInv
  <2> QED
    BY <2>3, <2>4
<1> QED
  BY <1>11, <1>12

(* What libpng is given next: the data of the frame from where it stopped. *)
NextData(f, from, to, D) ==
  /\ from \in Nat /\ to \in Nat /\ from <= to
  /\ \A b : b \in D <=> b \in OwnData(f) /\ from <= b /\ b < to
  /\ png.data = OwnDataBefore(f, from)

LEMMA NextDataFed ==
  ASSUME DecoderInv, todo # <<>>, NEW f, NEW from, NEW to, NEW D,
         NextData(f, from, to, D), NEW writable,
         NEW s, s = RowStateAfter(Head(todo), D, writable)
  PROVE  s.data = OwnDataBefore(f, to)
<1>1. /\ IsBounded(D)
      /\ OwnDataBefore(f, to) = OwnDataBefore(f, from) \o InOrder(D)
  BY OwnDataFed DEF NextData
<1>2. s.data = png.data \o InOrder(D)
  BY <1>1, HeadDrawn
<1> QED
  BY <1>1, <1>2 DEF NextData

LEMMA SessionFed ==
  ASSUME DecoderInv, NEW s, Feed(s)
  PROVE  /\ png'.exists = png.exists /\ png'.ihdr_of = png.ihdr_of
         /\ png'.data = s.data
BY DEF DecoderInv, OffsetInv, Session, Feed

LEMMA WholeChunkData ==
  ASSUME DecoderInv, SessionInv, WholeChunk
  PROVE  NextData(current_frame, offset, here_end, Payload(offset))
<1>1. step = "whole" /\ step \in Loops
  BY DEF WholeChunk, Loops
<1>2. offset + 8 <= received /\ ~EndsFrame(offset)
  <2>1. offset < frame_info[current_frame].start_offset
                   + frame_info[current_frame].byte_length
    BY DEF WholeChunk
  <2> QED
    BY <1>1, <2>1, ClosedFrameAhead
<1>3. offset \in Nat /\ here_end \in Nat /\ offset <= here_end
  BY <1>1, <1>2, LoopAtChunk
<1>4. \A b : b \in Payload(offset)
              <=> b \in OwnData(current_frame) /\ offset <= b /\ b < here_end
  BY <1>1, <1>2, ChunkIsOwn
<1>5. ~failed /\ png.data = OwnDataBefore(current_frame, offset)
  BY <1>1 DEF SessionInv, DecoderInv, TodoInv, OffsetInv, RequestInv
<1> QED
  BY <1>3, <1>4, <1>5 DEF NextData

LEMMA WholeChunkSession ==
  ASSUME DecoderInv, SessionInv, WholeChunk
  PROVE  SessionInv'
<1> USE DEF loop, call
<1>1. step = "whole" /\ step \in Loops
  BY DEF WholeChunk, Loops
<1>2. PICK i, D, end : i = current_frame /\ D = Payload(offset) /\ end = here_end
  OBVIOUS
<1>3. NextData(i, offset, end, D)
  BY <1>2, WholeChunkData
<1>4. PICK writable, s :
        /\ s = RowStateAfter(i, D, writable)
        /\ \/ FeedFails(s)
           \/ /\ Feed(s)
              /\ offset' = here_end
              /\ UNCHANGED <<reader, current_frame, step,
                             progressive_decode_offset>>
  BY <1>2 DEF WholeChunk
<1>5. todo # <<>> /\ i = Head(todo) /\ progressive_decode_offset = 0 /\ ~failed
  BY <1>1, <1>2 DEF DecoderInv, TodoInv, OffsetInv, RequestInv
<1>6. s.data = OwnDataBefore(i, end)
  BY <1>3, <1>4, <1>5, NextDataFed
<1>7. CASE FeedFails(s)
  <2>1. failed'
    BY <1>7 DEF FeedFails, LoseReader, Fail
  <2> QED
    BY <2>1, LostSession
<1>8. CASE /\ Feed(s)
            /\ offset' = here_end
            /\ UNCHANGED <<reader, current_frame, step,
                           progressive_decode_offset>>
  <2>1. /\ png'.exists = png.exists /\ png'.ihdr_of = png.ihdr_of
        /\ png'.data = s.data
    BY <1>8, SessionFed
  <2>2. /\ UNCHANGED <<failed, size_available, is_animated, frame_info, ihdr>>
        /\ OwnDataBefore(i, end)' = OwnDataBefore(i, end)
    BY <1>8, OwnDataUnmoved
  <2>3. SessionHeight' = SessionHeight
    BY <2>1, <2>2 DEF SessionHeight
  <2>4. png'.data = OwnDataBefore(current_frame, offset)'
    <3>1. current_frame' = i /\ offset' = end
      BY <1>2, <1>8
    <3> QED
      BY <1>6, <2>1, <2>2, <3>1 DEF OwnDataBefore
  <2> QED
    BY <1>1, <1>5, <1>8, <2>1, <2>2, <2>3, <2>4 DEF SessionInv
<1> QED
  BY <1>4, <1>7, <1>8

LEMMA ProgressiveChunkData ==
  ASSUME DecoderInv, SessionInv, ProgressiveChunk
  PROVE  LET end == FedUpTo(ResumeAt, here_end)
             D == {o \in Payload(offset) : ResumeAt <= o /\ o < end}
         IN NextData(1, progressive_decode_offset, end, D) /\ end # 0
<1>1. PICK p, from, end :
        /\ p = progressive_decode_offset /\ from = ResumeAt
        /\ end = FedUpTo(ResumeAt, here_end)
  OBVIOUS
<1>2. PICK D : D = {o \in Payload(offset) : from <= o /\ o < end}
  OBVIOUS
<1>3. /\ step = "progressive" /\ step \in Loops /\ received >= offset + 8
      /\ ~EndsFrame(offset) /\ p < here_end
  BY <1>1 DEF ProgressiveChunk, Loops, EndsFrame, here
<1>4. /\ todo # <<>> /\ current_frame = Head(todo) /\ current_frame = 1 /\ ~failed
      /\ is_animated /\ p \in Nat /\ offset \in Nat
      /\ \/ offset = frame_info[1].start_offset
         \/ offset <= p
  BY <1>1, <1>3 DEF DecoderInv, TodoInv, OffsetInv, RequestInv
<1>5. offset + 8 <= received
  <2>1. received \in Nat
    BY DEF DecoderInv, ParserInv, IInv, TypeOK, InputOK, IsFile
  <2> QED
    BY <1>3, <1>4, <2>1
<1>6. /\ here_end \in Nat
      /\ from \in Nat /\ end \in Nat /\ offset + 8 <= from /\ from <= end
      /\ end <= here_end
  <2>1. progressive_decode_offset < here_end
    BY <1>1, <1>3
  <2> QED
    BY <1>1, <1>3, <1>5, <2>1, FedInChunk, LoopAtChunk
<1>7. p <= from
  BY <1>1, <1>4 DEF ResumeAt
<1>8. p <= end /\ end # 0
  BY <1>4, <1>6, <1>7
<1>9. ASSUME NEW b
       PROVE  b \in Payload(offset)
                <=> b \in OwnData(1) /\ offset <= b /\ b < here_end
  BY <1>3, <1>4, <1>5, ChunkIsOwn
<1>10. ASSUME NEW b \in Payload(offset), p <= b PROVE from <= b
  <2>1. offset \in DOMAIN file.chunk /\ IsFile(file)
    BY <1>3, <1>5, LoopAtChunk DEF DecoderInv, ParserInv, IInv, TypeOK, InputOK
  <2>2. b \in Nat /\ offset + 8 <= b
    BY <2>1, PayloadBounded
  <2>3. here.type = "fdAT" => offset + 12 <= b
    <3>1. PICK l \in Nat : l = file.chunk[offset].length
      BY <1>3, <1>5, LoopAtChunk DEF here
    <3>2. here.type = "fdAT" => b \in offset + 12 .. offset + 7 + l
      BY <3>1 DEF Payload, here
    <3> QED
      BY <1>4, <3>1, <3>2
  <2> QED
    BY <1>1, <1>4, <1>10, <2>2, <2>3 DEF ResumeAt
<1>11. ASSUME NEW b PROVE b \in D <=> b \in OwnData(1) /\ p <= b /\ b < end
  <2>1. b \in OwnData(1) => b \in Nat
    BY OwnDataTyped
  <2>2. b \in D => b \in OwnData(1) /\ p <= b /\ b < end
    <3> SUFFICES ASSUME b \in D PROVE b \in OwnData(1) /\ p <= b /\ b < end
      OBVIOUS
    <3>1. b \in Payload(offset) /\ from <= b /\ b < end
      BY <1>2
    <3>2. b \in OwnData(1)
      BY <1>9, <3>1
    <3> QED
      BY <1>4, <1>6, <1>7, <2>1, <3>1, <3>2
  <2>3. b \in OwnData(1) /\ p <= b /\ b < end => b \in D
    <3> SUFFICES ASSUME b \in OwnData(1), p <= b, b < end PROVE b \in D
      OBVIOUS
    <3>1. offset <= b
      <4>1. CASE offset = frame_info[1].start_offset
        <5>1. 1 \in DOMAIN frame_info
          BY <1>4, HeadKnown
        <5> QED
          BY <4>1, <5>1, OwnDataBegins
      <4>2. CASE offset <= p
        BY <1>4, <2>1, <4>2
      <4> QED
        BY <1>4, <4>1, <4>2
    <3>2. b < here_end
      BY <1>6, <2>1
    <3>3. b \in Payload(offset)
      BY <1>9, <3>1, <3>2
    <3> QED
      BY <1>2, <1>10, <3>3
  <2> QED
    BY <2>2, <2>3
<1>12. png.data = OwnDataBefore(1, p)
  <2>1. CASE p = 0
    <3>1. \A b \in OwnData(1) : ~(b < 0)
      BY OwnDataTyped
    <3>2. png.data = <<>>
      BY <1>1, <1>3, <1>4, <2>1 DEF SessionInv
    <3> QED
      BY <2>1, <3>1, <3>2, OwnDataStarts
  <2>2. CASE p # 0
    <3>1. FirstFrameFed
      BY <1>1, <1>4, <2>2 DEF SessionInv
    <3>2. Base + progressive_decode_offset = p
      BY <1>1, <1>4 DEF Base
    <3> QED
      BY <3>1, <3>2 DEF FirstFrameFed
  <2> QED
    BY <2>1, <2>2
<1> QED
  BY <1>1, <1>2, <1>4, <1>6, <1>8, <1>11, <1>12 DEF NextData

LEMMA ProgressiveChunkSession ==
  ASSUME DecoderInv, SessionInv, ProgressiveChunk
  PROVE  SessionInv'
<1> USE DEF loop
<1>1. PICK p, end, D :
        /\ p = progressive_decode_offset /\ end = FedUpTo(ResumeAt, here_end)
        /\ D = {o \in Payload(offset) : ResumeAt <= o /\ o < end}
  OBVIOUS
<1>2. NextData(1, p, end, D) /\ end # 0
  BY <1>1, ProgressiveChunkData
<1>3. step = "progressive" /\ step \in Loops
  BY DEF ProgressiveChunk, Loops
<1>4. PICK writable, s :
        /\ s = RowStateAfter(current_frame, D, writable)
        /\ \/ FeedFails(s)
           \/ /\ Feed(s)
              /\ progressive_decode_offset' = end
              /\ step' \in {"progressive", "decoded"}
              /\ UNCHANGED <<reader, current_frame>>
  BY <1>1, <1>3 DEF ProgressiveChunk
<1>5. /\ todo # <<>> /\ current_frame = Head(todo) /\ current_frame = 1
      /\ ~failed /\ is_animated
  BY <1>3 DEF DecoderInv, TodoInv, OffsetInv, RequestInv
<1>6. s.data = OwnDataBefore(1, end)
  BY <1>2, <1>4, <1>5, NextDataFed
<1>7. CASE FeedFails(s)
  <2>1. failed'
    BY <1>7 DEF FeedFails, LoseReader, Fail
  <2> QED
    BY <2>1, LostSession
<1>8. CASE /\ Feed(s)
            /\ progressive_decode_offset' = end
            /\ step' \in {"progressive", "decoded"}
            /\ UNCHANGED <<reader, current_frame>>
  <2>1. /\ png'.exists = png.exists /\ png'.ihdr_of = png.ihdr_of
        /\ png'.data = s.data
    BY <1>8, SessionFed
  <2>2. /\ UNCHANGED <<failed, size_available, is_animated, frame_info, ihdr>>
        /\ OwnDataBefore(1, end)' = OwnDataBefore(1, end)
    BY <1>8, OwnDataUnmoved
  <2>3. SessionHeight' = SessionHeight
    BY <2>1, <2>2 DEF SessionHeight
  <2>4. png.exists /\ SessionHeight = frame_info[1].frame_rect.height
        /\ png.ihdr_of \in 0 .. Len(frame_info)
    BY <1>3, <1>5 DEF SessionInv
  <2>5. FirstFrameFed'
    <3>1. (Base + progressive_decode_offset)' = end
      BY <1>2, <1>5, <1>8, <2>2 DEF Base, NextData
    <3>2. png'.data = OwnDataBefore(1, Base + progressive_decode_offset)'
      BY <1>6, <2>1, <2>2, <3>1 DEF OwnDataBefore
    <3>3. frame_info # <<>>
      BY <1>5, HeadKnown
    <3> QED
      BY <2>1, <2>2, <2>3, <2>4, <3>2, <3>3 DEF FirstFrameFed
  <2>6. size_available
    BY <1>5, HeadKnown
  <2> QED
    BY <1>2, <1>5, <1>8, <2>1, <2>2, <2>3, <2>4, <2>5, <2>6 DEF SessionInv, Loops
<1> QED
  BY <1>4, <1>7, <1>8

(* A still image is given what is here of it, and with its end it is done. *)
StillFrom == frame_info[1].start_offset + progressive_decode_offset
StillTo == IF received > StillFrom THEN received ELSE StillFrom
StillDrawn ==
  {b \in UNION {Payload(o) : o \in {c \in StillChunks :
                                      file.chunk[c].type = "IDAT"}} :
     StillFrom <= b /\ b < StillTo}
StillDone(s) ==
  [s EXCEPT !.interlaced = NoBuffer,
            !.buffers = Completed(@, Head(todo), s.saw_alpha)]

StillFed(s) ==
  /\ s = RowStateAfter(Head(todo), StillDrawn, FALSE)
  /\ \/ FeedFails(s)
     \/ /\ \/ Feed(s)
           \/ Feed(StillDone(s)) /\ ~(Len(s.data) < Needed)
        /\ progressive_decode_offset'
             = progressive_decode_offset + StillTo - StillFrom
        /\ step' = "decoded"
        /\ UNCHANGED reader

LEMMA StillImageFeeds ==
  ASSUME StillImage
  PROVE  \E s : StillFed(s)
<1> DEFINE Ends == {o \in StillChunks :
                      LET e == o + 12 + file.chunk[o].length
                      IN StillFrom < e /\ e <= StillTo}
           ended == \E o \in Ends : file.chunk[o].type = "IEND"
           s == RowStateAfter(Head(todo), StillDrawn, FALSE)
<1>1. \/ FeedFails(s)
      \/ /\ ~(ended /\ Len(s.data) < Needed)
         /\ Feed(IF ended THEN StillDone(s) ELSE s)
         /\ progressive_decode_offset'
              = progressive_decode_offset + StillTo - StillFrom
         /\ step' = "decoded"
         /\ UNCHANGED reader
  BY DEF StillImage, StillFrom, StillTo, StillDrawn, StillDone
<1> HIDE DEF s, ended
<1> QED
  BY <1>1 DEF StillFed, s

LEMMA StillImageData ==
  ASSUME DecoderInv, SessionInv, step = "frames", todo # <<>>, ~is_animated
  PROVE  /\ NextData(1, StillFrom, StillTo, StillDrawn)
         /\ frame_info[1].start_offset \in Nat
         /\ \A n : n = frame_info[1].start_offset => OwnDataBefore(1, n) = <<>>
         /\ progressive_decode_offset \in Nat
         /\ ~failed /\ png.exists /\ png.ihdr_of = 0
<1>1. PICK p, start : /\ p = progressive_decode_offset
                      /\ start = frame_info[1].start_offset
  OBVIOUS
<1>2. 1 \in DOMAIN frame_info /\ start \in Nat
  <2>1. frame_info # <<>>
    BY HeadKnown
  <2>2. frame_info \in Seq(FrameInfo)
    BY DEF DecoderInv, ParserInv, IInv, TypeOK, RecordsOK
  <2>3. 1 \in DOMAIN frame_info
    BY <2>1, <2>2
  <2>4. frame_info[1] \in FrameInfo
    BY <2>2, <2>3
  <2> QED
    BY <1>1, <2>3, <2>4 DEF FrameInfo
<1>3. PICK m, k : m = StillFrom /\ k = StillTo
  OBVIOUS
<1>4. p \in Nat /\ m \in Nat /\ k \in Nat /\ m <= k /\ m = start + p
  <2>1. received \in Nat /\ p \in Nat
    BY <1>1 DEF DecoderInv, ParserInv, IInv, TypeOK, InputOK, IsFile, OffsetInv
  <2>2. m = start + p /\ k = (IF received > m THEN received ELSE m)
    BY <1>1, <1>3 DEF StillFrom, StillTo
  <2> QED
    BY <1>2, <2>1, <2>2
<1>5. \A b : b \in StillDrawn <=> b \in OwnData(1) /\ m <= b /\ b < k
  BY <1>3 DEF StillDrawn, OwnData, OwnChunks
<1>6. ~failed /\ png.exists /\ png.ihdr_of = 0
  BY DEF DecoderInv, RequestInv, SessionInv, Loops
<1>7. ASSUME NEW n, n = start PROVE OwnDataBefore(1, n) = <<>>
  <2>1. ASSUME NEW b \in OwnData(1) PROVE ~(b < n)
    <3>1. start <= b /\ b \in Nat
      BY <1>1, <1>2, OwnDataBegins, OwnDataTyped
    <3> QED
      BY <1>2, <1>7, <3>1
  <2> QED
    BY <2>1, OwnDataStarts
<1>8. png.data = OwnDataBefore(1, m)
  <2>1. CASE p = 0
    <3>1. m = start
      BY <1>2, <1>4, <2>1
    <3>2. png.data = <<>>
      BY <1>1, <1>6, <2>1 DEF SessionInv
    <3> QED
      BY <1>7, <3>1, <3>2
  <2>2. CASE p # 0
    <3>1. FirstFrameFed
      BY <1>1, <1>6, <2>2 DEF SessionInv
    <3>2. Base + progressive_decode_offset = m
      BY <1>1, <1>4 DEF Base
    <3> QED
      BY <3>1, <3>2 DEF FirstFrameFed
  <2> QED
    BY <2>1, <2>2
<1> QED
  BY <1>1, <1>2, <1>3, <1>4, <1>5, <1>6, <1>7, <1>8 DEF NextData

LEMMA StillImageSession ==
  ASSUME DecoderInv, SessionInv, StillImage
  PROVE  SessionInv'
<1>1. step = "frames" /\ todo # <<>> /\ ~is_animated
  BY DEF StillImage
<1>2. PICK s : StillFed(s)
  BY StillImageFeeds
<1>3. PICK D, p, start, m, k :
        /\ D = StillDrawn /\ p = progressive_decode_offset
        /\ start = frame_info[1].start_offset /\ m = StillFrom /\ k = StillTo
  OBVIOUS
<1>4. /\ NextData(1, m, k, D) /\ start \in Nat /\ p \in Nat
      /\ \A n : n = start => OwnDataBefore(1, n) = <<>>
      /\ ~failed /\ png.exists /\ png.ihdr_of = 0
  BY <1>1, <1>3, StillImageData
<1>5. m \in Nat /\ k \in Nat /\ m <= k /\ m = start + p
  BY <1>3, <1>4 DEF NextData, StillFrom
<1>6. s.data = OwnDataBefore(1, k)
  <2>1. PICK writable : writable = FALSE
    OBVIOUS
  <2>2. s = RowStateAfter(Head(todo), D, writable)
    BY <1>2, <1>3, <2>1 DEF StillFed
  <2> QED
    BY <1>1, <1>4, <2>2, NextDataFed
<1>7. CASE FeedFails(s)
  <2>1. failed'
    BY <1>7 DEF FeedFails, LoseReader, Fail
  <2> QED
    BY <2>1, LostSession
<1>8. CASE /\ Feed(s) \/ Feed(StillDone(s))
           /\ progressive_decode_offset' = p + k - m
           /\ step' = "decoded"
           /\ UNCHANGED reader
  <2>1. PICK t : t.data = s.data /\ Feed(t)
    <3>1. StillDone(s).data = s.data
      <4>1. IsBounded(D)
        BY <1>4, OwnDataFed DEF NextData
      <4>2. Drawing(Head(todo), s)
        BY <1>1, <1>2, <1>3, <4>1, HeadDrawn DEF StillFed
      <4> QED
        BY <4>2 DEF Drawing, StillDone
    <3> QED
      BY <1>8, <3>1
  <2>2. /\ png'.exists = png.exists /\ png'.ihdr_of = png.ihdr_of
        /\ png'.data = s.data
    BY <2>1, SessionFed
  <2>3. /\ UNCHANGED <<failed, size_available, is_animated, frame_info, ihdr>>
        /\ OwnDataBefore(1, k)' = OwnDataBefore(1, k)
    BY <1>8, OwnDataUnmoved
  <2>4. progressive_decode_offset' = 0 => png'.data = <<>>
    <3> SUFFICES ASSUME progressive_decode_offset' = 0 PROVE png'.data = <<>>
      OBVIOUS
    <3>1. k = start
      BY <1>4, <1>5, <1>8
    <3> QED
      BY <1>4, <1>6, <2>2, <3>1
  <2>5. FirstFrameFed'
    <3>1. (Base + progressive_decode_offset)' = k
      <4>1. Base' = start
        BY <1>1, <1>3, <2>3 DEF Base
      <4> QED
        BY <1>4, <1>5, <1>8, <4>1
    <3>2. png'.data = OwnDataBefore(1, Base + progressive_decode_offset)'
      BY <1>6, <2>2, <2>3, <3>1 DEF OwnDataBefore
    <3>3. frame_info # <<>>
      BY <1>1, HeadKnown
    <3>4. SessionHeight' = frame_info'[1].frame_rect.height
      <4>1. SessionHeight' = ihdr.height
        BY <1>4, <2>2, <2>3 DEF SessionHeight
      <4>2. frame_info[1].frame_rect.height = ihdr.height
        BY <1>1, <3>3 DEF DecoderInv, ParserInv, RegisteredInv, ImageRect
      <4> QED
        BY <2>3, <4>1, <4>2
    <3> QED
      BY <1>4, <2>2, <2>3, <3>2, <3>3, <3>4 DEF FirstFrameFed
  <2>6. png'.ihdr_of \in 0 .. Len(frame_info')
    BY <1>4, <2>2, <2>3 DEF SessionInv
  <2>7. step' # "whole" /\ step' \notin Loops
    BY <1>8 DEF Loops
  <2> QED
    BY <1>4, <2>2, <2>4, <2>5, <2>6, <2>7 DEF SessionInv
<1>9. \/ FeedFails(s)
      \/ /\ Feed(s) \/ Feed(StillDone(s))
         /\ progressive_decode_offset' = p + k - m
         /\ step' = "decoded"
         /\ UNCHANGED reader
  BY <1>2, <1>3 DEF StillFed
<1> QED
  BY <1>7, <1>8, <1>9

LEMMA SessionStutters ==
  ASSUME DecoderInv, SessionInv, UNCHANGED allvars
  PROVE  SessionInv'
<1> USE DEF allvars, loop, session, call
<1>1. /\ UNCHANGED <<failed, size_available, is_animated, frame_info, ihdr>>
      /\ \A i : \A m : OwnDataBefore(i, m)' = OwnDataBefore(i, m)
  BY OwnDataUnmoved
<1>2. SessionHeight' = SessionHeight
  BY <1>1 DEF SessionHeight
<1>3. FirstFrameFed => FirstFrameFed'
  BY FirstFrameStays
<1>4. OwnDataBefore(current_frame, offset)' = OwnDataBefore(current_frame, offset)
  <2>1. PICK i, m : i = current_frame /\ m = offset
    OBVIOUS
  <2>2. OwnDataBefore(i, m)' = OwnDataBefore(i, m)
    BY <1>1
  <2> QED
    BY <2>1, <2>2 DEF OwnDataBefore
<1> QED
  BY <1>1, <1>2, <1>3, <1>4 DEF SessionInv

LEMMA SessionStep ==
  ASSUME DecoderInv, SessionInv, [DecoderNext]_allvars
  PROVE  SessionInv'
<1>1. ParserInv' /\ ParserKept /\ (failed => failed')
  BY ParserStep, FailedStays DEF DecoderInv
<1>2. CASE \/ SetData \/ AskSize \/ AskHighBitDepth
           \/ \E i \in 1 .. MaxFrames : AskFrame(i)
           \/ Parsing \/ SizeAnswered \/ GrowCache \/ Decode \/ FinishDecode
  BY <1>1, <1>2, QuietCallSession
<1>3. ASSUME NEW keep \in 0 .. MaxFrames, Purge(keep) PROVE SessionInv'
  BY <1>1, <1>3, PurgeSession
<1>4. CASE BeginFrame
  BY <1>1, <1>4, BeginFrameSession
<1>5. CASE StillImage
  BY <1>5, StillImageSession
<1>6. CASE FirstFrameEnds \/ WholeFrameEnds
  <2>1. EndFrame /\ step \in Loops
    BY <1>6 DEF FirstFrameEnds, WholeFrameEnds, Loops
  <2> QED
    BY <1>1, <2>1, EndFrameSession
<1>7. CASE SkipDecodedChunk \/ AwaitFrameData
  BY <1>7, WaitingSession
<1>8. CASE ProgressiveChunk
  BY <1>8, ProgressiveChunkSession
<1>9. CASE WholeChunk
  BY <1>9, WholeChunkSession
<1>10. CASE PostDecodeProcessing
  BY <1>1, <1>10, PostDecodeSession
<1>11. CASE UNCHANGED allvars
  BY <1>11, SessionStutters
<1> QED
  BY <1>2, <1>3, <1>4, <1>5, <1>6, <1>7, <1>8, <1>9, <1>10, <1>11, Zenon
     DEF DecoderNext, CallStep

LEMMA SessionInit ==
  ASSUME DecoderInit
  PROVE  SessionInv
<1>1. /\ png.exists /\ png.ihdr_of = 0 /\ png.data = <<>>
      /\ progressive_decode_offset = 0 /\ step = "idle"
  BY DEF DecoderInit, NewPng
<1>2. Len(frame_info) = 0
  BY DEF DecoderInit, Init
<1> QED
  BY <1>1, <1>2 DEF SessionInv, Loops

(* The invariant of the decoder with that of its libpng session.           *)
THEOREM SessionInvariant == DecoderSpec => [](DecoderInv /\ SessionInv)
<1>1. DecoderInit => SessionInv
  BY SessionInit
<1>2. DecoderInv /\ SessionInv /\ [DecoderNext]_allvars => SessionInv'
  BY SessionStep
<1> QED
  BY <1>1, <1>2, DecoderInvariant, PTL DEF DecoderSpec

(* libpng sees one frame at a time: while a frame is decoded its session   *)
(* has the size of that frame and has been given exactly that frame's      *)
(* data, in order, each byte once; between the calls it holds what the     *)
(* first frame had up to progressive_decode_offset, or nothing.            *)
THEOREM LibpngIsFedOneFrame == DecoderSpec => []LibpngSeesOneFrame
<1>1. DecoderInv /\ SessionInv => LibpngSeesOneFrame
  <2> SUFFICES ASSUME DecoderInv, SessionInv, ~failed, frame_info # <<>>
               PROVE  LibpngSeesOneFrame
    BY DEF LibpngSeesOneFrame
  <2>1. CASE step = "whole"
    <3>1. step \in Loops /\ progressive_decode_offset = 0
      BY <2>1 DEF DecoderInv, OffsetInv, Loops
    <3> QED
      BY <2>1, <3>1 DEF SessionInv, LibpngSeesOneFrame
  <2>2. CASE step # "whole" /\ progressive_decode_offset # 0
    BY <2>2 DEF SessionInv, FirstFrameFed, Base, LibpngSeesOneFrame
  <2>3. CASE step # "whole" /\ progressive_decode_offset = 0
    BY <2>3 DEF SessionInv, LibpngSeesOneFrame
  <2> QED
    BY <2>1, <2>2, <2>3
<1> QED
  BY <1>1, SessionInvariant, PTL

-----------------------------------------------------------------------------
(* What a call has decoded when it ends.                                   *)

(* The frame asked for is decoded last, unless a frame that the call       *)
(* decodes is not all here: then only the first frame is known.            *)
AnswerInv ==
  step \in Loops \cup {"frames", "decoded"} =>
    /\ ~incomplete_parse => IF todo = <<>> THEN index \in CompleteFrames
                                           ELSE todo[Len(todo)] = index
    /\ incomplete_parse => /\ todo = <<>>
                           /\ index \in 1 .. Known
                           /\ is_animated => FirstFrameIsOpen
    /\ step = "decoded" /\ is_animated =>
         \/ frame_buffer_cache[current_frame].status = "kFrameComplete"
         \/ FirstFrameIsOpen

(* Of a first frame that is closed all chunks are here.                    *)
LEMMA ClosedFirstFrameAhead ==
  ASSUME DecoderInv, step = "progressive", ~FirstFrameIsOpen
  PROVE  /\ offset + 8 <= received
         /\ ~EndsFrame(offset) => here_end <= received
<1>1. step \in Loops
  BY DEF Loops
<1>2. /\ todo # <<>> /\ current_frame = Head(todo) /\ current_frame = 1
      /\ is_animated /\ offset \in Nat
      /\ \A o \in DOMAIN file.chunk :
           frame_info[1].start_offset <= o /\ o < offset => ~EndsFrame(o)
  BY <1>1 DEF DecoderInv, TodoInv, OffsetInv
<1>3. PICK f : f = frame_info[1]
  OBVIOUS
<1>4. /\ 1 \in DOMAIN frame_info /\ f \in FrameInfo
      /\ f.byte_length # kFirstFrameIndicator
  BY <1>2, <1>3, HeadKnown DEF FirstFrameIsOpen
<1>5. PICK end : end = f.start_offset + f.byte_length
  OBVIOUS
<1>6. f.start_offset \in Nat /\ f.byte_length \in Nat /\ end \in Nat
  BY <1>4, <1>5 DEF FrameInfo
<1>7. Ended(end)
  BY <1>2, <1>3, <1>4, <1>5 DEF DecoderInv, ParserInv, RegisteredInv
<1>8. received \in Nat
  BY DEF DecoderInv, ParserInv, IInv, TypeOK, InputOK, IsFile
<1>9. f.start_offset <= end /\ ~(end < offset)
  BY <1>2, <1>3, <1>5, <1>6, <1>7 DEF Ended
<1>10. offset + 8 <= received
  BY <1>2, <1>6, <1>7, <1>8, <1>9 DEF Ended
<1>11. ASSUME ~EndsFrame(offset) PROVE here_end <= received
  <2>1. offset # end
    BY <1>7, <1>11 DEF Ended
  <2>2. offset < end
    BY <1>2, <1>6, <1>9, <2>1
  <2>3. here_end \in Nat /\ here_end <= end
    BY <1>1, <1>7, <1>10, <2>2, LoopAtChunk DEF Ended
  <2> QED
    BY <1>6, <1>7, <1>8, <2>3 DEF Ended
<1> QED
  BY <1>10, <1>11

LEMMA AnswerOutside ==
  ASSUME step' \notin Loops \cup {"frames", "decoded"}
  PROVE  AnswerInv'
BY DEF AnswerInv

(* While a frame is decoded.                                               *)
LEMMA AnswerKept ==
  ASSUME AnswerInv, step \in Loops \cup {"frames"}, todo # <<>>,
         UNCHANGED <<todo, index, incomplete_parse>>,
         step' = "decoded" /\ is_animated' =>
           \/ frame_buffer_cache'[current_frame'].status = "kFrameComplete"
           \/ FirstFrameIsOpen'
  PROVE  AnswerInv'
<1>1. ~incomplete_parse /\ todo[Len(todo)] = index
  BY DEF AnswerInv
<1> QED
  BY <1>1 DEF AnswerInv

LEMMA DecodeAnswer ==
  ASSUME DecoderInv, Decode
  PROVE  AnswerInv'
<1>1. CASE failed
  BY <1>1, AnswerOutside DEF Decode, Loops
<1>2. CASE ~failed
  <2>1. /\ step = "parsing" /\ step' = "frames" /\ todo' = FramesToDecode(index)
        /\ UNCHANGED index /\ ~incomplete_parse'
    BY <1>2 DEF Decode, Parsed
  <2>2. index \in 1 .. Known
    BY <2>1, KnownTyped DEF DecoderInv, RequestInv
  <2>3. PICK t : t = FramesToDecode(index)
    OBVIOUS
  <2>4. t # <<>> /\ t[Len(t)] = index
    BY <2>2, <2>3, FramesListed DEF DecoderInv
  <2>5. todo' # <<>> /\ todo'[Len(todo')] = index'
    BY <2>1, <2>3, <2>4
  <2> QED
    BY <2>1, <2>5 DEF AnswerInv
<1> QED
  BY <1>1, <1>2

(* An error ends the call.                                                 *)
LEMMA LostAnswer ==
  ASSUME LoseReader
  PROVE  AnswerInv'
BY AnswerOutside DEF LoseReader, Loops

LEMMA EndFrameAnswer ==
  ASSUME DecoderInv, AnswerInv, EndFrame, step \in Loops
  PROVE  AnswerInv'
<1> USE DEF loop
<1>1. CASE DecodeFails
  BY <1>1, LostAnswer DEF DecodeFails
<1>2. CASE ~DecodeFails
  <2>1. /\ frame_buffer_cache' = Completed(frame_buffer_cache, current_frame,
                                           current_buffer_saw_alpha)
        /\ UNCHANGED <<index, todo, incomplete_parse, current_frame>>
    BY <1>2 DEF EndFrame
  <2>2. current_frame = Head(todo) /\ todo # <<>>
    BY DEF DecoderInv, TodoInv
  <2>3. current_frame \in 1 .. Known
    BY <2>2, HeadKnown
  <2>4. PICK new : new = frame_buffer_cache'
    OBVIOUS
  <2>5. new[current_frame].status = "kFrameComplete"
    <3>1. AreBuffers(frame_buffer_cache) /\ Known = Len(frame_buffer_cache)
      BY KnownTyped DEF DecoderInv, CacheInv
    <3>2. current_buffer_saw_alpha \in BOOLEAN
      BY DEF DecoderInv, RequestInv
    <3> QED
      BY <2>1, <2>3, <2>4, <3>1, <3>2, BufferCompleted
  <2>6. frame_buffer_cache'[current_frame'].status = "kFrameComplete"
    BY <2>1, <2>4, <2>5
  <2> QED
    BY <2>1, <2>2, <2>6, AnswerKept
<1> QED
  BY <1>1, <1>2

(* The loops leave a frame unfinished only if it is the first and open.    *)
LEMMA LoopAnswer ==
  ASSUME DecoderInv, AnswerInv,
         \/ SkipDecodedChunk \/ AwaitFrameData \/ ProgressiveChunk \/ WholeChunk
  PROVE  AnswerInv'
<1> USE DEF loop, call
<1>1. step \in Loops /\ todo # <<>>
  <2>1. step \in Loops
    BY DEF SkipDecodedChunk, AwaitFrameData, ProgressiveChunk, WholeChunk, Loops
  <2> QED
    BY <2>1 DEF DecoderInv, TodoInv
<1>2. received \in Nat /\ offset \in Nat
  BY DEF DecoderInv, ParserInv, IInv, TypeOK, InputOK, IsFile, OffsetInv
<1>3. ASSUME UNCHANGED reader PROVE UNCHANGED <<frame_info, is_animated>>
  BY <1>3, OwnDataUnmoved
<1>4. CASE SkipDecodedChunk
  <2>1. UNCHANGED <<todo, index, incomplete_parse>> /\ step' # "decoded"
    BY <1>4 DEF SkipDecodedChunk
  <2> QED
    BY <1>1, <2>1, AnswerKept
<1>5. CASE AwaitFrameData
  <2>1. /\ UNCHANGED <<reader, todo, index, incomplete_parse>>
        /\ step = "progressive" /\ received < offset + 8
    BY <1>5 DEF AwaitFrameData
  <2>2. FirstFrameIsOpen
    BY <1>2, <2>1, ClosedFirstFrameAhead
  <2>3. FirstFrameIsOpen'
    BY <1>3, <2>1, <2>2 DEF FirstFrameIsOpen
  <2> QED
    BY <1>1, <2>1, <2>3, AnswerKept
<1>6. CASE ProgressiveChunk
  <2>1. PICK p, end, s :
          /\ p = progressive_decode_offset /\ end = FedUpTo(ResumeAt, here_end)
          /\ \/ FeedFails(s)
             \/ /\ UNCHANGED <<reader, index, todo, incomplete_parse>>
                /\ step' = "decoded" => end < here_end
    BY <1>6 DEF ProgressiveChunk
  <2>2. /\ step = "progressive" /\ received >= offset + 8
        /\ ~EndsFrame(offset) /\ p < here_end
    BY <1>6, <2>1 DEF ProgressiveChunk, EndsFrame, here
  <2>3. CASE FeedFails(s)
    BY <2>3, LostAnswer DEF FeedFails
  <2>4. CASE /\ UNCHANGED <<reader, index, todo, incomplete_parse>>
             /\ step' = "decoded" => end < here_end
    <3>1. offset + 8 <= received
      BY <1>2, <2>2
    <3>2. here_end \in Nat /\ ResumeAt \in Nat /\ ResumeAt <= here_end
      <4>1. progressive_decode_offset < here_end
        BY <2>1, <2>2
      <4> QED
        BY <1>1, <3>1, <4>1, FedInChunk, LoopAtChunk
    <3>3. here_end <= received => end = here_end
      BY <1>2, <2>1, <3>2 DEF FedUpTo
    <3>4. step' = "decoded" => FirstFrameIsOpen
      BY <1>2, <2>2, <2>4, <3>2, <3>3, ClosedFirstFrameAhead
    <3>5. step' = "decoded" => FirstFrameIsOpen'
      BY <1>3, <2>4, <3>4 DEF FirstFrameIsOpen
    <3> QED
      BY <1>1, <2>4, <3>5, AnswerKept
  <2> QED
    BY <2>1, <2>3, <2>4
<1>7. CASE WholeChunk
  <2>1. PICK s :
          \/ FeedFails(s)
          \/ UNCHANGED <<index, todo, incomplete_parse, step>>
    BY <1>7 DEF WholeChunk
  <2>2. CASE FeedFails(s)
    BY <2>2, LostAnswer DEF FeedFails
  <2>3. CASE UNCHANGED <<index, todo, incomplete_parse, step>>
    <3>1. step' # "decoded"
      BY <1>1, <2>3 DEF Loops
    <3> QED
      BY <1>1, <2>3, <3>1, AnswerKept
  <2> QED
    BY <2>1, <2>2, <2>3
<1> QED
  BY <1>4, <1>5, <1>6, <1>7

LEMMA FrameAnswer ==
  ASSUME DecoderInv, AnswerInv, BeginFrame \/ StillImage
  PROVE  AnswerInv'
<1>1. CASE BeginFrame
  <2>1. /\ step = "frames" /\ todo # <<>>
        /\ UNCHANGED <<todo, index, incomplete_parse>> /\ step' # "decoded"
    BY <1>1 DEF BeginFrame
  <2> QED
    BY <2>1, AnswerKept
<1>2. CASE StillImage
  <2>1. step = "frames" /\ todo # <<>> /\ ~is_animated
    BY <1>2 DEF StillImage
  <2>2. \/ LoseReader
        \/ UNCHANGED <<reader, todo, index, incomplete_parse>>
    <3> DEFINE from == frame_info[1].start_offset + progressive_decode_offset
               to == IF received > from THEN received ELSE from
               Ends == {o \in StillChunks :
                          LET e == o + 12 + file.chunk[o].length
                          IN from < e /\ e <= to}
               Data == {o \in StillChunks : file.chunk[o].type = "IDAT"}
               s == RowStateAfter(Head(todo),
                                  {b \in UNION {Payload(o) : o \in Data} :
                                     from <= b /\ b < to},
                                  FALSE)
    <3>1. FeedFails(s) \/ UNCHANGED <<reader, todo, index, incomplete_parse>>
      <4> HIDE DEF s, Ends
      <4> QED
        BY <1>2 DEF StillImage, s, Ends
    <3> QED
      BY <3>1 DEF FeedFails
  <2>3. CASE LoseReader
    BY <2>3, LostAnswer
  <2>4. CASE UNCHANGED <<reader, todo, index, incomplete_parse>>
    <3>1. ~is_animated'
      BY <2>1, <2>4, OwnDataUnmoved
    <3> QED
      BY <2>1, <2>4, <3>1, AnswerKept
  <2> QED
    BY <2>2, <2>3, <2>4
<1> QED
  BY <1>1, <1>2

(* The last entry of a sequence whose tail is empty is its first one.      *)
LEMMA LastLeft ==
  ASSUME NEW X, NEW t \in Seq(X), t # <<>>, Tail(t) = <<>>
  PROVE  t[Len(t)] = Head(t)
<1>1. Len(t) \in Nat /\ Len(t) # 0
  OBVIOUS
<1>2. Len(Tail(t)) = Len(t) - 1
  BY HeadTailProperties
<1>3. Len(Tail(t)) = 0
  <2>1. Len(<<>>) = 0
    BY EmptySeq
  <2> QED
    BY <2>1, Zenon
<1>4. Len(t) = 1
  BY <1>1, <1>2, <1>3
<1> QED
  BY <1>4

(* A frame's decoding is followed by the next one on the list, or by its   *)
(* answer.                                                                 *)
LEMMA PostDecodeAnswer ==
  ASSUME DecoderInv, AnswerInv, PostDecodeProcessing
  PROVE  AnswerInv'
<1>1. /\ step = "decoded" /\ step' = "frames"
      /\ UNCHANGED <<reader, index>>
  BY DEF PostDecodeProcessing
<1>2. UNCHANGED <<frame_info, is_animated>>
  BY <1>1, OwnDataUnmoved
<1>3. PICK X, t, i : X = 1 .. Known /\ t = todo /\ i = current_frame
  OBVIOUS
<1>4. t \in Seq(X) /\ t # <<>> /\ i = Head(t)
  BY <1>1, <1>3 DEF DecoderInv, TodoInv
<1>5. ~incomplete_parse /\ t[Len(t)] = index
  BY <1>1, <1>3, <1>4 DEF AnswerInv
<1>6. index \in 1 .. Known
  <2>1. t[Len(t)] \in X
    BY <1>4
  <2> QED
    BY <1>3, <1>5, <2>1
<1>7. PICK new : new = frame_buffer_cache'
  OBVIOUS
<1>8. /\ Len(new) = Known /\ i \in 1 .. Known
      /\ frame_buffer_cache[i].status = "kFrameComplete"
           => new[i].status = "kFrameComplete"
  BY <1>3, <1>7, PostDecodeCache
<1>9. Known' = Known
  BY <1>7, <1>8 DEF Known
<1>10. CASE frame_buffer_cache[i].status # "kFrameComplete"
  <2>1. incomplete_parse' /\ todo' = <<>>
    BY <1>3, <1>10 DEF PostDecodeProcessing
  <2>2. is_animated' => FirstFrameIsOpen'
    BY <1>1, <1>2, <1>3, <1>10 DEF AnswerInv, FirstFrameIsOpen
  <2> QED
    BY <1>1, <1>6, <1>9, <2>1, <2>2 DEF AnswerInv
<1>11. CASE frame_buffer_cache[i].status = "kFrameComplete"
  <2>1. ~incomplete_parse' /\ todo' = Tail(t)
    BY <1>3, <1>5, <1>11 DEF PostDecodeProcessing
  <2>2. CASE Tail(t) = <<>>
    <3>1. index = i
      BY <1>4, <1>5, <2>2, LastLeft
    <3>2. index \in CompleteFrames'
      BY <1>6, <1>7, <1>8, <1>9, <1>11, <3>1 DEF CompleteFrames
    <3> QED
      BY <1>1, <2>1, <2>2, <3>2 DEF AnswerInv
  <2>3. CASE Tail(t) # <<>>
    <3>1. Tail(t)[Len(Tail(t))] = index
      BY <1>4, <1>5, <2>3
    <3> QED
      BY <1>1, <2>1, <2>3, <3>1 DEF AnswerInv
  <2> QED
    BY <2>2, <2>3
<1> QED
  BY <1>10, <1>11

LEMMA AnswerStep ==
  ASSUME DecoderInv, AnswerInv, [DecoderNext]_allvars
  PROVE  AnswerInv'
<1> USE DEF call, loop, session, cache
<1>1. CASE \/ SetData \/ AskSize \/ AskHighBitDepth
           \/ \E i \in 1 .. MaxFrames : AskFrame(i)
           \/ Parsing \/ SizeAnswered \/ GrowCache \/ FinishDecode
           \/ \E keep \in 0 .. MaxFrames : Purge(keep)
  <2>1. step' \notin Loops \cup {"frames", "decoded"}
    BY <1>1 DEF SetData, AskSize, AskHighBitDepth, AskFrame, Parsing, SizeAnswered, GrowCache,
                FinishDecode, DecodeFails, LoseReader, Purge, Loops
  <2> QED
    BY <2>1, AnswerOutside
<1>2. CASE Decode
  BY <1>2, DecodeAnswer
<1>3. CASE BeginFrame \/ StillImage
  BY <1>3, FrameAnswer
<1>4. CASE FirstFrameEnds \/ WholeFrameEnds
  <2>1. EndFrame /\ step \in Loops
    BY <1>4 DEF FirstFrameEnds, WholeFrameEnds, Loops
  <2> QED
    BY <2>1, EndFrameAnswer
<1>5. CASE \/ SkipDecodedChunk \/ AwaitFrameData \/ ProgressiveChunk
           \/ WholeChunk
  BY <1>5, LoopAnswer
<1>6. CASE PostDecodeProcessing
  BY <1>6, PostDecodeAnswer
<1>7. CASE UNCHANGED allvars
  BY <1>7 DEF allvars, reader, vars, frames, animated, AnswerInv, CompleteFrames,
              Known, FirstFrameIsOpen
<1> QED
  BY <1>1, <1>2, <1>3, <1>4, <1>5, <1>6, <1>7, Zenon DEF DecoderNext, CallStep

(* The invariant of the decoder with that of its running call.             *)
THEOREM AnswerInvariant == DecoderSpec => [](DecoderInv /\ AnswerInv)
<1>1. DecoderInit => AnswerInv
  BY DEF DecoderInit, AnswerInv, Loops
<1>2. DecoderInv /\ AnswerInv /\ [DecoderNext]_allvars => AnswerInv'
  BY AnswerStep
<1> QED
  BY <1>1, <1>2, DecoderInvariant, PTL DEF DecoderSpec

(* A call for a frame returns without an error.                            *)
LEMMA CallAnswers ==
  ASSUME DecoderInv, AnswerInv, step = "frames", todo = <<>>,
         ~(index >= Known /\ all_data /\ (incomplete_parse \/ ~parse_completed)),
         FrameIsReceivedAtIndex(index) \/ (all_data /\ index = Known)
  PROVE  /\ index \in CompleteFrames
         /\ all_data /\ index = Known => parse_completed
<1>1. Known \in Nat /\ index \in Nat
  BY KnownTyped DEF DecoderInv, RequestInv
<1>2. CASE all_data /\ index = Known
  <2>1. parse_completed /\ ~incomplete_parse
    BY <1>1, <1>2
  <2> QED
    BY <2>1 DEF AnswerInv
<1>3. CASE ~(all_data /\ index = Known)
  <2> SUFFICES ASSUME incomplete_parse PROVE FALSE
    BY <1>3 DEF AnswerInv
  <2>1. index \in 1 .. Known /\ (is_animated => FirstFrameIsOpen)
    BY DEF AnswerInv
  <2>2. PICK n, l : n = Known /\ l = Len(frame_info)
    OBVIOUS
  <2>3. n <= l /\ l \in Nat /\ frame_info # <<>>
    <3>1. frame_info \in Seq(FrameInfo) /\ Known <= Len(frame_info)
      BY DEF DecoderInv, ParserInv, IInv, TypeOK, RecordsOK, CacheInv
    <3>2. Len(frame_info) # 0
      BY <1>1, <2>1, <2>2, <3>1
    <3> QED
      BY <2>2, <3>1, <3>2
  <2>4. l = 1
    <3>1. CASE is_animated
      BY <2>1, <2>2, <3>1 DEF DecoderInv, ParserInv, IInv, ReaderInv, ConstructionInv
    <3>2. CASE ~is_animated
      BY <2>2, <2>3, <3>2 DEF DecoderInv, ParserInv, RegisteredInv
    <3> QED
      BY <3>1, <3>2
  <2>5. index = 1 /\ index = Known
    BY <1>1, <2>1, <2>2, <2>3, <2>4
  <2>6. ~(parse_completed /\ Len(frame_info) = 1)
    BY <1>3, <2>5 DEF FrameIsReceivedAtIndex
  <2>7. FirstFrameFullyReceived
    BY <1>3, <2>5, <2>6 DEF FrameIsReceivedAtIndex
  <2>8. is_animated
    <3>1. ~parse_completed
      BY <2>2, <2>4, <2>6
    <3> QED
      BY <2>3, <3>1 DEF DecoderInv, ParserInv, IInv, ReaderInv, CallInv
  <2> QED
    BY <2>1, <2>7, <2>8 DEF FirstFrameFullyReceived, FirstFrameIsOpen
<1> QED
  BY <1>2, <1>3

(* A frame that is reported as received is complete when the call for it   *)
(* returns, or the image has failed: clients do not ask again.  So is the  *)
(* last frame known when no more data comes: a file that is truncated,     *)
(* inside that frame or behind it, fails (Decode).                         *)
THEOREM ReceivedFramesAnswered == DecoderSpec => ReceivedFramesAreAnswered
<1> DEFINE last == all_data /\ index = Known
           Answers == step = "frames" /\ step' = "idle" =>
                        (FrameIsReceivedAtIndex(index) \/ last =>
                           failed' \/ (/\ index \in CompleteFrames'
                                       /\ last => parse_completed))
<1>1. ASSUME DecoderInv, AnswerInv, [DecoderNext]_allvars PROVE Answers
  <2> SUFFICES ASSUME step = "frames", step' = "idle", ~failed',
                      FrameIsReceivedAtIndex(index) \/ last
               PROVE  /\ index \in CompleteFrames'
                      /\ last => parse_completed
    OBVIOUS
  <2> USE DEF call, loop, session, cache
  <2>1. ~LoseReader
    BY DEF LoseReader, Fail
  <2>2. ~StillImage
    <3>1. StillImage => LoseReader \/ step' = "decoded"
      <4> DEFINE from == frame_info[1].start_offset + progressive_decode_offset
                 to == IF received > from THEN received ELSE from
                 Ends == {o \in StillChunks :
                            LET e == o + 12 + file.chunk[o].length
                            IN from < e /\ e <= to}
                 Data == {o \in StillChunks : file.chunk[o].type = "IDAT"}
                 s == RowStateAfter(Head(todo),
                                    {b \in UNION {Payload(o) : o \in Data} :
                                       from <= b /\ b < to},
                                    FALSE)
      <4>1. StillImage => FeedFails(s) \/ step' = "decoded"
        <5> HIDE DEF s, Ends
        <5> QED
          BY DEF StillImage, s, Ends
      <4> QED
        BY <4>1 DEF FeedFails
    <3> QED
      BY <2>1, <3>1
  <2>3. /\ ~Parsing /\ ~SizeAnswered /\ ~GrowCache /\ ~Decode /\ ~BeginFrame
        /\ ~FirstFrameEnds /\ ~SkipDecodedChunk /\ ~ProgressiveChunk
        /\ ~AwaitFrameData /\ ~WholeChunk /\ ~WholeFrameEnds
        /\ ~PostDecodeProcessing /\ ~SetData /\ ~AskSize /\ ~AskHighBitDepth
        /\ \A i : ~AskFrame(i) /\ ~Purge(i)
        /\ ~UNCHANGED allvars
    BY DEF Parsing, SizeAnswered, Parsed, GrowCache, Decode, BeginFrame,
           FirstFrameEnds, SkipDecodedChunk, ProgressiveChunk, AwaitFrameData,
           WholeChunk, WholeFrameEnds, PostDecodeProcessing, SetData, AskSize, AskHighBitDepth,
           AskFrame, Purge, allvars
  <2>4. FinishDecode
    BY <1>1, <2>2, <2>3, Zenon DEF DecoderNext, CallStep
  <2>5. /\ todo = <<>> /\ UNCHANGED frame_buffer_cache
        /\ ~(index >= Known /\ all_data
             /\ (incomplete_parse \/ ~parse_completed))
    BY <2>1, <2>4 DEF FinishDecode, DecodeFails
  <2>6. index \in CompleteFrames /\ (last => parse_completed)
    BY <1>1, <2>5, CallAnswers
  <2>7. CompleteFrames' = CompleteFrames
    BY <2>5 DEF CompleteFrames, Known
  <2> QED
    BY <2>6, <2>7
<1>2. Answers <=> (step = "frames" /\ step' = "idle"
                     => LET final == all_data /\ index = Known
                            answered == index \in CompleteFrames'
                        IN FrameIsReceivedAtIndex(index) \/ final =>
                             failed' \/ (answered /\ (final => parse_completed)))
  OBVIOUS
<1>3. DecoderInv /\ AnswerInv /\ [DecoderNext]_allvars => Answers
  BY <1>1
<1> QED
  BY <1>2, <1>3, AnswerInvariant, PTL DEF DecoderSpec, ReceivedFramesAreAnswered

-----------------------------------------------------------------------------
(* Opaque frames are opaque.                                               *)

(* The frame whose data libpng has: another frame than the first has it    *)
(* only in the loop that decodes it.                                       *)
Fed == IF step = "whole" THEN current_frame ELSE 1

(* No row of frame i has alpha.                                            *)
DrawnOpaque(i) ==
  OpaqueUpTo(InOrder(OwnData(i)), RowCount(frame_info[i].frame_rect.height))

FramesOpaque ==
  \A i \in CompleteFrames :
    frame_buffer_cache[i].opaque /\ file.alpha => DrawnOpaque(i)

(* The flag that all frames share tells of the data libpng has now.        *)
NotesInv ==
  ~failed /\ png.data # <<>> => Fed \in 1 .. Known /\ Noted(Fed, RowState)

AlphaInv == FramesOpaque /\ NotesInv

(* A file has only so many chunks, so that its data can be listed.         *)
LEMMA OwnDataBounded ==
  ASSUME DecoderInv, NEW i
  PROVE  IsBounded(OwnData(i))
<1>1. /\ SizeMax \in Nat
      /\ \A o \in DOMAIN file.chunk : o <= SizeMax
      /\ \A o, p \in DOMAIN file.chunk : o < p => o + 12 + file.chunk[o].length <= p
      /\ IsFile(file)
  <2>1. file \in Files
    BY DEF DecoderInv, ParserInv, DataInv, FileInv
  <2> QED
    BY <2>1, DecoderAssumption, ReaderAssumption, ChunksAssumption
<1> DEFINE EndOf(o) == o + 12 + file.chunk[o].length
<1>2. \A o \in DOMAIN file.chunk : o \in Nat /\ EndOf(o) \in Nat
  BY <1>1 DEF IsFile, Chunk
<1>3. ASSUME NEW n \in Nat, \A o \in DOMAIN file.chunk : EndOf(o) <= n
      PROVE  IsBounded(OwnData(i))
  <2>1. ASSUME NEW b \in OwnData(i) PROVE b \in 0 .. n
    <3>1. b \in Nat
      BY OwnDataTyped
    <3>2. PICK o \in DOMAIN file.chunk : b \in Payload(o)
      BY OwnDataTyped
    <3>3. b < EndOf(o)
      BY <1>1, <3>2, PayloadBounded
    <3>4. EndOf(o) <= n /\ EndOf(o) \in Nat
      BY <1>2, <1>3
    <3> HIDE DEF EndOf
    <3> QED
      BY <3>1, <3>3, <3>4
  <2> QED
    BY <2>1 DEF IsBounded
<1>4. CASE \A o \in DOMAIN file.chunk : EndOf(o) <= SizeMax
  BY <1>1, <1>3, <1>4
<1>5. CASE \E o \in DOMAIN file.chunk : ~(EndOf(o) <= SizeMax)
  <2>1. PICK o \in DOMAIN file.chunk : ~(EndOf(o) <= SizeMax)
    BY <1>5
  <2>2. ASSUME NEW p \in DOMAIN file.chunk PROVE EndOf(p) <= EndOf(o)
    <3>1. CASE p = o
      BY <1>2, <3>1
    <3>2. CASE p < o
      <4>1. EndOf(p) <= o
        BY <1>1, <3>2
      <4>2. file.chunk[o].length \in Nat
        BY <1>1 DEF IsFile, Chunk
      <4> QED
        BY <1>2, <4>1, <4>2
    <3>3. CASE o < p
      <4>1. EndOf(o) <= p /\ p <= SizeMax
        BY <1>1, <3>3
      <4> QED
        BY <1>1, <1>2, <2>1, <4>1
    <3> QED
      BY <1>2, <3>1, <3>2, <3>3
  <2>3. EndOf(o) \in Nat
    BY <1>2
  <2> HIDE DEF EndOf
  <2> QED
    BY <1>3, <2>2, <2>3
<1> QED
  BY <1>4, <1>5

(* What libpng has been given begins the data of the frame.                *)
LEMMA FedIsAPrefix ==
  ASSUME DecoderInv, NEW i, NEW m \in Nat, NEW n \in Nat,
         NEW data, data = OwnDataBefore(i, m), ~(Len(data) < n),
         OpaqueUpTo(data, n)
  PROVE  OpaqueUpTo(InOrder(OwnData(i)), n)
<1>1. PICK D : D = OwnData(i)
  OBVIOUS
<1>2. IsBounded(D)
  BY <1>1, OwnDataBounded
<1>3. PICK B, N : B = Below(D, m) /\ N = NotBelow(D, m)
  OBVIOUS
<1>4. IsBounded(B) /\ IsBounded(N)
  BY <1>2, <1>3, SmallerIsBounded DEF Below, NotBelow
<1>5. PICK v : v = InOrder(N)
  OBVIOUS
<1>6. data = InOrder(B)
  BY <1>1, <1>3 DEF OwnDataBefore, Below
<1>7. InOrder(D) = data \o v
  BY <1>2, <1>3, <1>5, <1>6, OrderSplits
<1>8. data \in Seq(Nat) /\ v \in Seq(Nat)
  BY <1>4, <1>5, <1>6, InOrderTyped
<1>9. PICK w : w = data \o v
  OBVIOUS
<1>10. \A k \in 1 .. Len(data) : w[k] = data[k]
  BY <1>8, <1>9
<1>11. Len(w) \in Nat /\ Len(data) \in Nat
  BY <1>8, <1>9
<1>12. OpaqueUpTo(w, n)
  <2> SUFFICES ASSUME NEW k \in 1 .. Len(w), k <= n
               PROVE  w[k] \notin file.translucent
    BY DEF OpaqueUpTo
  <2>1. k \in 1 .. Len(data)
    BY <1>11
  <2> QED
    BY <1>10, <2>1 DEF OpaqueUpTo
<1> QED
  BY <1>1, <1>7, <1>9, <1>12

(* A frame stays what it is while more arrives and is parsed.              *)
LEMMA DrawnOpaqueStays ==
  ASSUME DecoderInv, ParserKept, NEW i \in 1 .. Known, DrawnOpaque(i)
  PROVE  DrawnOpaque(i)'
<1>1. i \in DOMAIN frame_info /\ frame_info # <<>>
  <2>1. Known \in Nat /\ Known <= Len(frame_info) /\ frame_info \in Seq(FrameInfo)
    BY KnownTyped DEF DecoderInv, CacheInv, ParserInv, IInv, TypeOK, RecordsOK
  <2> QED
    BY <2>1
<1>2. size_available
  BY <1>1 DEF DecoderInv, ParserInv, RegisteredInv
<1>3. /\ UNCHANGED <<file, is_animated, idat_offset>>
      /\ frame_info'[i].start_offset = frame_info[i].start_offset
      /\ frame_info'[i].frame_rect = frame_info[i].frame_rect
  BY <1>1, <1>2 DEF ParserKept, SizeVars, FramesKept, SameFrame
<1>4. OwnData(i)' = OwnData(i)
  BY <1>3, OwnDataStays
<1> QED
  BY <1>3, <1>4 DEF DrawnOpaque, OpaqueUpTo, RowCount

(* The complete frames are those of before, or have been found opaque.     *)
OpaqueKept ==
  \A k \in 1 .. Known' :
    /\ frame_buffer_cache'[k].status = "kFrameComplete"
    /\ frame_buffer_cache'[k].opaque
    /\ file.alpha
    => /\ k \in 1 .. Known
       /\ \/ DrawnOpaque(k)
          \/ /\ frame_buffer_cache[k].status = "kFrameComplete"
             /\ frame_buffer_cache[k].opaque

LEMMA FramesStayOpaque ==
  ASSUME DecoderInv, ParserKept, FramesOpaque, OpaqueKept
  PROVE  FramesOpaque'
<1>1. file' = file
  BY DEF ParserKept
<1>2. ASSUME NEW k \in 1 .. Known',
             frame_buffer_cache'[k].status = "kFrameComplete",
             frame_buffer_cache'[k].opaque, file'.alpha
      PROVE  DrawnOpaque(k)'
  <2>1. /\ k \in 1 .. Known
        /\ \/ DrawnOpaque(k)
           \/ /\ frame_buffer_cache[k].status = "kFrameComplete"
              /\ frame_buffer_cache[k].opaque
    BY <1>1, <1>2 DEF OpaqueKept
  <2>2. DrawnOpaque(k)
    BY <1>1, <1>2, <2>1 DEF FramesOpaque, CompleteFrames
  <2> QED
    BY <2>1, <2>2, DrawnOpaqueStays
<1> QED
  BY <1>2 DEF FramesOpaque, CompleteFrames

(* Nothing is fed.                                                         *)
LEMMA NotesStay ==
  ASSUME DecoderInv, SessionInv, ParserKept, NotesInv, failed => failed',
         UNCHANGED <<png, current_buffer_saw_alpha>>, Fed' = Fed,
         Fed \in 1 .. Known =>
           /\ Fed \in 1 .. Known'
           /\ frame_buffer_cache'[Fed].status = frame_buffer_cache[Fed].status
  PROVE  NotesInv'
<1> SUFFICES ASSUME ~failed', png'.data # <<>>
             PROVE  Fed' \in 1 .. Known' /\ Noted(Fed, RowState)'
  BY DEF NotesInv
<1>1. ~failed /\ png.data # <<>>
  OBVIOUS
<1>2. PICK f : f = Fed
  OBVIOUS
<1>3. f \in 1 .. Known /\ Noted(f, RowState)
  BY <1>1, <1>2 DEF NotesInv
<1>4. frame_info # <<>> /\ png.ihdr_of \in 0 .. Len(frame_info)
  <2>1. Known \in Nat /\ Known <= Len(frame_info) /\ frame_info \in Seq(FrameInfo)
    BY KnownTyped DEF DecoderInv, CacheInv, ParserInv, IInv, TypeOK, RecordsOK
  <2>2. Len(frame_info) # 0
    BY <1>3, <2>1
  <2> QED
    BY <1>1, <2>1, <2>2 DEF SessionInv
<1>5. SessionHeight' = SessionHeight /\ file' = file
  BY <1>4, HeightStays DEF ParserKept
<1>6. Needed' = Needed
  BY <1>5 DEF Needed
<1>7. f \in 1 .. Known'
      /\ frame_buffer_cache'[f].status = frame_buffer_cache[f].status
  BY <1>2, <1>3
<1>8. Noted(f, RowState)'
  BY <1>3, <1>5, <1>6, <1>7 DEF Noted, OpaqueUpTo, RowState
<1> QED
  BY <1>2, <1>7, <1>8 DEF Noted, RowState

LEMMA NothingToNote ==
  ASSUME failed' \/ png'.data = <<>>
  PROVE  NotesInv'
BY DEF NotesInv


(* Steps that draw nothing: the buffers stay, and empty ones are added.    *)
LEMMA OldBuffersStay ==
  ASSUME DecoderInv, SessionInv, AlphaInv, ParserKept, failed => failed',
         Known <= Known', CacheInv',
         \A k \in 1 .. Known : frame_buffer_cache'[k] = frame_buffer_cache[k],
         \A k \in 1 .. Known' :
           k > Known => frame_buffer_cache'[k].status = "kFrameEmpty",
         \/ png'.data = <<>> \/ failed'
         \/ UNCHANGED <<png, current_buffer_saw_alpha>> /\ Fed' = Fed
  PROVE  AlphaInv'
<1>1. Known \in Nat /\ Known' \in Nat
  BY KnownTyped, KnownStaysTyped DEF DecoderInv
<1>2. OpaqueKept
  <2> SUFFICES ASSUME NEW k \in 1 .. Known',
                      frame_buffer_cache'[k].status = "kFrameComplete",
                      frame_buffer_cache'[k].opaque, file.alpha
               PROVE  /\ k \in 1 .. Known
                      /\ frame_buffer_cache[k].status = "kFrameComplete"
                      /\ frame_buffer_cache[k].opaque
    BY DEF OpaqueKept
  <2>1. k \in 1 .. Known
    BY <1>1
  <2> QED
    BY <2>1
<1>3. NotesInv'
  <2>1. CASE png'.data = <<>> \/ failed'
    BY <2>1, NothingToNote
  <2>2. CASE UNCHANGED <<png, current_buffer_saw_alpha>> /\ Fed' = Fed
    <3>1. PICK f : f = Fed
      OBVIOUS
    <3>2. f \in 1 .. Known =>
            /\ f \in 1 .. Known'
            /\ frame_buffer_cache'[f].status = frame_buffer_cache[f].status
      BY <1>1
    <3> QED
      BY <2>2, <3>1, <3>2, NotesStay DEF AlphaInv
  <2> QED
    BY <2>1, <2>2
<1> QED
  BY <1>2, <1>3, FramesStayOpaque DEF AlphaInv

LEMMA QuietAlpha ==
  ASSUME DecoderInv, SessionInv, AlphaInv, DecoderInv', ParserKept,
         failed => failed', UNCHANGED frame_buffer_cache,
         \/ png'.data = <<>> \/ failed'
         \/ UNCHANGED <<png, current_buffer_saw_alpha>> /\ Fed' = Fed
  PROVE  AlphaInv'
<1>1. Known' = Known /\ Known \in Nat
  BY KnownTyped DEF DecoderInv, Known
<1>2. Known <= Known' /\ \A k \in 1 .. Known' : ~(k > Known)
  BY <1>1
<1>3. CacheInv'
  BY DEF DecoderInv
<1> QED
  BY <1>2, <1>3, OldBuffersStay

LEMMA QuietCallAlpha ==
  ASSUME DecoderInv, SessionInv, AlphaInv, DecoderInv', ParserKept,
         failed => failed',
         \/ SetData \/ AskSize \/ AskHighBitDepth
         \/ \E i \in 1 .. MaxFrames : AskFrame(i)
         \/ Parsing \/ SizeAnswered \/ Decode \/ FinishDecode
         \/ SkipDecodedChunk \/ AwaitFrameData \/ UNCHANGED allvars
  PROVE  AlphaInv'
<1> USE DEF call, loop, session, cache
<1>1. CASE DecodeFails
  <2>1. failed' /\ UNCHANGED frame_buffer_cache
    BY <1>1 DEF DecodeFails, LoseReader, Fail
  <2> QED
    BY <2>1, QuietAlpha
<1>2. CASE ~DecodeFails
  <2>1. UNCHANGED <<png, frame_buffer_cache, current_buffer_saw_alpha>>
    BY <1>2 DEF SetData, AskSize, AskHighBitDepth, AskFrame, Parsing, SizeAnswered, Decode,
                FinishDecode, SkipDecodedChunk, AwaitFrameData, allvars
  <2>2. Fed' = Fed
    <3>1. CASE UNCHANGED allvars
      BY <3>1 DEF allvars, Fed
    <3>2. CASE ~UNCHANGED allvars
      <4>1. step # "whole" /\ step' # "whole"
        BY <1>2, <3>2 DEF SetData, AskSize, AskHighBitDepth, AskFrame, Parsing, SizeAnswered,
           Parsed, Decode, FinishDecode, SkipDecodedChunk, AwaitFrameData
      <4> QED
        BY <4>1 DEF Fed
    <3> QED
      BY <3>1, <3>2
  <2> QED
    BY <2>1, <2>2, QuietAlpha
<1> QED
  BY <1>1, <1>2

(* The cache grows by empty buffers.                                       *)
LEMMA GrowCacheAlpha ==
  ASSUME DecoderInv, SessionInv, AlphaInv, DecoderInv', ParserKept,
         failed => failed', GrowCache
  PROVE  AlphaInv'
<1> USE DEF loop, session
<1> DEFINE count == IF failed THEN Known ELSE Len(frame_info)
           c == count - Known
           grown == FoldLeft(InitializeNewFrame, frame_buffer_cache,
                             [n \in 1 .. c |-> Known + n])
<1>1. /\ frame_buffer_cache' = grown
      /\ step = "counting" /\ step' \in {"idle", "parsing"}
      /\ UNCHANGED <<png, current_buffer_saw_alpha>>
  <2> HIDE DEF grown
  <2> QED
    BY DEF GrowCache, Parsed, grown
<1>2. Known \in Nat /\ Known <= Len(frame_info) /\ Len(frame_info) \in Nat
  <2>1. frame_info \in Seq(FrameInfo)
    BY DEF DecoderInv, ParserInv, IInv, TypeOK, RecordsOK
  <2> QED
    BY <2>1, KnownTyped DEF DecoderInv, CacheInv
<1>3. c \in Nat /\ AreBuffers(frame_buffer_cache)
  BY <1>2 DEF DecoderInv, CacheInv
<1>4. PICK new : new = grown
  OBVIOUS
<1>5. /\ Len(new) = Known + c
      /\ \A k \in 1 .. Known : new[k] = frame_buffer_cache[k]
      /\ \A k \in 1 .. Known + c : k > Known => new[k].status = "kFrameEmpty"
  <2> HIDE DEF c
  <2> QED
    BY <1>3, <1>4, CacheGrown
<1>6. Known' = Known + c /\ frame_buffer_cache' = new
  BY <1>1, <1>4, <1>5 DEF Known
<1>7. Fed' = Fed
  BY <1>1 DEF Fed
<1>8. Known <= Known'
  <2> HIDE DEF c
  <2> QED
    BY <1>2, <1>3, <1>6
<1>9. CacheInv'
  BY DEF DecoderInv
<1> HIDE DEF grown, c
<1> QED
  BY <1>1, <1>5, <1>6, <1>7, <1>8, <1>9, OldBuffersStay

(* libpng has nothing, or the beginning of the first frame.                *)
LEMMA BeginFrameAlpha ==
  ASSUME DecoderInv, SessionInv, AlphaInv, DecoderInv', ParserKept,
         failed => failed', BeginFrame
  PROVE  AlphaInv'
<1> USE DEF cache
<1>1. /\ step = "frames" /\ todo # <<>> /\ step \notin Loops
      /\ UNCHANGED <<frame_buffer_cache, current_buffer_saw_alpha>>
  BY DEF BeginFrame, Loops
<1>2. PICK i : i = Head(todo)
  OBVIOUS
<1>3. i \in 1 .. Known /\ Known \in Nat
  BY <1>1, <1>2, HeadKnown, KnownTyped DEF DecoderInv
<1>4. CASE png'.data = <<>>
  BY <1>1, <1>4, QuietAlpha
<1>5. CASE png'.data # <<>>
  <2>1. ~ShouldDecodeWithNewPNG(i)
    <3> SUFFICES ASSUME ShouldDecodeWithNewPNG(i) PROVE FALSE
      OBVIOUS
    <3>1. png' = StartedPng(i)
      BY <1>2 DEF BeginFrame
    <3> QED
      BY <1>5, <3>1 DEF StartedPng, NewPng
  <2>2. UNCHANGED png
    BY <1>2, <2>1 DEF BeginFrame
  <2>3. progressive_decode_offset # 0
    BY <1>1, <1>5, <2>2 DEF SessionInv, DecoderInv, RequestInv
  <2>4. i = 1
    BY <1>3, <2>1, <2>3 DEF ShouldDecodeWithNewPNG
  <2>5. step' = "progressive"
    BY <1>2, <2>1, <2>3, <2>4 DEF BeginFrame
  <2>6. Fed' = Fed
    BY <1>1, <2>5 DEF Fed
  <2> QED
    BY <1>1, <2>2, <2>6, QuietAlpha
<1> QED
  BY <1>4, <1>5

(* Frames are cleared, and with the first its session.                     *)
LEMMA ClearingAlpha ==
  ASSUME DecoderInv, SessionInv, AlphaInv, ParserKept, UNCHANGED reader,
         UNCHANGED current_buffer_saw_alpha, NEW S, ClearFrameBuffers(S),
         step # "whole", step' # "whole"
  PROVE  AlphaInv'
<1>1. PICK new : new = frame_buffer_cache'
  OBVIOUS
<1>2. new = ClearedCache(S)
  BY <1>1 DEF ClearFrameBuffers, ClearedCache
<1>3. /\ Len(new) = Known
      /\ \A k \in 1 .. Known : k \notin S => new[k] = frame_buffer_cache[k]
      /\ \A k \in 1 .. Known : k \in S => new[k].status = "kFrameEmpty"
  BY <1>2, BuffersCleared DEF DecoderInv
<1>4. Known' = Known
  BY <1>1, <1>3 DEF Known
<1>5. OpaqueKept
  <2> SUFFICES ASSUME NEW k \in 1 .. Known, new[k].status = "kFrameComplete"
               PROVE  new[k] = frame_buffer_cache[k]
    BY <1>1, <1>4 DEF OpaqueKept
  <2> QED
    BY <1>3
<1>6. UNCHANGED failed /\ Fed' = Fed /\ Fed = 1
  BY DEF reader, vars, Fed
<1>7. NotesInv'
  <2>1. CASE failed'
    BY <2>1, NothingToNote
  <2>2. CASE ~failed' /\ 1 \in S
    <3>1. png' = NoPng
      BY <1>6, <2>2 DEF ClearFrameBuffers
    <3>2. png'.data = <<>>
      BY <3>1 DEF NoPng
    <3> QED
      BY <3>2, NothingToNote
  <2>3. CASE 1 \notin S
    <3>1. UNCHANGED png
      BY <2>3 DEF ClearFrameBuffers
    <3>2. Fed \in 1 .. Known =>
            /\ Fed \in 1 .. Known'
            /\ frame_buffer_cache'[Fed].status = frame_buffer_cache[Fed].status
      BY <1>1, <1>3, <1>4, <1>6, <2>3
    <3> QED
      BY <1>6, <3>1, <3>2, NotesStay DEF AlphaInv
  <2> QED
    BY <2>1, <2>2, <2>3
<1> QED
  BY <1>5, <1>7, FramesStayOpaque DEF AlphaInv

LEMMA PostDecodeAlpha ==
  ASSUME DecoderInv, SessionInv, AlphaInv, DecoderInv', ParserKept,
         failed => failed',
         \/ PostDecodeProcessing
         \/ \E keep \in 0 .. MaxFrames : Purge(keep)
  PROVE  AlphaInv'
<1> USE DEF call
<1>1. /\ UNCHANGED reader /\ UNCHANGED current_buffer_saw_alpha
      /\ step # "whole" /\ step' # "whole"
  BY DEF PostDecodeProcessing, Purge
<1>2. CASE UNCHANGED <<png, frame_buffer_cache>>
  <2>1. Fed' = Fed
    BY <1>1 DEF Fed
  <2> QED
    BY <1>1, <1>2, <2>1, QuietAlpha
<1>3. ASSUME NEW S, ClearFrameBuffers(S) PROVE AlphaInv'
  BY <1>1, <1>3, ClearingAlpha
<1> QED
  BY <1>2, <1>3 DEF PostDecodeProcessing, Purge


(* The session fits the frame at the head of the list, and what it has of  *)
(* its data has been noted.                                                *)
Decoding ==
  todo # <<>> /\ (step \in Loops \/ (step = "frames" /\ ~is_animated))

LEMMA SessionFits ==
  ASSUME DecoderInv, SessionInv, Decoding, NEW f, f = Head(todo)
  PROVE  /\ f \in 1 .. Known /\ Fits(f)
         /\ png.data # <<>> => Fed = f
<1>1. todo # <<>> /\ step \in Loops \cup {"frames"}
  BY DEF Decoding
<1>2. f \in 1 .. Known /\ f \in DOMAIN frame_info /\ frame_info[f] \in FrameInfo
      /\ frame_info # <<>>
  BY <1>1, HeadKnown
<1>3. ~failed
  BY <1>1 DEF DecoderInv, RequestInv
<1>4. frame_info[f].frame_rect.height \in Nat
  BY <1>2 DEF FrameInfo, Rect
<1>5. CASE step \in Loops
  <2>1. f = current_frame /\ step \in {"progressive", "whole"}
    BY <1>5 DEF DecoderInv, TodoInv, Loops
  <2>2. step = "progressive" => current_frame = 1
    BY DEF DecoderInv, OffsetInv
  <2>3. SessionHeight = frame_info[f].frame_rect.height
    BY <1>3, <1>5, <2>1 DEF SessionInv
  <2> QED
    BY <1>2, <1>4, <2>1, <2>2, <2>3 DEF Fits, Fed
<1>6. CASE step = "frames" /\ ~is_animated
  <2>1. png.ihdr_of = 0
    BY <1>3, <1>6 DEF SessionInv
  <2>2. Len(frame_info) = 1 /\ frame_info[1].frame_rect = ImageRect
    BY <1>2, <1>6 DEF DecoderInv, ParserInv, RegisteredInv
  <2>3. f = 1
    <3>1. Known \in Nat /\ Known <= Len(frame_info)
      BY KnownTyped DEF DecoderInv, CacheInv
    <3> QED
      BY <1>2, <2>2, <3>1
  <2>4. SessionHeight = frame_info[f].frame_rect.height
    BY <2>1, <2>2, <2>3 DEF SessionHeight, ImageRect
  <2> QED
    BY <1>2, <1>4, <1>6, <2>3, <2>4 DEF Fits, Fed
<1> QED
  BY <1>5, <1>6 DEF Decoding

LEMMA HeadNoted ==
  ASSUME DecoderInv, SessionInv, AlphaInv, Decoding, NEW f, f = Head(todo)
  PROVE  Noted(f, RowState)
<1>1. ~failed /\ (png.data # <<>> => Fed = f) /\ Fits(f)
  BY SessionFits DEF Decoding, DecoderInv, RequestInv, Loops
<1>2. CASE png.data # <<>>
  BY <1>1, <1>2 DEF AlphaInv, NotesInv
<1>3. CASE png.data = <<>>
  <2>1. RowState.data = <<>> /\ Len(<<>>) = 0
    BY <1>3 DEF RowState
  <2>2. OpaqueUpTo(<<>>, Needed)
    BY DEF OpaqueUpTo
  <2> QED
    BY <2>1, <2>2 DEF Noted
<1> QED
  BY <1>2, <1>3

LEMMA RowsNoted ==
  ASSUME DecoderInv, SessionInv, AlphaInv, Decoding, NEW f, f = Head(todo),
         NEW D, IsBounded(D), NEW writable,
         NEW s, s = RowStateAfter(f, D, writable)
  PROVE  /\ f \in 1 .. Known /\ Fits(f)
         /\ Drawing(f, s) /\ Noted(f, s) /\ s.data \in Seq(Nat)
<1>1. f \in 1 .. Known /\ Fits(f)
  BY SessionFits
<1>2. Noted(f, RowState)
  BY HeadNoted
<1>3. /\ CacheInv /\ FileInv /\ current_buffer_saw_alpha \in BOOLEAN
      /\ png.data \in Seq(Nat)
  BY DEF DecoderInv, ParserInv, DataInv, RequestInv, OffsetInv, Session
<1>4. Drawing(f, s) /\ Noted(f, s)
  BY <1>1, <1>2, <1>3, DataDrawn
<1>5. s.data \in Seq(Nat)
  <2>1. todo # <<>> /\ s = RowStateAfter(Head(todo), D, writable)
    BY DEF Decoding
  <2> QED
    BY <2>1, HeadDrawn
<1> QED
  BY <1>1, <1>4, <1>5

(* Drawing completes no frame.                                             *)
LEMMA DrawingKeepsOpaque ==
  ASSUME DecoderInv, NEW f \in 1 .. Known, NEW s, Drawing(f, s),
         frame_buffer_cache' = s.buffers
  PROVE  OpaqueKept
<1>1. PICK new : new = s.buffers
  OBVIOUS
<1>2. /\ Len(new) = Known
      /\ \A k \in 1 .. Known :
           /\ new[k].opaque = frame_buffer_cache[k].opaque
           /\ k # f => new[k].status \in {frame_buffer_cache[k].status,
                                          "kFrameEmpty"}
      /\ new[f].status # frame_buffer_cache[f].status
           => new[f].status = "kFramePartial"
  BY <1>1 DEF Drawing
<1>3. Known' = Known
  BY <1>1, <1>2 DEF Known
<1> SUFFICES ASSUME NEW k \in 1 .. Known, new[k].status = "kFrameComplete",
                    new[k].opaque
             PROVE  /\ frame_buffer_cache[k].status = "kFrameComplete"
                    /\ frame_buffer_cache[k].opaque
  BY <1>1, <1>3 DEF OpaqueKept
<1> QED
  BY <1>2

LEMMA FedIsNoted ==
  ASSUME DecoderInv, UNCHANGED reader, NEW f \in 1 .. Known, NEW s,
         Len(s.buffers) = Known, Noted(f, s), Feed(s), Fed' = f
  PROVE  NotesInv'
<1>1. UNCHANGED <<file, frame_info, ihdr>>
  BY DEF reader, vars, input, frames, header
<1>2. png'.data = s.data /\ png'.ihdr_of = png.ihdr_of
  BY SessionFed
<1>3. Needed' = Needed
  BY <1>1, <1>2 DEF Needed, SessionHeight
<1>4. /\ frame_buffer_cache' = s.buffers
      /\ current_buffer_saw_alpha' = s.saw_alpha
  BY DEF Feed
<1>5. Known' = Known
  BY <1>4 DEF Known
<1>6. Noted(f, RowState)'
  BY <1>1, <1>2, <1>3, <1>4 DEF Noted, OpaqueUpTo, RowState
<1> QED
  BY <1>5, <1>6 DEF NotesInv, Noted, RowState

LEMMA FeedAlpha ==
  ASSUME DecoderInv, AlphaInv, ParserKept, UNCHANGED reader,
         NEW f \in 1 .. Known, NEW s, Drawing(f, s), Noted(f, s), Feed(s),
         Fed' = f
  PROVE  AlphaInv'
<1>1. OpaqueKept
  BY DrawingKeepsOpaque DEF Feed
<1>2. Len(s.buffers) = Known
  BY DEF Drawing
<1>3. NotesInv'
  BY <1>2, FedIsNoted
<1> QED
  BY <1>1, <1>3, FramesStayOpaque DEF AlphaInv

LEMMA FeedFailsAlpha ==
  ASSUME DecoderInv, AlphaInv, ParserKept, NEW f \in 1 .. Known, NEW s,
         Drawing(f, s), FeedFails(s)
  PROVE  AlphaInv'
<1>1. OpaqueKept
  BY DrawingKeepsOpaque DEF FeedFails
<1>2. NotesInv'
  BY NothingToNote DEF FeedFails, LoseReader, Fail
<1> QED
  BY <1>1, <1>2, FramesStayOpaque DEF AlphaInv

(* A frame whose rows have all been drawn and noted is complete.           *)
LEMMA CompletedIsOpaque ==
  ASSUME DecoderInv, NEW f \in 1 .. Known, NEW s, Drawing(f, s), Noted(f, s),
         Fits(f), NEW m \in Nat, s.data = OwnDataBefore(f, m),
         ~(Len(s.data) < Needed),
         frame_buffer_cache' = Completed(s.buffers, f, s.saw_alpha)
  PROVE  OpaqueKept
<1>1. PICK old, new, saw_alpha : /\ old = s.buffers /\ saw_alpha = s.saw_alpha
                                 /\ new = Completed(old, f, saw_alpha)
  OBVIOUS
<1>2. /\ AreBuffers(old) /\ Len(old) = Known /\ saw_alpha \in BOOLEAN
      /\ \A k \in 1 .. Known :
           /\ old[k].opaque = frame_buffer_cache[k].opaque
           /\ k # f => old[k].status \in {frame_buffer_cache[k].status,
                                          "kFrameEmpty"}
  BY <1>1 DEF Drawing
<1>3. /\ Len(new) = Known /\ new[f].opaque = ~saw_alpha
      /\ \A k \in 1 .. Known : k # f => new[k] = old[k]
  <2>1. f \in 1 .. Len(old)
    BY <1>2
  <2>2. /\ Len(new) = Len(old) /\ new[f].opaque = ~saw_alpha
        /\ \A k \in 1 .. Len(old) : k # f => new[k] = old[k]
    BY <1>1, <1>2, <2>1, BufferCompleted
  <2> QED
    BY <1>2, <2>2
<1>4. Known' = Known
  BY <1>1, <1>3 DEF Known
<1>5. ASSUME file.alpha, ~saw_alpha PROVE DrawnOpaque(f)
  <2>1. PICK n : n = Needed
    OBVIOUS
  <2>2. n \in Nat
    <3>1. FileInv /\ SessionHeight \in Nat
      BY DEF DecoderInv, ParserInv, DataInv, Fits
    <3> QED
      BY <2>1, <3>1, NeededTyped
  <2>3. n = RowCount(frame_info[f].frame_rect.height)
    BY <2>1 DEF Fits, Needed, RowCount
  <2>4. OpaqueUpTo(s.data, n)
    BY <1>1, <1>5, <2>1 DEF Noted
  <2>5. OpaqueUpTo(InOrder(OwnData(f)), n)
    BY <2>1, <2>2, <2>4, FedIsAPrefix
  <2> QED
    BY <2>3, <2>5 DEF DrawnOpaque
<1> SUFFICES ASSUME NEW k \in 1 .. Known, new[k].status = "kFrameComplete",
                    new[k].opaque, file.alpha
             PROVE  \/ DrawnOpaque(k)
                    \/ /\ frame_buffer_cache[k].status = "kFrameComplete"
                       /\ frame_buffer_cache[k].opaque
  BY <1>1, <1>4 DEF OpaqueKept
<1>6. CASE k = f
  BY <1>2, <1>3, <1>5, <1>6
<1>7. CASE k # f
  BY <1>2, <1>3, <1>7
<1> QED
  BY <1>6, <1>7

(* What libpng has in a loop is the beginning of the frame's data.         *)
LEMMA SessionIsOwn ==
  ASSUME DecoderInv, SessionInv, step \in Loops
  PROVE  \E m \in Nat : png.data = OwnDataBefore(current_frame, m)
<1>1. /\ ~failed /\ is_animated /\ step \in {"progressive", "whole"}
      /\ offset \in Nat /\ progressive_decode_offset \in Nat
      /\ (step = "progressive" => current_frame = 1)
  BY DEF DecoderInv, RequestInv, OffsetInv, Loops
<1>2. CASE step = "whole"
  BY <1>1, <1>2 DEF SessionInv
<1>3. CASE step = "progressive" /\ progressive_decode_offset = 0
  <2>1. \A b \in OwnData(1) : ~(b < 0)
    BY OwnDataTyped
  <2>2. OwnDataBefore(1, 0) = <<>>
    BY <2>1, OwnDataStarts
  <2>3. png.data = <<>>
    BY <1>1, <1>3 DEF SessionInv
  <2> QED
    BY <1>1, <1>3, <2>2, <2>3
<1>4. CASE step = "progressive" /\ progressive_decode_offset # 0
  <2>1. FirstFrameFed
    BY <1>1, <1>4 DEF SessionInv
  <2>2. Base + progressive_decode_offset = progressive_decode_offset
    BY <1>1 DEF Base
  <2> QED
    BY <1>1, <1>4, <2>1, <2>2 DEF FirstFrameFed
<1> QED
  BY <1>1, <1>2, <1>3, <1>4

LEMMA EndFrameAlpha ==
  ASSUME DecoderInv, SessionInv, AlphaInv, DecoderInv', ParserKept,
         failed => failed', EndFrame, step \in Loops
  PROVE  AlphaInv'
<1>1. CASE DecodeFails
  <2>1. failed' /\ UNCHANGED frame_buffer_cache
    BY <1>1 DEF DecodeFails, LoseReader, Fail, cache
  <2> QED
    BY <2>1, QuietAlpha
<1>2. CASE ~DecodeFails
  <2>1. /\ frame_buffer_cache' = Completed(frame_buffer_cache, current_frame,
                                           current_buffer_saw_alpha)
        /\ png' = NoPng
        /\ ~(Len(png.data) < Needed)
    BY <1>2 DEF EndFrame
  <2>2. PICK f : f = current_frame
    OBVIOUS
  <2>3. f = Head(todo) /\ Decoding
    BY <2>2 DEF DecoderInv, TodoInv, Decoding
  <2>4. PICK s : s = RowState
    OBVIOUS
  <2>5. f \in 1 .. Known /\ Fits(f) /\ Noted(f, s)
    BY <2>3, <2>4, SessionFits, HeadNoted
  <2>6. Drawing(f, s)
    BY <2>4, DrawingStarts DEF DecoderInv, RequestInv
  <2>7. PICK m \in Nat : png.data = OwnDataBefore(f, m)
    BY <2>2, SessionIsOwn
  <2>8. /\ s.data = png.data /\ s.buffers = frame_buffer_cache
        /\ s.saw_alpha = current_buffer_saw_alpha
    BY <2>4 DEF RowState
  <2>9. OpaqueKept
    BY <2>1, <2>2, <2>5, <2>6, <2>7, <2>8, CompletedIsOpaque
  <2>10. NotesInv'
    BY <2>1, NothingToNote DEF NoPng
  <2> QED
    BY <2>9, <2>10, FramesStayOpaque DEF AlphaInv
<1> QED
  BY <1>1, <1>2

LEMMA WholeChunkAlpha ==
  ASSUME DecoderInv, SessionInv, AlphaInv, ParserKept, WholeChunk
  PROVE  AlphaInv'
<1> USE DEF call
<1>1. step = "whole" /\ step \in Loops
  BY DEF WholeChunk, Loops
<1>2. PICK f : f = current_frame
  OBVIOUS
<1>3. PICK D : D = Payload(offset)
  OBVIOUS
<1>4. PICK writable, s :
        /\ s = RowStateAfter(f, D, writable)
        /\ \/ FeedFails(s)
           \/ Feed(s) /\ UNCHANGED <<reader, current_frame, step>>
  BY <1>2, <1>3 DEF WholeChunk
<1>5. IsBounded(D)
  <2>1. offset + 8 <= received
    <3>1. offset < frame_info[current_frame].start_offset
                     + frame_info[current_frame].byte_length
      BY DEF WholeChunk
    <3> QED
      BY <1>1, <3>1, ClosedFrameAhead
  <2>2. offset \in DOMAIN file.chunk /\ IsFile(file)
    BY <1>1, <2>1, LoopAtChunk DEF DecoderInv, ParserInv, IInv, TypeOK, InputOK
  <2> QED
    BY <1>3, <2>2, PayloadBounded
<1>6. f = Head(todo) /\ Decoding
  BY <1>1, <1>2 DEF DecoderInv, TodoInv, Decoding
<1>7. f \in 1 .. Known /\ Drawing(f, s) /\ Noted(f, s)
  BY <1>4, <1>5, <1>6, RowsNoted
<1>8. CASE FeedFails(s)
  BY <1>7, <1>8, FeedFailsAlpha
<1>9. CASE Feed(s) /\ UNCHANGED <<reader, current_frame, step>>
  <2>1. Fed' = f
    BY <1>1, <1>2, <1>9 DEF Fed
  <2> QED
    BY <1>7, <1>9, <2>1, FeedAlpha
<1> QED
  BY <1>4, <1>8, <1>9

LEMMA ProgressiveChunkAlpha ==
  ASSUME DecoderInv, SessionInv, AlphaInv, ParserKept, ProgressiveChunk
  PROVE  AlphaInv'
<1>1. /\ step = "progressive" /\ step \in Loops /\ received >= offset + 8
  BY DEF ProgressiveChunk, Loops
<1>2. PICK from, end : from = ResumeAt /\ end = FedUpTo(ResumeAt, here_end)
  OBVIOUS
<1>3. PICK D : D = {o \in Payload(offset) : from <= o /\ o < end}
  OBVIOUS
<1>4. PICK f : f = current_frame
  OBVIOUS
<1>5. PICK writable, s :
        /\ s = RowStateAfter(f, D, writable)
        /\ \/ FeedFails(s)
           \/ Feed(s) /\ UNCHANGED reader /\ step' \in {"progressive", "decoded"}
  BY <1>1, <1>2, <1>3, <1>4 DEF ProgressiveChunk
<1>6. IsBounded(D)
  <2>1. offset + 8 <= received
    <3>1. offset \in Nat /\ received \in Nat
      BY DEF DecoderInv, ParserInv, IInv, TypeOK, InputOK, IsFile, OffsetInv
    <3> QED
      BY <1>1, <3>1
  <2>2. offset \in DOMAIN file.chunk /\ IsFile(file)
    BY <1>1, <2>1, LoopAtChunk DEF DecoderInv, ParserInv, IInv, TypeOK, InputOK
  <2>3. D \subseteq Payload(offset)
    BY <1>3
  <2> QED
    BY <2>2, <2>3, PayloadBounded
<1>7. f = Head(todo) /\ Decoding /\ f = 1
  BY <1>1, <1>4 DEF DecoderInv, TodoInv, OffsetInv, Decoding
<1>8. f \in 1 .. Known /\ Drawing(f, s) /\ Noted(f, s)
  BY <1>5, <1>6, <1>7, RowsNoted
<1>9. CASE FeedFails(s)
  BY <1>8, <1>9, FeedFailsAlpha
<1>10. CASE Feed(s) /\ UNCHANGED reader /\ step' \in {"progressive", "decoded"}
  <2>1. Fed' = f
    BY <1>7, <1>10 DEF Fed
  <2> QED
    BY <1>8, <1>10, <2>1, FeedAlpha
<1> QED
  BY <1>5, <1>9, <1>10

(* A still image: drawn to its end, or up to what is here.                 *)
LEMMA StillImageAlpha ==
  ASSUME DecoderInv, SessionInv, AlphaInv, DecoderInv', SessionInv',
         ParserKept, StillImage
  PROVE  AlphaInv'
<1>1. step = "frames" /\ todo # <<>> /\ ~is_animated /\ Decoding
  BY DEF StillImage, Decoding
<1>2. PICK s : StillFed(s)
  BY StillImageFeeds
<1>3. PICK D, f, m : D = StillDrawn /\ f = Head(todo) /\ m = StillTo
  OBVIOUS
<1>4. NextData(1, StillFrom, m, D) /\ IsBounded(D)
  BY <1>1, <1>3, StillImageData, OwnDataFed DEF NextData
<1>5. /\ f \in 1 .. Known /\ Fits(f) /\ Drawing(f, s) /\ Noted(f, s)
      /\ s.data \in Seq(Nat)
  <2>1. PICK writable : writable = FALSE
    OBVIOUS
  <2>2. s = RowStateAfter(f, D, writable)
    BY <1>2, <1>3, <2>1 DEF StillFed
  <2> QED
    BY <1>1, <1>3, <1>4, <2>2, RowsNoted
<1>6. CASE FeedFails(s)
  BY <1>5, <1>6, FeedFailsAlpha
<1>7. ASSUME UNCHANGED reader, step' = "decoded" PROVE f = 1 /\ Fed' = f
  <2>1. /\ Len(frame_info) = 1 /\ Known \in Nat /\ Known <= Len(frame_info)
    BY <1>1, HeadKnown, KnownTyped
       DEF DecoderInv, CacheInv, ParserInv, RegisteredInv
  <2>2. f = 1
    BY <1>5, <2>1
  <2> QED
    BY <1>7, <2>2 DEF Fed
<1>8. CASE Feed(s) /\ step' = "decoded" /\ UNCHANGED reader
  <2>1. Fed' = f
    BY <1>7, <1>8
  <2> QED
    BY <1>5, <1>8, <2>1, FeedAlpha
<1>9. CASE /\ Feed(StillDone(s)) /\ ~(Len(s.data) < Needed)
           /\ step' = "decoded" /\ UNCHANGED reader
  <2>1. PICK t : t = StillDone(s)
    OBVIOUS
  <2>2. /\ t.data = s.data /\ t.saw_alpha = s.saw_alpha
        /\ t.buffers = Completed(s.buffers, f, s.saw_alpha)
    BY <1>3, <1>5, <2>1 DEF Drawing, StillDone
  <2>3. Feed(t)
    BY <1>9, <2>1
  <2>4. f = 1
    BY <1>7, <1>9
  <2>5. s.data = OwnDataBefore(f, m) /\ m \in Nat
    <3>1. PICK writable : writable = FALSE
      OBVIOUS
    <3>2. s = RowStateAfter(Head(todo), D, writable)
      BY <1>2, <1>3, <3>1 DEF StillFed
    <3> QED
      BY <1>1, <1>4, <2>4, <3>2, NextDataFed DEF NextData
  <2>6. OpaqueKept
    <3>1. frame_buffer_cache' = Completed(s.buffers, f, s.saw_alpha)
      BY <2>2, <2>3 DEF Feed
    <3> QED
      BY <1>5, <1>9, <2>5, <3>1, CompletedIsOpaque
  <2>7. NotesInv'
    <3>1. PICK old, new, saw_alpha :
            /\ old = s.buffers /\ saw_alpha = s.saw_alpha
            /\ new = Completed(old, f, saw_alpha)
      OBVIOUS
    <3>2. AreBuffers(old) /\ Len(old) = Known /\ saw_alpha \in BOOLEAN
      BY <1>5, <3>1 DEF Drawing
    <3>3. Len(new) = Known /\ new[f].status = "kFrameComplete"
      <4>1. f \in 1 .. Len(old)
        BY <1>5, <3>2
      <4> QED
        BY <3>1, <3>2, <4>1, BufferCompleted
    <3>4. Len(t.buffers) = Known /\ t.buffers[f].status = "kFrameComplete"
      BY <2>2, <3>1, <3>3
    <3>5. Noted(f, t)
      BY <1>5, <2>2, <3>4 DEF Noted
    <3>6. Fed' = f
      BY <1>7, <1>9
    <3> QED
      BY <1>5, <1>9, <2>3, <3>4, <3>5, <3>6, FedIsNoted
  <2> QED
    BY <2>6, <2>7, FramesStayOpaque DEF AlphaInv
<1> QED
  BY <1>2, <1>6, <1>8, <1>9 DEF StillFed

LEMMA AlphaStep ==
  ASSUME DecoderInv, SessionInv, AlphaInv, DecoderInv', SessionInv',
         [DecoderNext]_allvars
  PROVE  AlphaInv'
<1>1. ParserKept /\ (failed => failed')
  BY ParserStep, FailedStays DEF DecoderInv
<1>2. CASE \/ SetData \/ AskSize \/ AskHighBitDepth
           \/ \E i \in 1 .. MaxFrames : AskFrame(i)
           \/ Parsing \/ SizeAnswered \/ Decode \/ FinishDecode
           \/ SkipDecodedChunk \/ AwaitFrameData \/ UNCHANGED allvars
  BY <1>1, <1>2, QuietCallAlpha
<1>3. CASE GrowCache
  BY <1>1, <1>3, GrowCacheAlpha
<1>4. CASE BeginFrame
  BY <1>1, <1>4, BeginFrameAlpha
<1>5. CASE StillImage
  BY <1>1, <1>5, StillImageAlpha
<1>6. CASE FirstFrameEnds \/ WholeFrameEnds
  <2>1. EndFrame /\ step \in Loops
    BY <1>6 DEF FirstFrameEnds, WholeFrameEnds, Loops
  <2> QED
    BY <1>1, <2>1, EndFrameAlpha
<1>7. CASE ProgressiveChunk
  BY <1>1, <1>7, ProgressiveChunkAlpha
<1>8. CASE WholeChunk
  BY <1>1, <1>8, WholeChunkAlpha
<1>9. CASE PostDecodeProcessing \/ \E keep \in 0 .. MaxFrames : Purge(keep)
  BY <1>1, <1>9, PostDecodeAlpha
<1> QED
  BY <1>2, <1>3, <1>4, <1>5, <1>6, <1>7, <1>8, <1>9, Zenon
     DEF DecoderNext, CallStep

LEMMA AlphaInit ==
  ASSUME DecoderInit
  PROVE  AlphaInv
<1>1. frame_buffer_cache = <<>> /\ png.data = <<>>
  BY DEF DecoderInit, NewPng
<1>2. Len(<<>>) = 0
  OBVIOUS
<1>3. CompleteFrames = {}
  BY <1>1, <1>2 DEF CompleteFrames, Known
<1> QED
  BY <1>1, <1>3 DEF AlphaInv, FramesOpaque, NotesInv

(* The opacity of a frame is noted while its rows are drawn, although one  *)
(* flag serves all frames and a frame may be given up and begun again.     *)
THEOREM AlphaInvariant == DecoderSpec => [](DecoderInv /\ SessionInv /\ AlphaInv)
<1>1. DecoderInit => AlphaInv
  BY AlphaInit
<1>2. /\ DecoderInv /\ SessionInv /\ AlphaInv /\ [DecoderNext]_allvars
      /\ DecoderInv' /\ SessionInv'
      => AlphaInv'
  BY AlphaStep
<1> QED
  BY <1>1, <1>2, SessionInvariant, PTL DEF DecoderSpec

(* A frame is marked opaque only if none of its pixels is translucent.     *)
THEOREM OpaqueFramesAreTrue == DecoderSpec => []OpaqueFramesAreOpaque
<1>1. FramesOpaque => OpaqueFramesAreOpaque
  <2> SUFFICES ASSUME FramesOpaque, NEW i \in CompleteFrames,
                      frame_buffer_cache[i].opaque, file.alpha,
                      NEW row \in 1 .. frame_info[i].frame_rect.height,
                      NEW b \in RowData(i, row)
               PROVE  b \notin file.translucent
    BY DEF OpaqueFramesAreOpaque
  <2>1. PICK data, n : /\ data = InOrder(OwnData(i))
                       /\ n = RowCount(frame_info[i].frame_rect.height)
    OBVIOUS
  <2>2. OpaqueUpTo(data, n)
    BY <2>1 DEF FramesOpaque, DrawnOpaque
  <2>3. PICK k \in 1 .. n : k <= Len(data) /\ b = data[k]
    BY <2>1 DEF RowData, RowCount
  <2>4. k \in 1 .. Len(data) /\ k <= n
    BY <2>3
  <2> QED
    BY <2>2, <2>3, <2>4 DEF OpaqueUpTo
<1> QED
  BY <1>1, AlphaInvariant, PTL DEF AlphaInv

-----------------------------------------------------------------------------
(* Layers: a row without its repeats.                                      *)

OneMore(done, l) ==
  IF done # <<>> /\ Last(done) = l THEN done ELSE Append(done, l)

LEMMA RepeatsUnfold ==
  ASSUME NEW layers, NEW c \in Nat, DOMAIN layers = 1 .. c
  PROVE  \E g :
           /\ WithoutRepeats(layers) = g[1 .. c]
           /\ g[1 .. 0] = <<>>
           /\ \A k \in Nat : k + 1 <= c =>
                g[1 .. k + 1] = OneMore(g[1 .. k], layers[k + 1])
<1> DEFINE D == DOMAIN layers
           Op(o, x) == IF x # <<>> /\ Last(x) = layers[o] THEN x
                       ELSE Append(x, layers[o])
           Body(f, s) == IF s = {} THEN <<>>
                         ELSE Op(Max(s), f[s \ {Max(s)}])
           g == CHOOSE f : f = [s \in SUBSET D |-> Body(f, s)]
           S == {m \in Nat : \E h : h = [s \in SUBSET (1 .. m) |-> Body(h, s)]}
<1>1. WithoutRepeats(layers) = g[D]
  BY DEF WithoutRepeats, FoldLeft, MapThenFoldSet
<1>2. \A o, x : Op(o, x) = OneMore(x, layers[o])
  BY DEF OneMore
<1> HIDE DEF Op
<1>3. 0 \in S
  <2> DEFINE h == [s \in SUBSET (1 .. 0) |-> <<>>]
  <2>1. h = [s \in SUBSET (1 .. 0) |-> Body(h, s)]
    <3>1. \A s \in SUBSET (1 .. 0) : s = {}
      OBVIOUS
    <3> QED
      BY <3>1
  <2> HIDE DEF h, Body
  <2> QED
    BY <2>1
<1>4. ASSUME NEW m \in Nat, m \in S PROVE m + 1 \in S
  <2>1. PICK h : h = [s \in SUBSET (1 .. m) |-> Body(h, s)]
    BY <1>4
  <2> DEFINE j == [s \in SUBSET (1 .. m + 1) |->
                     IF m + 1 \in s THEN Op(m + 1, h[s \ {m + 1}]) ELSE h[s]]
  <2>2. ASSUME NEW s \in SUBSET (1 .. m + 1) PROVE j[s] = Body(j, s)
    <3>1. CASE m + 1 \in s
      <4>1. Max(s) = m + 1
        <5>1. m + 1 \in Int /\ s \subseteq Int /\ \A y \in s : y <= m + 1
          OBVIOUS
        <5> QED
          BY <3>1, <5>1, MaxIs
      <4>2. /\ s \ {m + 1} \in SUBSET (1 .. m + 1)
            /\ m + 1 \notin s \ {m + 1}
        OBVIOUS
      <4>3. j[s \ {m + 1}] = h[s \ {m + 1}]
        BY <4>2
      <4> QED
        BY <3>1, <4>1, <4>3
    <3>2. CASE m + 1 \notin s
      <4>1. s \in SUBSET (1 .. m) /\ j[s] = h[s] /\ h[s] = Body(h, s)
        <5>1. s \in SUBSET (1 .. m)
          BY <3>2
        <5> QED
          BY <2>1, <3>2, <5>1
      <4>2. s \ {Max(s)} \in SUBSET (1 .. m + 1) /\ m + 1 \notin s \ {Max(s)}
        BY <3>2
      <4>3. j[s \ {Max(s)}] = h[s \ {Max(s)}]
        BY <4>2
      <4> QED
        BY <4>1, <4>3
    <3> QED
      BY <3>1, <3>2
  <2>3. j = [s \in SUBSET (1 .. m + 1) |-> Body(j, s)]
    <3> HIDE DEF Body
    <3>1. j = [s \in SUBSET (1 .. m + 1) |-> j[s]]
      OBVIOUS
    <3> HIDE DEF j
    <3> QED
      BY <2>2, <3>1
  <2> HIDE DEF j, Body
  <2> QED
    BY <2>3
<1>5. PICK h : h = [s \in SUBSET D |-> Body(h, s)]
  <2> HIDE DEF S
  <2>1. c \in S
    BY <1>3, <1>4, SetInduction
  <2> QED
    BY <2>1 DEF S
<1>6. g = [s \in SUBSET D |-> Body(g, s)]
  <2> HIDE DEF Body
  <2> QED
    BY <1>5
<1> HIDE DEF g
<1>7. g[1 .. 0] = <<>>
  BY <1>6
<1>8. ASSUME NEW k \in Nat, k + 1 <= c
      PROVE  g[1 .. k + 1] = OneMore(g[1 .. k], layers[k + 1])
  <2>1. Max(1 .. k + 1) = k + 1
    <3>1. /\ k + 1 \in Int /\ 1 .. k + 1 \subseteq Int /\ k + 1 \in 1 .. k + 1
          /\ \A y \in 1 .. k + 1 : y <= k + 1
      OBVIOUS
    <3> QED
      BY <3>1, MaxIs
  <2>2. (1 .. k + 1) \ {k + 1} = 1 .. k /\ 1 .. k + 1 \in SUBSET D
        /\ 1 .. k + 1 # {}
    <3>1. 1 .. k + 1 \in SUBSET (1 .. c) /\ k + 1 \in 1 .. k + 1
      BY <1>8
    <3>2. (1 .. k + 1) \ {k + 1} = 1 .. k
      OBVIOUS
    <3>3. D = 1 .. c
      OBVIOUS
    <3> QED
      BY <3>1, <3>2, <3>3, Zenon
  <2>3. g[1 .. k + 1] = Op(k + 1, g[1 .. k])
    BY <1>6, <2>1, <2>2
  <2> QED
    BY <1>2, <2>3
<1> QED
  BY <1>1, <1>7, <1>8

LEMMA RepeatsAppended ==
  ASSUME NEW s, IsList(s), NEW x
  PROVE  WithoutRepeats(Append(s, x)) = OneMore(WithoutRepeats(s), x)
<1>1. PICK n \in Nat : n = Len(s)
  BY ListFacts
<1>2. PICK t : t = Append(s, x)
  OBVIOUS
<1>3. /\ DOMAIN s = 1 .. n /\ DOMAIN t = 1 .. n + 1 /\ t[n + 1] = x
      /\ \A i \in 1 .. n : t[i] = s[i]
  BY <1>1, <1>2, ListFacts, ListAppended
<1>4. PICK g : /\ WithoutRepeats(s) = g[1 .. n]
               /\ g[1 .. 0] = <<>>
               /\ \A k \in Nat : k + 1 <= n =>
                    g[1 .. k + 1] = OneMore(g[1 .. k], s[k + 1])
  BY <1>3, RepeatsUnfold
<1>5. PICK h : /\ WithoutRepeats(t) = h[1 .. n + 1]
               /\ h[1 .. 0] = <<>>
               /\ \A k \in Nat : k + 1 <= n + 1 =>
                    h[1 .. k + 1] = OneMore(h[1 .. k], t[k + 1])
  BY <1>3, RepeatsUnfold
<1> DEFINE S == {m \in Nat : m <= n => h[1 .. m] = g[1 .. m]}
<1>6. 0 \in S
  BY <1>4, <1>5
<1>7. ASSUME NEW m \in Nat, m \in S PROVE m + 1 \in S
  <2> SUFFICES ASSUME m + 1 <= n PROVE h[1 .. m + 1] = g[1 .. m + 1]
    OBVIOUS
  <2>1. h[1 .. m] = g[1 .. m] /\ m + 1 <= n + 1 /\ t[m + 1] = s[m + 1]
    BY <1>3, <1>7
  <2> QED
    BY <1>4, <1>5, <2>1
<1>8. h[1 .. n] = g[1 .. n]
  <2> HIDE DEF S
  <2>1. n \in S
    BY <1>6, <1>7, SetInduction
  <2> QED
    BY <2>1 DEF S
<1>9. h[1 .. n + 1] = OneMore(h[1 .. n], x)
  BY <1>3, <1>5
<1> QED
  BY <1>2, <1>4, <1>5, <1>8, <1>9

LEMMA RepeatsOfNone ==
  /\ IsList(<<>>) /\ WithoutRepeats(<<>>) = <<>>
<1>1. DOMAIN <<>> = 1 .. 0
  OBVIOUS
<1>2. WithoutRepeats(<<>>) = <<>>
  BY <1>1, RepeatsUnfold
<1>3. <<>> \in Seq({})
  OBVIOUS
<1> QED
  BY <1>2, <1>3 DEF IsList

LEMMA RepeatsOfOne ==
  ASSUME NEW x
  PROVE  IsList(<<x>>) /\ WithoutRepeats(<<x>>) = <<x>>
<1>1. <<x>> = Append(<<>>, x)
  OBVIOUS
<1>2. WithoutRepeats(<<x>>) = OneMore(<<>>, x)
  BY <1>1, RepeatsAppended, RepeatsOfNone
<1>3. OneMore(<<>>, x) = <<x>>
  BY <1>1 DEF OneMore
<1>4. <<x>> \in Seq({x})
  OBVIOUS
<1> QED
  BY <1>2, <1>3, <1>4 DEF IsList

-----------------------------------------------------------------------------
(* The canvas, one frame at a time.                                        *)

LEMMA CanvasUnfolds ==
  ASSUME NEW n \in Nat, DOMAIN frame_info = 1 .. n
  PROVE  \A i \in 1 .. n :
           Canvas[i] = IF i = 1 THEN Blank ELSE LeftBehind(i - 1, Canvas[i - 1])
<1> DEFINE Body(f, i) == IF i = 1 THEN Blank ELSE LeftBehind(i - 1, f[i - 1])
           canvas == CHOOSE f : f = [i \in DOMAIN frame_info |-> Body(f, i)]
<1>1. Canvas = canvas
  BY DEF Canvas
<1> DEFINE T == {m \in Nat : \E h : h = [i \in 1 .. m |-> Body(h, i)]}
<1>2. 0 \in T
  <2> DEFINE h == [i \in 1 .. 0 |-> <<>>]
  <2>1. h = [i \in 1 .. 0 |-> Body(h, i)]
    <3>1. \A i \in 1 .. 0 : FALSE
      OBVIOUS
    <3> QED
      BY <3>1
  <2> HIDE DEF h, Body
  <2> QED
    BY <2>1
<1>3. ASSUME NEW m \in Nat, m \in T PROVE m + 1 \in T
  <2>1. PICK h : h = [i \in 1 .. m |-> Body(h, i)]
    BY <1>3
  <2> DEFINE j == [i \in 1 .. m + 1 |-> IF i = m + 1 THEN Body(h, i) ELSE h[i]]
  <2>2. ASSUME NEW i \in 1 .. m + 1 PROVE j[i] = Body(j, i)
    <3>1. CASE i = 1
      <4>1. i # m + 1 => h[i] = Blank
        BY <2>1, <3>1
      <4> QED
        BY <3>1, <4>1
    <3>2. CASE i # 1
      <4>1. PICK p : p = i - 1
        OBVIOUS
      <4>2. p \in 1 .. m + 1 /\ p # m + 1
        BY <3>2, <4>1
      <4>3. j[p] = h[p]
        BY <4>2
      <4>4. j[i] = LeftBehind(i - 1, h[p])
        <5>1. CASE i = m + 1
          BY <3>2, <4>1, <5>1
        <5>2. CASE i # m + 1
          <6>1. i \in 1 .. m
            BY <5>2
          <6>2. h[i] = LeftBehind(i - 1, h[p])
            BY <2>1, <3>2, <4>1, <6>1
          <6> QED
            BY <5>2, <6>2
        <5> QED
          BY <5>1, <5>2
      <4> HIDE DEF j
      <4> QED
        BY <3>2, <4>1, <4>3, <4>4
    <3> QED
      BY <3>1, <3>2
  <2>3. j = [i \in 1 .. m + 1 |-> Body(j, i)]
    <3> HIDE DEF Body
    <3>1. j = [i \in 1 .. m + 1 |-> j[i]]
      OBVIOUS
    <3> HIDE DEF j
    <3> QED
      BY <2>2, <3>1
  <2> HIDE DEF j, Body
  <2> QED
    BY <2>3
<1>4. PICK h : h = [i \in 1 .. n |-> Body(h, i)]
  <2>1. n \in T
    <3> HIDE DEF T
    <3> QED
      BY <1>2, <1>3, SetInduction
  <2> QED
    BY <2>1
<1>5. canvas = [i \in 1 .. n |-> Body(canvas, i)]
  <2> HIDE DEF Body
  <2> QED
    BY <1>4
<1> HIDE DEF canvas
<1>6. \A i \in 1 .. n : canvas[i] = Body(canvas, i)
  <2> HIDE DEF Body
  <2> QED
    BY <1>5
<1> QED
  BY <1>1, <1>6

Shown(i) == DrawnOn(i, Canvas[i])

(* What is shown stays the same while more arrives and is parsed.          *)
LEMMA FramesTyped ==
  ASSUME ParserInv
  PROVE  /\ Len(frame_info) \in Nat /\ DOMAIN frame_info = 1 .. Len(frame_info)
         /\ \A i \in DOMAIN frame_info :
              /\ frame_info[i] \in FrameInfo
              /\ frame_info[i].start_offset \in Nat
              /\ frame_info[i].byte_length \in Nat
              /\ frame_info[i].frame_rect.y \in Nat
              /\ frame_info[i].frame_rect.height \in Nat
         /\ ihdr.height \in Nat
<1>1. frame_info \in Seq(FrameInfo) /\ ihdr.height \in Nat
  BY DEF ParserInv, IInv, TypeOK, RecordsOK
<1>2. \A i \in DOMAIN frame_info : frame_info[i] \in FrameInfo
  BY <1>1
<1>3. Len(frame_info) \in Nat /\ DOMAIN frame_info = 1 .. Len(frame_info)
  BY <1>1
<1>4. ASSUME NEW i \in DOMAIN frame_info
      PROVE  /\ frame_info[i].start_offset \in Nat
             /\ frame_info[i].byte_length \in Nat
             /\ frame_info[i].frame_rect.y \in Nat
             /\ frame_info[i].frame_rect.height \in Nat
  BY <1>2 DEF FrameInfo, Rect
<1> QED
  BY <1>1, <1>2, <1>3, <1>4

LEMMA RowDataStays ==
  ASSUME UNCHANGED <<file, is_animated, idat_offset>>,
         NEW i, SameFrame(frame_info[i], frame_info'[i]), NEW row
  PROVE  RowData(i, row)' = RowData(i, row)
<1>1. OwnData(i)' = OwnData(i)
  BY OwnDataStays DEF SameFrame
<1>2. InOrder(OwnData(i))' = InOrder(OwnData(i))
  BY <1>1
<1> QED
  BY <1>2 DEF RowData, SameFrame

LEMMA DrawnStays ==
  ASSUME UNCHANGED <<file, is_animated, idat_offset, ihdr>>,
         NEW i, SameFrame(frame_info[i], frame_info'[i])
  PROVE  /\ \A y : InRect(i, y)' = InRect(i, y)
         /\ Blends(i)' = Blends(i)
         /\ \A row : RowData(i, row)' = RowData(i, row)
         /\ \A canvas : DrawnOn(i, canvas)' = DrawnOn(i, canvas)
         /\ \A canvas : LeftBehind(i, canvas)' = LeftBehind(i, canvas)
<1>1. \A y : InRect(i, y)' = InRect(i, y)
  BY DEF InRect, SameFrame
<1>2. Blends(i)' = Blends(i)
  BY DEF Blends, SameFrame
<1>3. \A row : RowData(i, row)' = RowData(i, row)
  BY RowDataStays
<1>4. \A y : frame_info'[i].frame_rect.y = frame_info[i].frame_rect.y
  BY DEF SameFrame
<1>5. ASSUME NEW canvas PROVE DrawnOn(i, canvas)' = DrawnOn(i, canvas)
  BY <1>1, <1>2, <1>3, <1>4 DEF DrawnOn
<1>6. ASSUME NEW canvas PROVE LeftBehind(i, canvas)' = LeftBehind(i, canvas)
  BY <1>1, <1>5 DEF LeftBehind, SameFrame
<1> QED
  BY <1>1, <1>2, <1>3, <1>5, <1>6

CanvasFollows ==
  \A n \in Nat : DOMAIN frame_info = 1 .. n =>
    \A i \in 1 .. n :
      /\ i = 1 => Canvas[i] = Blank
      /\ i # 1 => \A c : c = Canvas[i - 1] => Canvas[i] = LeftBehind(i - 1, c)

LEMMA CanvasIsFollowed == CanvasFollows
BY CanvasUnfolds DEF CanvasFollows

LEMMA CanvasIsFollowedNext == CanvasFollows'
BY CanvasIsFollowed, PTL

LEMMA PictureStays ==
  ASSUME ParserInv, ParserInv', ParserKept
  PROVE  \A k \in DOMAIN frame_info :
           /\ k \in DOMAIN frame_info'
           /\ SameFrame(frame_info[k], frame_info'[k])
           /\ UNCHANGED SizeVars
           /\ Canvas[k]' = Canvas[k]
           /\ Shown(k)' = Shown(k)
           /\ Blends(k)' = Blends(k)
           /\ \A y : InRect(k, y)' = InRect(k, y)
           /\ \A row : RowData(k, row)' = RowData(k, row)
<1> SUFFICES ASSUME frame_info # <<>>
             PROVE  \A k \in DOMAIN frame_info :
                      /\ k \in DOMAIN frame_info'
                      /\ SameFrame(frame_info[k], frame_info'[k])
                      /\ UNCHANGED SizeVars
                      /\ Canvas[k]' = Canvas[k]
                      /\ Shown(k)' = Shown(k)
                      /\ Blends(k)' = Blends(k)
                      /\ \A y : InRect(k, y)' = InRect(k, y)
                      /\ \A row : RowData(k, row)' = RowData(k, row)
  <2>1. frame_info = <<>> => DOMAIN frame_info = {}
    OBVIOUS
  <2> QED
    BY <2>1
<1>1. UNCHANGED <<file, is_animated, idat_offset, ihdr>> /\ UNCHANGED SizeVars
  BY DEF ParserInv, RegisteredInv, ParserKept, SizeVars
<1>2. PICK n \in Nat : n = Len(frame_info) /\ DOMAIN frame_info = 1 .. n
  BY FramesTyped
<1>3. \A k \in 1 .. n : k \in DOMAIN frame_info'
                        /\ SameFrame(frame_info[k], frame_info'[k])
  BY <1>2 DEF ParserKept, FramesKept
<1>4. \A k \in 1 .. n :
        /\ \A y : InRect(k, y)' = InRect(k, y)
        /\ Blends(k)' = Blends(k)
        /\ \A row : RowData(k, row)' = RowData(k, row)
        /\ \A canvas : DrawnOn(k, canvas)' = DrawnOn(k, canvas)
        /\ \A canvas : LeftBehind(k, canvas)' = LeftBehind(k, canvas)
  BY <1>1, <1>3, DrawnStays
<1>5. PICK l \in Nat : DOMAIN frame_info' = 1 .. l
  <2>1. frame_info' \in Seq(FrameInfo)
    BY DEF ParserInv, IInv, TypeOK, RecordsOK
  <2>2. Len(frame_info') \in Nat /\ DOMAIN frame_info' = 1 .. Len(frame_info')
    BY <2>1
  <2> QED
    BY <2>2
<1>6. \A k \in 1 .. n :
        /\ k = 1 => Canvas[k] = Blank /\ Canvas[k]' = Blank'
        /\ k # 1 => \A c : c = Canvas[k - 1] => Canvas[k] = LeftBehind(k - 1, c)
        /\ k # 1 => \A c : c = Canvas[k - 1]'
                            => Canvas[k]' = LeftBehind(k - 1, c)'
  <2>1. CanvasFollows /\ CanvasFollows'
    BY CanvasIsFollowed, CanvasIsFollowedNext
  <2>2. \A k \in 1 .. n : k \in 1 .. l
    BY <1>3, <1>5
  <2> QED
    BY <1>2, <1>5, <2>1, <2>2 DEF CanvasFollows
<1> DEFINE S == {m \in Nat : \A k \in 1 .. n : k <= m => Canvas[k]' = Canvas[k]}
<1>7. 0 \in S
  OBVIOUS
<1>8. ASSUME NEW m \in Nat, m \in S PROVE m + 1 \in S
  <2> SUFFICES ASSUME NEW k \in 1 .. n, k <= m + 1 PROVE Canvas[k]' = Canvas[k]
    OBVIOUS
  <2>1. CASE k = 1
    <3>1. Blank' = Blank
      BY <1>1 DEF Blank
    <3> QED
      BY <1>6, <2>1, <3>1
  <2>2. CASE k # 1
    <3>1. PICK p : p = k - 1
      OBVIOUS
    <3>2. p \in 1 .. n /\ p <= m
      BY <2>2, <3>1
    <3>3. PICK c : c = Canvas[p]
      OBVIOUS
    <3>4. Canvas[p]' = c
      BY <1>8, <3>2, <3>3
    <3>5. LeftBehind(p, c)' = LeftBehind(p, c)
      BY <1>4, <3>2
    <3>6. Canvas[k] = LeftBehind(p, c)
      BY <1>6, <2>2, <3>1, <3>3
    <3>7. Canvas[k]' = LeftBehind(p, c)'
      BY <1>6, <2>2, <3>1, <3>4
    <3> QED
      BY <3>5, <3>6, <3>7
  <2> QED
    BY <2>1, <2>2
<1>9. \A k \in 1 .. n : Canvas[k]' = Canvas[k]
  <2> HIDE DEF S
  <2>1. n \in S
    BY <1>7, <1>8, SetInduction
  <2> QED
    BY <2>1 DEF S
<1> QED
  BY <1>1, <1>2, <1>3, <1>4, <1>9 DEF Shown

-----------------------------------------------------------------------------
(* The data of a frame is its own.                                         *)

LEMMA InOrderFrom ==
  ASSUME NEW D, IsBounded(D)
  PROVE  \A k \in 1 .. Len(InOrder(D)) : InOrder(D)[k] \in D
<1> DEFINE Good(E) == \A k \in 1 .. Len(InOrder(E)) : InOrder(E)[k] \in E
           S == {k \in Nat : \A E \in SUBSET (0 .. k - 1) : Good(E)}
<1>1. 0 \in S
  <2>1. ASSUME NEW E \in SUBSET (0 .. 0 - 1) PROVE Good(E)
    <3>1. \A s : s \subseteq 0 .. 0 - 1 => s = {}
      OBVIOUS
    <3>2. E = {} /\ InOrder(E) = <<>>
      BY <3>1, NothingInOrder
    <3> QED
      BY <3>2
  <2> QED
    BY <2>1
<1>2. ASSUME NEW m \in Nat, m \in S PROVE m + 1 \in S
  <2>1. ASSUME NEW E \in SUBSET (0 .. (m + 1) - 1) PROVE Good(E)
    <3>1. CASE E = {}
      BY <3>1, NothingInOrder
    <3>2. CASE E # {}
      <4>1. IsBounded(E)
        <5>1. E \subseteq 0 .. m
          OBVIOUS
        <5> QED
          BY <5>1 DEF IsBounded
      <4>2. PICK x : x = Max(E)
        OBVIOUS
      <4>3. PICK R : R = E \ {x}
        OBVIOUS
      <4>4. /\ x \in E /\ x \in Nat /\ \A y \in E : y \in Nat /\ y <= x
            /\ IsBounded(R)
            /\ InOrder(E) = Append(InOrder(R), x)
        BY <3>2, <4>1, <4>2, <4>3, LastInOrder
      <4>5. R \in SUBSET (0 .. m - 1)
        <5>1. \A y \in R : y \in Nat /\ y <= x /\ y # x /\ x \in 0 .. m
          BY <4>3, <4>4
        <5> QED
          BY <5>1
      <4>6. PICK u : u = InOrder(R)
        OBVIOUS
      <4>7. u \in Seq(Nat) /\ \A k \in 1 .. Len(u) : u[k] \in E
        <5>1. Good(R)
          <6> HIDE DEF Good
          <6> QED
            BY <1>2, <4>5
        <5>2. \A k \in 1 .. Len(u) : u[k] \in R
          BY <4>6, <5>1
        <5> QED
          BY <4>3, <4>4, <4>6, <5>2, InOrderTyped
      <4>8. \A k \in 1 .. Len(Append(u, x)) : Append(u, x)[k] \in E
        BY <4>4, <4>7
      <4> QED
        BY <4>4, <4>6, <4>8
    <3> QED
      BY <3>1, <3>2
  <2> HIDE DEF Good
  <2> QED
    BY <2>1
<1>3. PICK n \in Nat : D \subseteq 0 .. n
  BY DEF IsBounded
<1>4. n + 1 \in S
  <2> HIDE DEF S
  <2> QED
    BY <1>1, <1>2, SetInduction
<1>5. D \in SUBSET (0 .. (n + 1) - 1)
  BY <1>3
<1>6. Good(D)
  <2> HIDE DEF Good
  <2> QED
    BY <1>4, <1>5
<1> QED
  BY <1>6

(* A frame's data ends before the next frame begins.                       *)
LEMMA OwnDataApart ==
  ASSUME DecoderInv, NEW k \in DOMAIN frame_info, k + 1 \in DOMAIN frame_info
  PROVE  /\ is_animated
         /\ frame_info[k].start_offset <= frame_info[k + 1].start_offset
         /\ \A b \in OwnData(k) : b < frame_info[k + 1].start_offset
<1>1. /\ ParserInv /\ RegisteredInv /\ ReaderInv /\ IsFile(file)
      /\ file \in Files
  BY DEF DecoderInv, ParserInv, IInv, TypeOK, InputOK, DataInv, FileInv
<1>2. /\ Len(frame_info) \in Nat /\ DOMAIN frame_info = 1 .. Len(frame_info)
      /\ \A i \in DOMAIN frame_info :
           /\ frame_info[i].start_offset \in Nat
           /\ frame_info[i].byte_length \in Nat
  BY <1>1, FramesTyped
<1>3. PICK i : i = k + 1
  OBVIOUS
<1>4. k \in Nat /\ k >= 1 /\ i \in DOMAIN frame_info /\ k < i
      /\ Len(frame_info) > 1
  BY <1>2, <1>3
<1>5. is_animated
  <2>1. frame_info # <<>>
    BY <1>4
  <2> QED
    BY <1>1, <1>4, <2>1 DEF RegisteredInv
<1>6. frame_info[k].byte_length # kFirstFrameIndicator
  <2>1. CASE k = 1
    <3>1. FirstFrameIsOpen => Len(frame_info) = 1
      BY <1>1, <1>5 DEF ReaderInv, ConstructionInv
    <3> QED
      BY <1>4, <2>1, <3>1 DEF FirstFrameIsOpen
  <2>2. CASE k > 1
    BY <1>1, <2>2 DEF ReaderInv, LaterFramesClosed
  <2> QED
    BY <1>4, <2>1, <2>2
<1>7. PICK s, l, t, end : /\ s = frame_info[k].start_offset
                          /\ l = frame_info[k].byte_length
                          /\ t = frame_info[i].start_offset
                          /\ end = s + l
  OBVIOUS
<1>8. s \in Nat /\ l \in Nat /\ t \in Nat /\ end \in Nat /\ end = s + l
  BY <1>2, <1>4, <1>7
<1>9. end <= t
  BY <1>1, <1>4, <1>6, <1>7 DEF ReaderInv, ClosedInv
<1>10. end \in DOMAIN file.chunk /\ EndsFrame(end)
  BY <1>1, <1>5, <1>6, <1>7 DEF RegisteredInv, Ended
<1>11. ASSUME NEW b \in OwnData(k) PROVE b < t
  <2>1. PICK o \in OwnChunks(k) : o \in DOMAIN file.chunk /\ b \in Payload(o)
    BY OwnDataTyped
  <2>2. o \in Nat /\ file.chunk[o].length \in Nat /\ b \in Nat
    BY <1>1, <2>1, OwnDataTyped DEF IsFile, Chunk
  <2>3. b < o + 12 + file.chunk[o].length
    BY <1>1, <2>1, PayloadBounded
  <2>4. o < end
    <3> SUFFICES ASSUME end <= o PROVE FALSE
      BY <1>8, <2>2
    <3>1. file.chunk[end].type \notin {"fcTL", "IEND"}
      BY <1>5, <1>7, <1>8, <1>10, <2>1 DEF OwnChunks
    <3> QED
      BY <1>10, <3>1 DEF EndsFrame
  <2>5. o + 12 + file.chunk[o].length <= end
    BY <1>1, <1>10, <2>1, <2>4, ChunksAssumption
  <2> QED
    BY <1>8, <1>9, <2>2, <2>3, <2>5
<1> QED
  BY <1>3, <1>5, <1>7, <1>8, <1>9, <1>11

(* A row is made of the frame's own data.                                  *)
LEMMA RowDataOwn ==
  ASSUME DecoderInv, NEW i \in DOMAIN frame_info, NEW row
  PROVE  RowData(i, row) \subseteq OwnData(i)
<1>1. PICK data : data = InOrder(OwnData(i))
  OBVIOUS
<1>2. PICK h, c : /\ h = frame_info[i].frame_rect.height
                  /\ c = IF file.interlaced THEN Passes ELSE 1
  OBVIOUS
<1>3. \A k \in 1 .. Len(data) : data[k] \in OwnData(i)
  BY <1>1, OwnDataBounded, InOrderFrom
<1>4. RowData(i, row) = {data[k] : k \in {n \in 1 .. h * c :
                           n <= Len(data) /\ (n - 1) % h = row - 1}}
  BY <1>1, <1>2 DEF RowData
<1>5. Len(data) \in Nat
  BY <1>1, OwnDataBounded, InOrderTyped
<1>6. ASSUME NEW n \in 1 .. h * c, n <= Len(data) PROVE n \in 1 .. Len(data)
  <2>1. n \in Int /\ 1 <= n
    OBVIOUS
  <2> QED
    BY <1>5, <1>6, <2>1
<1> QED
  BY <1>3, <1>4, <1>6

(* A canvas is made of data in front of the frame that is drawn on it.     *)
Before(i) == {b \in Nat : b < frame_info[i].start_offset}
Layers(X) == [1 .. ihdr.height -> Seq(SUBSET X)]

LEMMA MoreLayers ==
  ASSUME NEW X, NEW Y, X \subseteq Y, NEW c \in Layers(X)
  PROVE  c \in Layers(Y)
<1>1. ASSUME NEW s \in Seq(SUBSET X) PROVE s \in Seq(SUBSET Y)
  <2>1. SUBSET X \subseteq SUBSET Y
    OBVIOUS
  <2>2. PICK P, Q : P = SUBSET X /\ Q = SUBSET Y
    OBVIOUS
  <2>3. P \subseteq Q /\ s \in Seq(P)
    BY <2>1, <2>2
  <2>4. s \in Seq(Q)
    BY <2>3
  <2> QED
    BY <2>2, <2>4
<1> QED
  BY <1>1 DEF Layers

LEMMA DrawnTyped ==
  ASSUME NEW X, NEW c \in Layers(X), NEW i,
         \A row : RowData(i, row) \subseteq X
  PROVE  DrawnOn(i, c) \in Layers(X) /\ LeftBehind(i, c) \in Layers(X)
<1>1. PICK P : P = SUBSET X
  OBVIOUS
<1>2. \A y \in 1 .. ihdr.height : c[y] \in Seq(P)
  BY <1>1 DEF Layers
<1>3. ASSUME NEW y \in 1 .. ihdr.height
      PROVE  DrawnOn(i, c)[y] \in Seq(P)
  <2>1. PICK own, s : own = RowData(i, y - frame_info[i].frame_rect.y) /\ s = c[y]
    OBVIOUS
  <2>2. own \in P /\ s \in Seq(P)
    BY <1>1, <1>2, <2>1
  <2>3. <<own>> \in Seq(P) /\ Append(s, own) \in Seq(P)
    BY <2>2
  <2>4. DrawnOn(i, c)[y] \in {s, <<own>>, Append(s, own)}
    BY <2>1 DEF DrawnOn
  <2> QED
    BY <2>2, <2>3, <2>4
<1>4. DrawnOn(i, c) \in [1 .. ihdr.height -> Seq(P)]
  <2>1. DrawnOn(i, c) = [y \in 1 .. ihdr.height |-> DrawnOn(i, c)[y]]
    BY DEF DrawnOn
  <2> QED
    BY <1>3, <2>1
<1>5. LeftBehind(i, c) \in [1 .. ihdr.height -> Seq(P)]
  <2>1. [y \in 1 .. ihdr.height |-> IF InRect(i, y) THEN <<>> ELSE c[y]]
          \in [1 .. ihdr.height -> Seq(P)]
    <3>1. <<>> \in Seq(P)
      OBVIOUS
    <3> QED
      BY <1>2, <3>1
  <2>2. c \in [1 .. ihdr.height -> Seq(P)]
    BY <1>1 DEF Layers
  <2> QED
    BY <1>4, <2>1, <2>2 DEF LeftBehind
<1> QED
  BY <1>1, <1>4, <1>5 DEF Layers

LEMMA BlankTyped ==
  ASSUME NEW X
  PROVE  Blank \in Layers(X) /\ \A y \in 1 .. ihdr.height : Blank[y] = <<>>
<1>1. <<>> \in Seq(SUBSET X)
  OBVIOUS
<1> QED
  BY <1>1 DEF Blank, Layers

LEMMA CanvasTyped ==
  ASSUME DecoderInv
  PROVE  \A i \in DOMAIN frame_info : Canvas[i] \in Layers(Before(i))
<1>1. PICK n \in Nat : DOMAIN frame_info = 1 .. n /\ n = Len(frame_info)
  BY FramesTyped DEF DecoderInv
<1>2. \A i \in 1 .. n :
        Canvas[i] = IF i = 1 THEN Blank ELSE LeftBehind(i - 1, Canvas[i - 1])
  BY <1>1, CanvasUnfolds
<1> DEFINE S == {m \in Nat : \A i \in 1 .. n :
                               i <= m => Canvas[i] \in Layers(Before(i))}
<1>3. 0 \in S
  OBVIOUS
<1>4. ASSUME NEW m \in Nat, m \in S PROVE m + 1 \in S
  <2> SUFFICES ASSUME NEW i \in 1 .. n, i <= m + 1
               PROVE  Canvas[i] \in Layers(Before(i))
    OBVIOUS
  <2>1. CASE i = 1
    BY <1>2, <2>1, BlankTyped
  <2>2. CASE i # 1
    <3>1. PICK p : p = i - 1
      OBVIOUS
    <3>2. p \in 1 .. n /\ p <= m /\ p + 1 = i
      BY <2>2, <3>1
    <3>3. PICK c : c = Canvas[p]
      OBVIOUS
    <3>4. c \in Layers(Before(p))
      BY <1>4, <3>2, <3>3
    <3>5. /\ frame_info[p].start_offset <= frame_info[i].start_offset
          /\ \A b \in OwnData(p) : b < frame_info[i].start_offset
      BY <1>1, <3>2, OwnDataApart
    <3>6. /\ frame_info[p].start_offset \in Nat
          /\ frame_info[i].start_offset \in Nat
      BY <1>1, <3>2, FramesTyped DEF DecoderInv
    <3>7. Before(p) \subseteq Before(i)
      BY <3>5, <3>6 DEF Before
    <3>8. \A row : RowData(p, row) \subseteq Before(i)
      <4>1. \A b \in OwnData(p) : b \in Before(i)
        BY <3>5, OwnDataTyped DEF Before
      <4>2. \A row : RowData(p, row) \subseteq OwnData(p)
        BY <1>1, <3>2, RowDataOwn
      <4> QED
        BY <4>1, <4>2
    <3>9. c \in Layers(Before(i))
      BY <3>4, <3>7, MoreLayers
    <3>10. LeftBehind(p, c) \in Layers(Before(i))
      BY <3>8, <3>9, DrawnTyped
    <3> QED
      BY <1>2, <2>2, <3>1, <3>3, <3>10
  <2> QED
    BY <2>1, <2>2
<1>5. n \in S
  <2> HIDE DEF S
  <2> QED
    BY <1>3, <1>4, SetInduction
<1> QED
  BY <1>1, <1>5

-----------------------------------------------------------------------------
(* The rows that data makes.                                               *)

Height(f) == frame_info[f].frame_rect.height
InPlace(n, h, row) == (n - 1) % h = row - 1
Layer(f, data, row) ==
  {data[k] : k \in {n \in 1 .. Len(data) : /\ n <= RowCount(Height(f))
                                           /\ InPlace(n, Height(f), row)}}

LEMMA Remainders ==
  ASSUME NEW h \in Nat
  PROVE  /\ \A n \in 1 .. h, row \in 1 .. h : InPlace(n, h, row) <=> n = row
         /\ h > 0 => \A n \in Nat : n % h \in 0 .. h - 1
<1>1. ASSUME NEW n \in 1 .. h, NEW row \in 1 .. h
      PROVE  InPlace(n, h, row) <=> n = row
  <2>1. PICK a : a = n - 1
    OBVIOUS
  <2>2. a \in 0 .. h - 1
    BY <2>1
  <2>3. a % h = a
    BY <2>2
  <2> QED
    BY <2>1, <2>3 DEF InPlace
<1>2. ASSUME h > 0, NEW n \in Nat PROVE n % h \in 0 .. h - 1
  BY <1>2
<1> QED
  BY <1>1, <1>2

LEMMA RowCountTyped ==
  ASSUME FileInv, NEW h \in Nat
  PROVE  /\ RowCount(h) \in Nat
         /\ h <= RowCount(h)
         /\ h = 0 => RowCount(h) = 0
         /\ ~file.interlaced => RowCount(h) = h
<1>1. Passes \in Nat \ {0} /\ file.interlaced \in BOOLEAN
  BY DecoderAssumption DEF FileInv
<1>2. PICK p \in Nat \ {0} : p = IF file.interlaced THEN Passes ELSE 1
  BY <1>1
<1>3. RowCount(h) = h * p
  BY <1>2 DEF RowCount
<1>4. h * p \in Nat /\ h <= h * p /\ (h = 0 => h * p = 0)
  BY <1>2
<1>5. ~file.interlaced => h * p = h
  BY <1>2
<1> QED
  BY <1>3, <1>4, <1>5

LEMMA NoLayer ==
  ASSUME NEW f, NEW row
  PROVE  Layer(f, <<>>, row) = {}
<1>1. \A n \in 1 .. Len(<<>>) : FALSE
  OBVIOUS
<1> QED
  BY <1>1 DEF Layer

(* Row number n of all passes is one of the rows of a pass.                *)
Makes(f, n, row) == n <= RowCount(Height(f)) /\ InPlace(n, Height(f), row)

LEMMA LayerAppended ==
  ASSUME NEW f, NEW data \in Seq(Nat), NEW byte \in Nat
  PROVE  \A row :
           LET n == Len(data) + 1
               new == Append(data, byte)
           IN /\ Makes(f, n, row)
                   => Layer(f, new, row) = Layer(f, data, row) \cup {byte}
              /\ ~Makes(f, n, row) => Layer(f, new, row) = Layer(f, data, row)
<1> TAKE row
<1>1. PICK n : n \in Nat /\ n = Len(data)
  OBVIOUS
<1>2. PICK new : n = Len(data) /\ new = Append(data, byte)
  BY <1>1
<1>3. /\ new \in Seq(Nat) /\ Len(new) = n + 1 /\ new[n + 1] = byte
      /\ \A k \in 1 .. n : new[k] = data[k]
  BY <1>2
<1> DEFINE In(k) == Makes(f, k, row)
<1>4. /\ Layer(f, data, row) = {data[k] : k \in {m \in 1 .. n : In(m)}}
      /\ Layer(f, new, row) = {new[k] : k \in {m \in 1 .. n + 1 : In(m)}}
  BY <1>2, <1>3 DEF Layer, Makes
<1>5. \A k : k \in 1 .. n + 1 <=> k \in 1 .. n \/ k = n + 1
  BY <1>1
<1> HIDE DEF In
<1>6. In(n + 1) => Layer(f, new, row) = Layer(f, data, row) \cup {byte}
  BY <1>3, <1>4, <1>5
<1>7. ~In(n + 1) => Layer(f, new, row) = Layer(f, data, row)
  BY <1>3, <1>4, <1>5
<1> QED
  BY <1>2, <1>6, <1>7 DEF In

(* Data behind the last row makes no row.                                  *)
LEMMA LayersDone ==
  ASSUME NEW f, NEW c \in Nat, c = RowCount(Height(f)),
         NEW data, NEW whole, NEW n \in Nat, n = Len(data),
         NEW l \in Nat, l = Len(whole), c <= n, n <= l,
         \A k \in 1 .. n : whole[k] = data[k]
  PROVE  \A row : Layer(f, whole, row) = Layer(f, data, row)
<1> SUFFICES ASSUME NEW row
             PROVE  Layer(f, whole, row) = Layer(f, data, row)
  OBVIOUS
<1>1. PICK h : c = RowCount(Height(f)) /\ h = Height(f)
  OBVIOUS
<1> DEFINE In(k) == k <= c /\ InPlace(k, h, row)
<1>2. /\ Layer(f, data, row) = {data[k] : k \in {j \in 1 .. n : In(j)}}
      /\ Layer(f, whole, row) = {whole[k] : k \in {j \in 1 .. l : In(j)}}
  BY <1>1 DEF Layer
<1>3. \A k : k \in 1 .. l /\ In(k) <=> k \in 1 .. n /\ In(k)
  OBVIOUS
<1> HIDE DEF In
<1> QED
  BY <1>2, <1>3

LEMMA LayerThere ==
  ASSUME FileInv, NEW f, Height(f) \in Nat, NEW data \in Seq(Nat),
         Len(data) >= RowCount(Height(f)), NEW row \in 1 .. Height(f)
  PROVE  Layer(f, data, row) # {}
<1>1. PICK h \in Nat : h = Height(f)
  OBVIOUS
<1>2. PICK c \in Nat : c = RowCount(h) /\ h <= c
  BY RowCountTyped
<1>3. PICK n \in Nat : n = Len(data) /\ n >= c
  BY <1>1, <1>2
<1>4. row \in 1 .. h /\ InPlace(row, h, row)
  BY <1>1, Remainders
<1>5. row \in 1 .. n /\ row <= c
  BY <1>3, <1>2, <1>4
<1>6. data[row] \in Layer(f, data, row)
  BY <1>1, <1>3, <1>5, <1>2, <1>4 DEF Layer
<1> QED
  BY <1>6

(* What the file has for a row.                                            *)
LEMMA RowDataIs ==
  ASSUME DecoderInv, NEW f \in DOMAIN frame_info, NEW row
  PROVE  RowData(f, row) = Layer(f, InOrder(OwnData(f)), row)
<1>1. PICK data : data = InOrder(OwnData(f))
  OBVIOUS
<1>2. PICK h \in Nat, c \in Nat : h = Height(f) /\ c = RowCount(h)
  BY FramesTyped, RowCountTyped
     DEF DecoderInv, ParserInv, DataInv, Height
<1>3. PICK n \in Nat : n = Len(data)
  BY <1>1, OwnDataBounded, InOrderTyped
<1>4. RowData(f, row) = {data[k] : k \in {j \in 1 .. c :
                           j <= n /\ InPlace(j, h, row)}}
  BY <1>1, <1>2, <1>3 DEF RowData, RowCount, Height, InPlace
<1>5. Layer(f, data, row) = {data[k] : k \in {j \in 1 .. n :
                               j <= c /\ InPlace(j, h, row)}}
  BY <1>1, <1>2, <1>3 DEF Layer
<1>6. \A j : j \in 1 .. c /\ j <= n <=> j \in 1 .. n /\ j <= c
  BY <1>2, <1>3
<1> QED
  BY <1>1, <1>4, <1>5, <1>6

(* It has all of it once libpng has been given as many bytes as there are  *)
(* rows.                                                                   *)
LEMMA LayersOwn ==
  ASSUME DecoderInv, NEW f \in DOMAIN frame_info, NEW m \in Nat, NEW row,
         NEW data, data = OwnDataBefore(f, m),
         Len(data) >= RowCount(Height(f))
  PROVE  Layer(f, data, row) = RowData(f, row)
<1>1. PICK D : D = OwnData(f)
  OBVIOUS
<1>2. IsBounded(D)
  BY <1>1, OwnDataBounded
<1>3. PICK B, N : B = Below(D, m) /\ N = NotBelow(D, m)
  OBVIOUS
<1>4. IsBounded(B) /\ IsBounded(N)
  BY <1>2, <1>3, SmallerIsBounded DEF Below, NotBelow
<1>5. PICK v : v = InOrder(N)
  OBVIOUS
<1>6. data = InOrder(B)
  BY <1>1, <1>3 DEF OwnDataBefore, Below
<1>7. InOrder(D) = data \o v
  BY <1>2, <1>3, <1>5, <1>6, OrderSplits
<1>8. data \in Seq(Nat) /\ v \in Seq(Nat)
  BY <1>4, <1>5, <1>6, InOrderTyped
<1>9. RowCount(Height(f)) \in Nat
  BY FramesTyped, RowCountTyped DEF DecoderInv, ParserInv, DataInv, Height
<1>10. PICK d, w : d = data /\ w = d \o v
  OBVIOUS
<1>11. Layer(f, w, row) = Layer(f, d, row)
  <2>1. PICK c \in Nat : c = RowCount(Height(f))
    BY <1>9
  <2>2. PICK n \in Nat, l \in Nat : n = Len(d) /\ l = Len(w)
    BY <1>8, <1>10
  <2>3. /\ c <= n /\ n <= l /\ n = Len(d) /\ l = Len(w)
        /\ \A k \in 1 .. n : w[k] = d[k]
    BY <1>8, <1>10, <2>1, <2>2
  <2> QED
    BY <2>1, <2>3, LayersDone
<1> QED
  BY <1>1, <1>7, <1>10, <1>11, RowDataIs

(* The next byte a frame has.                                              *)
LEMMA NextByte ==
  ASSUME DecoderInv, NEW f, NEW b \in OwnData(f)
  PROVE  /\ b \in Nat
         /\ OwnDataBefore(f, b) \in Seq(Nat)
         /\ OwnDataBefore(f, b + 1) = Append(OwnDataBefore(f, b), b)
<1>1. b \in Nat
  BY OwnDataTyped
<1>2. PICK E : E = {b}
  OBVIOUS
<1>3. \A x : x \in E <=> x \in OwnData(f) /\ b <= x /\ x < b + 1
  <2>1. \A x \in OwnData(f) : x \in Nat
    BY OwnDataTyped
  <2>2. ASSUME NEW x \in OwnData(f), b <= x, x < b + 1 PROVE x = b
    BY <1>1, <2>1, <2>2
  <2>3. b <= b /\ b < b + 1
    BY <1>1
  <2> QED
    BY <1>2, <2>2, <2>3
<1>4. /\ IsBounded(E)
      /\ OwnDataBefore(f, b + 1) = OwnDataBefore(f, b) \o InOrder(E)
  <2>1. PICK k : k = b + 1
    OBVIOUS
  <2>2. k \in Nat /\ b <= k
    BY <1>1, <2>1
  <2>3. \A x : x \in E <=> x \in OwnData(f) /\ b <= x /\ x < k
    BY <1>3, <2>1
  <2>4. OwnDataBefore(f, k) = OwnDataBefore(f, b) \o InOrder(E)
    BY <1>1, <2>2, <2>3, OwnDataFed
  <2>5. IsBounded(E)
    BY <1>1, <2>2, <2>3, OwnDataFed
  <2> QED
    BY <2>1, <2>4, <2>5
<1>5. InOrder(E) = <<b>>
  <2>1. Max(E) = b
    <3>1. b \in Int /\ E \subseteq Int /\ b \in E /\ \A x \in E : x <= b
      BY <1>1, <1>2
    <3> QED
      BY <3>1, MaxIs
  <2>2. PICK R : R = E \ {b}
    OBVIOUS
  <2>3. R = {} /\ E # {}
    BY <1>2, <2>2
  <2>4. InOrder(E) = Append(InOrder(R), b)
    BY <1>4, <2>1, <2>2, <2>3, LastInOrder
  <2>5. Append(<<>>, b) = <<b>>
    OBVIOUS
  <2> QED
    BY <2>3, <2>4, <2>5, NothingInOrder
<1>6. PICK d : d = OwnDataBefore(f, b)
  OBVIOUS
<1>7. d \in Seq(Nat)
  <2>1. PICK B : B = {x \in OwnData(f) : x < b}
    OBVIOUS
  <2>2. IsBounded(B)
    BY <2>1, OwnDataBounded, SmallerIsBounded
  <2> QED
    BY <1>6, <2>1, <2>2, InOrderTyped DEF OwnDataBefore
<1>8. d \o <<b>> = Append(d, b)
  BY <1>1, <1>7
<1> QED
  BY <1>1, <1>4, <1>5, <1>6, <1>7, <1>8

-----------------------------------------------------------------------------
(* Frames lie in the image, and images of half-floats have one frame.      *)

ControlsFit ==
  ~ignore_animation =>
    \A o \in Passed : IsControl(o) =>
      parsed_ihdr /\ FrameControlIsValid(file.chunk[o])

SingleInv ==
  /\ size_available => parsed_ihdr
  /\ ~size_available => repetition_count # kAnimationNone
  /\ size_available /\ is_animated /\ decode_to_half_float
       => reported_frame_count = 1
  /\ frame_info # <<>> /\ ~is_animated
       => frame_info[1].alpha_blend = "kBlendAtopBgcolor"

FitInv == ControlsFit /\ SingleInv

(* The chunk left behind is not an fcTL, or it is accepted.                *)
LEMMA ControlsPassed ==
  ASSUME IInv, DataInv, ControlsFit, LeavesChunk,
         ignore_animation => ignore_animation',
         parsed_ihdr => parsed_ihdr' /\ UNCHANGED ihdr,
         chunk.type = "fcTL" /\ ~ignore_animation' =>
           parsed_ihdr /\ FrameControlIsValid(chunk)
  PROVE  ControlsFit'
<1>1. /\ Passed' = Passed \cup {read_offset} /\ file' = file
      /\ chunk = file.chunk[read_offset]
  BY PassedGrows DEF LeavesChunk
<1> SUFFICES ASSUME ~ignore_animation', NEW o \in Passed', IsControl(o)'
             PROVE  parsed_ihdr' /\ FrameControlIsValid(file.chunk[o])'
  BY DEF ControlsFit
<1>2. file.chunk[o].type = "fcTL" /\ ~ignore_animation
  BY <1>1 DEF IsControl
<1>3. parsed_ihdr /\ FrameControlIsValid(file.chunk[o])
  <2>1. CASE o = read_offset
    BY <1>1, <1>2, <2>1
  <2>2. CASE o # read_offset
    <3>1. o \in Passed /\ IsControl(o)
      BY <1>1, <1>2, <2>2 DEF IsControl
    <3> QED
      BY <1>2, <3>1 DEF ControlsFit
  <2> QED
    BY <2>1, <2>2
<1> QED
  BY <1>1, <1>3 DEF FrameControlIsValid

LEMMA ControlsStay ==
  ASSUME ControlsFit, Stays, UNCHANGED <<parsed_ihdr, ihdr>>,
         ignore_animation => ignore_animation'
  PROVE  ControlsFit'
<1>1. Passed' = Passed /\ file' = file
  BY PassedStays DEF Stays
<1> QED
  BY <1>1 DEF ControlsFit, IsControl, FrameControlIsValid

LEMMA FitStep ==
  ASSUME ParserInv, FitInv, [Next]_vars \/ Fail
  PROVE  FitInv'
<1> USE DEF input, header, animated, control, decoder, frames
<1>1. IInv /\ DataInv /\ DepthInv /\ ControlsFit /\ SingleInv
  BY DEF ParserInv, FitInv
<1>2. CASE \/ Receive
           \/ \E q \in {"kSize", "kMetaData"} : BeginParse(q)
           \/ ImageIsHighBitDepth
           \/ Fail \/ SizeIsKnown \/ AwaitHeader \/ AwaitChunk
           \/ UNCHANGED vars
  <2>1. UNCHANGED <<file, read_offset, header, animated, frames,
                    size_available, repetition_count, decode_to_half_float>>
    <3>1. CASE ImageIsHighBitDepth
      BY <1>1, <3>1, DepthAsked
    <3>2. CASE ~ImageIsHighBitDepth
      BY <1>2, <3>2 DEF vars, Receive, BeginParse, Fail, SizeIsKnown,
                        AwaitHeader, AwaitChunk
    <3> QED
      BY <3>1, <3>2
  <2>2. ControlsFit'
    BY <1>1, <2>1, ControlsStay DEF Stays
  <2> QED
    BY <1>1, <2>1, <2>2 DEF FitInv, SingleInv
<1>3. CASE FinishSize
  <2>1. UNCHANGED <<file, read_offset, header, animated, decoder>>
    BY <1>3 DEF FinishSize
  <2>2. ControlsFit'
    BY <1>1, <2>1, ControlsStay DEF Stays
  <2>3. frame_info' # <<>> /\ ~is_animated'
          => frame_info'[1].alpha_blend = "kBlendAtopBgcolor"
    <3>1. CASE size_available /\ ~is_animated
      <4>1. frame_info = <<>>
        BY <1>1, <1>3, <3>1 DEF FinishSize, IInv, ReaderInv, CallInv
      <4> QED
        BY <1>3, <3>1, <4>1 DEF FinishSize
    <3>2. CASE ~(size_available /\ ~is_animated)
      BY <1>1, <1>3, <3>2, <2>1 DEF FinishSize, SingleInv
    <3> QED
      BY <3>1, <3>2
  <2> QED
    BY <1>1, <2>1, <2>2, <2>3 DEF FitInv, SingleInv
<1>4. CASE ParseSignature /\ ~Fail
  <2>1. /\ ~size_available /\ ~size_available' /\ ~parsed_signature
        /\ UNCHANGED <<file, frame_info, is_animated, repetition_count,
                       ignore_animation, parsed_ihdr, ihdr>>
        /\ read_offset' = SignatureEnd
    BY <1>4 DEF ParseSignature
  <2>2. Passed' = {}
    <3>1. \A o \in DOMAIN file.chunk : o \in Nat /\ o >= SignatureEnd
      BY <1>1 DEF IInv, TypeOK, InputOK, IsFile
    <3>2. SignatureEnd \in Nat
      BY ReaderAssumption DEF SignatureEnd
    <3> QED
      BY <2>1, <3>1, <3>2 DEF Passed
  <2> QED
    BY <1>1, <2>1, <2>2 DEF FitInv, ControlsFit, SingleInv
<1>5. CASE \/ HeaderAcTL \/ HeaderFcTL \/ HeaderFdAT
           \/ HeaderLibpngChunk \/ HeaderIgnored
  <2>1. /\ ~size_available /\ ~size_available' /\ LeavesChunk
        /\ UNCHANGED frame_info
        /\ pc = "size"
    BY <1>1, <1>5, HeaderIsHere
       DEF HeaderAcTL, HeaderFcTL, HeaderFdAT, HeaderLibpngChunk,
           HeaderIgnored, HeaderChunk, InHeader, LeavesChunk, IInv
  <2>2. frame_info = <<>> /\ chunk \in Chunk
    BY <1>1, <2>1, HeaderHasNoFrames, PassedGrows
  <2>3. repetition_count' # kAnimationNone
    <3>1. repetition_count' \in {repetition_count, chunk.actl.plays - 1}
      BY <1>5 DEF HeaderAcTL, HeaderFcTL, HeaderFdAT, HeaderLibpngChunk,
                  HeaderIgnored
    <3>2. chunk.actl.plays \in Nat
      BY <2>2 DEF Chunk
    <3> QED
      BY <1>1, <2>1, <3>1, <3>2 DEF SingleInv, kAnimationNone
  <2>4. ignore_animation => ignore_animation'
    BY <1>5 DEF HeaderAcTL, HeaderFcTL, HeaderFdAT, HeaderLibpngChunk,
                HeaderIgnored
  <2>5. parsed_ihdr => parsed_ihdr' /\ UNCHANGED ihdr
    BY <1>5 DEF HeaderAcTL, HeaderFcTL, HeaderFdAT, HeaderLibpngChunk,
                HeaderIgnored, LibpngAccepts
  <2>6. ASSUME chunk.type = "fcTL", ~ignore_animation'
        PROVE  parsed_ihdr /\ FrameControlIsValid(chunk)
    <3>1. HeaderFcTL
      BY <1>5, <2>6 DEF HeaderAcTL, HeaderFdAT, HeaderLibpngChunk,
         HeaderIgnored, HeaderChunk, HandedToLibpng
    <3>2. FctlIsReadable /\ AcceptsFrame(chunk)
      BY <2>6, <3>1 DEF HeaderFcTL
    <3> QED
      BY <3>2 DEF FctlIsReadable, AcceptsFrame
  <2>7. ControlsFit'
    BY <1>1, <2>1, <2>4, <2>5, <2>6, ControlsPassed
  <2> QED
    BY <2>1, <2>2, <2>3, <2>7 DEF FitInv, SingleInv
<1>6. CASE HeaderIDAT
  <2>1. /\ ~size_available /\ parsed_ihdr /\ pc = "size"
        /\ UNCHANGED <<file, read_offset, parsed_ihdr, ihdr, frame_info,
                       ignore_animation, reported_frame_count>>
        /\ repetition_count' = IF ~is_animated' \/ reported_frame_count = 1
                                 THEN kAnimationNone ELSE repetition_count
        /\ SetBitDepth(repetition_count')
        /\ size_available' = TRUE
    BY <1>6 DEF HeaderIDAT, InHeader
  <2>2. ControlsFit'
    BY <1>1, <2>1, ControlsStay DEF Stays
  <2>3. frame_info = <<>>
    BY <1>1, <2>1, HeaderHasNoFrames
  <2>4. decode_to_half_float' => repetition_count' = kAnimationNone
    <3>1. Next
      BY <1>6 DEF Next, ParseSize
    <3>2. DepthInv'
      BY <1>1, <3>1, DepthStep
    <3> QED
      BY <3>2 DEF DepthInv, HalfFloatOnlyForOneImage
  <2>5. repetition_count # kAnimationNone
    BY <1>1, <2>1 DEF SingleInv
  <2> QED
    BY <2>1, <2>2, <2>3, <2>4, <2>5 DEF FitInv, SingleInv
<1>7. CASE \/ FrameData \/ AwaitSequenceNumber \/ SkipChunk
           \/ AwaitFrameEnd \/ EndOfImage \/ NextFrame
  <2>1. /\ InMetadata /\ size_available /\ is_animated
        /\ UNCHANGED <<file, parsed_ihdr, ihdr, ignore_animation,
                       parsed_signature, animated, decoder>>
    <3>1. InMetadata /\ UNCHANGED <<header, animated, decoder, file>>
      BY <1>7 DEF FrameData, AwaitSequenceNumber, SkipChunk, AwaitFrameEnd,
                  EndOfImage, NextFrame
    <3> QED
      BY <1>1, <3>1, InMetadataData
  <2>2. SingleInv'
    BY <1>1, <2>1 DEF SingleInv
  <2>3. CASE UNCHANGED read_offset
    BY <1>1, <2>1, <2>2, <2>3, ControlsStay DEF Stays, FitInv
  <2>4. CASE ~UNCHANGED read_offset
    <3>1. /\ read_offset' = chunk_end_offset /\ HeaderArrived
          /\ chunk.type = "fcTL" => FrameControlIsValid(chunk)
      BY <1>7, <2>4 DEF FrameData, AwaitSequenceNumber, SkipChunk,
         AwaitFrameEnd, EndOfImage, NextFrame, InMetadata, AcceptsFrame,
         CarriesFrameData
    <3>2. parsed_signature
      BY <1>1, <2>1 DEF IInv, TypeOK, StandsAtChunk
    <3>3. ControlsFit'
      BY <1>1, <2>1, <3>1, <3>2, ControlsPassed DEF LeavesChunk, SingleInv
    <3> QED
      BY <2>2, <3>3 DEF FitInv
  <2> QED
    BY <2>3, <2>4
<1>8. \/ Receive
      \/ \E q \in {"kSize", "kMetaData"} : BeginParse(q)
      \/ ImageIsHighBitDepth
      \/ Fail \/ SizeIsKnown \/ AwaitHeader \/ AwaitChunk \/ UNCHANGED vars
      \/ FinishSize \/ (ParseSignature /\ ~Fail)
      \/ HeaderAcTL \/ HeaderFcTL \/ HeaderFdAT
      \/ HeaderLibpngChunk \/ HeaderIgnored
      \/ HeaderIDAT \/ FrameData \/ AwaitSequenceNumber \/ SkipChunk
      \/ AwaitFrameEnd \/ EndOfImage \/ NextFrame
  BY DEF Next, ParseSize, ParseMetadata, HeaderLengthError,
         HeaderLibpngError, HeaderSizeError, MetadataLengthError,
         MetadataError
<1> QED
  BY <1>2, <1>3, <1>4, <1>5, <1>6, <1>7, <1>8, Zenon

LEMMA FitInit ==
  ASSUME Init
  PROVE  FitInv
<1>1. Passed = {}
  <2>1. /\ InitialOffset \in Nat /\ SignatureEnd \in Nat
        /\ InitialOffset < SignatureEnd
    BY ReaderAssumption DEF SignatureEnd
  <2>2. \A o \in DOMAIN file.chunk : o \in Nat /\ o >= SignatureEnd
    BY ReaderAssumption DEF Init, IsFile
  <2> QED
    BY <2>1, <2>2 DEF Init, Passed
<1> QED
  BY <1>1 DEF Init, FitInv, ControlsFit, SingleInv, kAnimationNone,
              kAnimationLoopOnce

LEMMA FramesFit ==
  ASSUME ParserInv, FitInv, NEW i \in DOMAIN frame_info
  PROVE  /\ is_animated => Height(i) > 0
         /\ frame_info[i].frame_rect.y + Height(i) <= ihdr.height
         /\ ~is_animated => /\ i = 1 /\ frame_info[i].frame_rect.y = 0
                            /\ Height(i) = ihdr.height
                            /\ frame_info[i].alpha_blend = "kBlendAtopBgcolor"
         /\ decode_to_half_float => i = 1
<1>1. /\ frame_info # <<>> /\ size_available
      /\ DOMAIN frame_info = 1 .. Len(frame_info) /\ Len(frame_info) \in Nat
      /\ frame_info[i] \in FrameInfo /\ ihdr.height \in Nat
  <2>1. frame_info # <<>>
    OBVIOUS
  <2> QED
    BY <2>1, FramesTyped DEF ParserInv, RegisteredInv
<1>2. CASE is_animated
  <2>1. ~ignore_animation /\ HasControl(i)
    BY <1>1, <1>2 DEF ParserInv, DataInv, SizeInv, RunsInv
  <2>2. PICK o \in Passed : /\ IsControl(o)
                            /\ frame_info[i] = WithControl(frame_info[i],
                                                           file.chunk[o])
    BY <2>1 DEF HasControl
  <2>3. FrameControlIsValid(file.chunk[o])
    BY <2>1, <2>2 DEF FitInv, ControlsFit
  <2>4. /\ frame_info[i].frame_rect.y = file.chunk[o].fctl.y
        /\ Height(i) = file.chunk[o].fctl.height
    <3>1. PICK f, c : f = frame_info[i] /\ c = file.chunk[o].fctl
      OBVIOUS
    <3>2. f.frame_rect = [x |-> c.x, y |-> c.y, width |-> c.width,
                          height |-> c.height]
      BY <1>1, <2>2, <3>1 DEF WithControl, FrameInfo
    <3> QED
      BY <3>1, <3>2 DEF Height
  <2>5. decode_to_half_float => Len(frame_info) <= 1
    BY <1>1, <1>2 DEF ParserInv, IInv, ReaderInv, CountInv, FitInv, SingleInv
  <2> QED
    BY <1>1, <1>2, <2>3, <2>4, <2>5 DEF FrameControlIsValid
<1>3. CASE ~is_animated
  <2>1. /\ Len(frame_info) = 1 /\ frame_info[1].frame_rect = ImageRect
        /\ frame_info[1].alpha_blend = "kBlendAtopBgcolor"
    BY <1>1, <1>3 DEF ParserInv, RegisteredInv, FitInv, SingleInv
  <2> QED
    BY <1>1, <1>3, <2>1 DEF ImageRect, Height
<1> QED
  BY <1>2, <1>3

(* The rows of a frame are those in its rectangle.                         *)
LEMMA RowsInImage ==
  ASSUME ParserInv, FitInv, NEW i \in DOMAIN frame_info
  PROVE  /\ frame_info[i].frame_rect.y \in Nat /\ Height(i) \in Nat
         /\ \A row \in 1 .. Height(i) :
              LET y == frame_info[i].frame_rect.y + row
              IN /\ y \in 1 .. ihdr.height /\ InRect(i, y)
                 /\ y - frame_info[i].frame_rect.y = row
         /\ \A y \in 1 .. ihdr.height : InRect(i, y) =>
              \E row \in 1 .. Height(i) : y = frame_info[i].frame_rect.y + row
<1>1. PICK top, h : top = frame_info[i].frame_rect.y /\ h = Height(i)
  OBVIOUS
<1>2. top \in Nat /\ h \in Nat /\ ihdr.height \in Nat
  BY <1>1, FramesTyped DEF Height
<1>3. top + h <= ihdr.height
  BY <1>1, FramesFit
<1>4. ASSUME NEW row \in 1 .. h
      PROVE  /\ top + row \in 1 .. ihdr.height /\ InRect(i, top + row)
             /\ (top + row) - top = row
  BY <1>1, <1>2, <1>3 DEF InRect, Height
<1>5. ASSUME NEW y \in 1 .. ihdr.height, InRect(i, y)
      PROVE  \E row \in 1 .. h : y = top + row
  <2>1. top < y /\ y <= top + h
    BY <1>1, <1>5 DEF InRect, Height
  <2>2. y - top \in 1 .. h /\ y = top + (y - top)
    BY <1>2, <2>1
  <2> QED
    BY <2>2
<1> QED
  BY <1>1, <1>2, <1>4, <1>5

(* No layer of a frame's own data is on the canvas it is drawn on.         *)
LEMMA OwnLayerNew ==
  ASSUME DecoderInv, NEW i \in DOMAIN frame_info, NEW y \in 1 .. ihdr.height,
         NEW l, l \subseteq OwnData(i), l # {}
  PROVE  /\ IsList(Canvas[i][y])
         /\ OneMore(Canvas[i][y], l) = Append(Canvas[i][y], l)
         /\ OneMore(Append(Canvas[i][y], l), l) = Append(Canvas[i][y], l)
<1>1. PICK c, P : c = Canvas[i][y] /\ P = SUBSET Before(i)
  OBVIOUS
<1>2. c \in Seq(P)
  BY <1>1, CanvasTyped DEF Layers
<1>3. l \notin P
  <2>1. PICK b \in l : b \in OwnData(i)
    OBVIOUS
  <2>2. frame_info[i].start_offset <= b
    BY <2>1, OwnDataBegins
  <2>3. b \in Nat /\ frame_info[i].start_offset \in Nat
    BY <2>1, OwnDataTyped, FramesTyped DEF DecoderInv
  <2>4. b \notin Before(i)
    BY <2>2, <2>3 DEF Before
  <2> QED
    BY <1>1, <2>1, <2>4
<1>4. c # <<>> => Last(c) \in P
  BY <1>2 DEF Last
<1>5. IsList(c)
  BY <1>2 DEF IsList
<1>6. OneMore(c, l) = Append(c, l)
  BY <1>3, <1>4 DEF OneMore
<1>7. PICK a : a = Append(c, l)
  OBVIOUS
<1>8. Len(a) = Len(c) + 1 /\ a[Len(c) + 1] = l /\ Len(c) \in Nat /\ a # <<>>
  <2>1. Len(a) = Len(c) + 1 /\ a[Len(c) + 1] = l /\ Len(c) \in Nat
    BY <1>5, <1>7, ListAppended, ListFacts
  <2> QED
    BY <2>1
<1>9. Last(a) = l
  BY <1>8 DEF Last
<1>10. OneMore(a, l) = a
  BY <1>8, <1>9 DEF OneMore
<1> QED
  BY <1>1, <1>5, <1>6, <1>7, <1>10

(* In an image of one pass a row is one byte.                              *)
LEMMA LayerWhole ==
  ASSUME DecoderInv, ~file.interlaced, NEW f \in DOMAIN frame_info,
         NEW m \in Nat, NEW data, data = OwnDataBefore(f, m),
         NEW row \in 1 .. Height(f), Layer(f, data, row) # {}
  PROVE  Layer(f, data, row) = RowData(f, row)
<1>1. PICK D : D = OwnData(f)
  OBVIOUS
<1>2. IsBounded(D)
  BY <1>1, OwnDataBounded
<1>3. PICK B, N : B = Below(D, m) /\ N = NotBelow(D, m)
  OBVIOUS
<1>4. IsBounded(B) /\ IsBounded(N)
  BY <1>2, <1>3, SmallerIsBounded DEF Below, NotBelow
<1>5. PICK v, w : v = InOrder(N) /\ w = InOrder(D)
  OBVIOUS
<1>6. data = InOrder(B)
  BY <1>1, <1>3 DEF OwnDataBefore, Below
<1>7. w = data \o v
  BY <1>2, <1>3, <1>5, <1>6, OrderSplits
<1>8. data \in Seq(Nat) /\ v \in Seq(Nat)
  BY <1>4, <1>5, <1>6, InOrderTyped
<1>9. PICK h \in Nat : h = Height(f) /\ RowCount(h) = h
  BY FramesTyped, RowCountTyped DEF DecoderInv, ParserInv, DataInv, Height
<1>10. PICK n \in Nat, l \in Nat :
         n = Len(data) /\ l = Len(w) /\ n <= l
         /\ \A k \in 1 .. n : w[k] = data[k]
  <2>1. /\ Len(data) \in Nat /\ Len(v) \in Nat
        /\ Len(w) = Len(data) + Len(v)
    BY <1>7, <1>8, ConcatProperties
  <2>2. \A k \in 1 .. Len(data) + Len(v) :
          w[k] = IF k <= Len(data) THEN data[k] ELSE v[k - Len(data)]
    BY <1>7, <1>8, ConcatProperties
  <2>3. \A k \in 1 .. Len(data) : w[k] = data[k]
    BY <2>1, <2>2
  <2> QED
    BY <2>1, <2>3
<1>11. \A k \in 1 .. h : InPlace(k, h, row) <=> k = row
  BY <1>9, Remainders
<1>12. row \in 1 .. n
  <2>1. PICK k \in 1 .. n : k <= h /\ InPlace(k, h, row)
    BY <1>9, <1>10 DEF Layer
  <2>2. k \in 1 .. h
    BY <2>1
  <2> QED
    BY <1>11, <2>1, <2>2
<1>13. Layer(f, data, row) = {data[row]}
  <2>1. \A k \in 1 .. n : k <= h /\ InPlace(k, h, row) <=> k = row
    BY <1>9, <1>11
  <2> QED
    BY <1>9, <1>10, <1>12, <2>1 DEF Layer
<1>14. Layer(f, w, row) = {w[row]}
  <2>1. \A k \in 1 .. l : k <= h /\ InPlace(k, h, row) <=> k = row
    BY <1>9, <1>11
  <2>2. row \in 1 .. l
    BY <1>10, <1>12
  <2> QED
    BY <1>9, <1>10, <2>1, <2>2 DEF Layer
<1> QED
  BY <1>1, <1>5, <1>10, <1>12, <1>13, <1>14, RowDataIs

-----------------------------------------------------------------------------
(* What the buffers show.                                                  *)

(* A complete frame shows itself.  While it is being drawn, a row shows    *)
(* the frame, or what was under it if the frame blends.                    *)
PaintedRow(i, y, rows, status) ==
  /\ IsList(rows[y])
  /\ status # "kFrameEmpty" =>
       \/ WithoutRepeats(rows[y]) = Shown(i)[y]
       \/ /\ status = "kFramePartial" /\ InRect(i, y)
          /\ Blends(i) => WithoutRepeats(rows[y]) = Canvas[i][y]

Painting(i, b) ==
  \A y \in 1 .. ihdr.height : PaintedRow(i, y, b.rows, b.status)

BuffersPainted(buffers) == \A k \in 1 .. Known : Painting(k, buffers[k])

(* The canvas of frame i is the picture of frame r, disposed.              *)
StartsFrom(i, r) ==
  \A y \in 1 .. ihdr.height :
    IF r = kNotFound
      THEN Canvas[i][y] = <<>> \/ (InRect(i, y) /\ ~Blends(i))
      ELSE Canvas[i][y] =
             IF /\ frame_info[r].disposal_method = "kDisposeOverwriteBgcolor"
                /\ InRect(r, y)
               THEN <<>> ELSE Shown(r)[y]

StartsInv == \A k \in 1 .. Known : StartsFrom(k, frame_buffer_cache[k].required)

(* The rows that data has made.                                            *)
RowsDrawn(f, data, b) ==
  \A row \in 1 .. Height(f) :
    LET y == frame_info[f].frame_rect.y + row
        own == Layer(f, data, row)
    IN own # {} =>
         IF Blends(f) THEN WithoutRepeats(b.rows[y]) = Shown(f)[y]
                      ELSE b.rows[y] = <<own>>

(* The rows that passes have been combined in.                             *)
Combined(f, data, lines) ==
  /\ DOMAIN lines = 1 .. ihdr.height
  /\ \A row \in 1 .. Height(f) : lines[row] = Layer(f, data, row)

LinesDrawn(f, data, lines, status) ==
  IF file.interlaced
    THEN /\ status = "kFramePartial" => Combined(f, data, lines)
         /\ status = "kFrameComplete" => Len(data) >= RowCount(Height(f))
    ELSE lines = NoBuffer

Painted(f, data, s) ==
  /\ BuffersPainted(s.buffers)
  /\ RowsDrawn(f, data, s.buffers[f])
  /\ LinesDrawn(f, data, s.interlaced, s.buffers[f].status)

(* Only still images are interlaced.                                       *)
InterlacedIsStill == file.interlaced => ~is_animated

StartsAs(i, y, layers) ==
  /\ IsList(layers)
  /\ \/ WithoutRepeats(layers) = Canvas[i][y]
     \/ InRect(i, y) /\ ~Blends(i)

LEMMA FrameKnown ==
  ASSUME DecoderInv, NEW f \in 1 .. Known
  PROVE  /\ f \in DOMAIN frame_info /\ f \in Nat /\ f > 0
         /\ IsBuffer(frame_buffer_cache[f], f)
<1>1. /\ Known \in Nat /\ Known <= Len(frame_info)
      /\ \A i \in 1 .. Known : IsBuffer(frame_buffer_cache[i], i)
  BY KnownTyped DEF DecoderInv, CacheInv, AreBuffers
<1>2. DOMAIN frame_info = 1 .. Len(frame_info) /\ Len(frame_info) \in Nat
  BY FramesTyped DEF DecoderInv
<1> QED
  BY <1>1, <1>2

LEMMA StartingRowsPaint ==
  ASSUME DecoderInv, StartsInv, BuffersPainted(frame_buffer_cache),
         NEW f \in 1 .. Known, Ready(f), NEW y \in 1 .. ihdr.height
  PROVE  StartsAs(f, y, StartingRows(f, frame_buffer_cache)[y])
<1>1. PICK b, r : b = frame_buffer_cache[f] /\ r = b.required
  OBVIOUS
<1>2. IsBuffer(b, f) /\ r \in 0 .. f - 1 /\ Known \in Nat /\ f \in Nat
  BY <1>1, FrameKnown, KnownTyped DEF DecoderInv, IsBuffer
<1>3. StartsFrom(f, r)
  BY <1>1 DEF StartsInv
<1>4. CASE r = kNotFound
  <2>1. StartingRows(f, frame_buffer_cache)[y] = <<>>
    BY <1>1, <1>4 DEF StartingRows, Blank
  <2>2. Canvas[f][y] = <<>> \/ (InRect(f, y) /\ ~Blends(f))
    BY <1>3, <1>4 DEF StartsFrom
  <2> QED
    BY <2>1, <2>2, RepeatsOfNone DEF StartsAs
<1>5. CASE r # kNotFound
  <2>1. r \in 1 .. Known
    BY <1>2, <1>5 DEF kNotFound
  <2>2. PICK p : p = frame_buffer_cache[r]
    OBVIOUS
  <2>3. /\ p.rect = frame_info[r].frame_rect
        /\ p.disposal = frame_info[r].disposal_method
        /\ p.rect.y \in Nat /\ p.rect.height \in Nat
    BY <2>1, <2>2, FrameKnown, FramesTyped DEF IsBuffer, DecoderInv
  <2>4. p.status = "kFrameComplete"
    BY <1>1, <1>5, <2>2 DEF Ready
  <2>5. IsList(p.rows[y]) /\ WithoutRepeats(p.rows[y]) = Shown(r)[y]
    BY <2>1, <2>2, <2>4 DEF BuffersPainted, Painting, PaintedRow
  <2>6. y \in p.rect.y + 1 .. p.rect.y + p.rect.height <=> InRect(r, y)
    BY <2>3 DEF InRect
  <2>7. StartingRows(f, frame_buffer_cache)[y]
          = IF /\ frame_info[r].disposal_method = "kDisposeOverwriteBgcolor"
               /\ InRect(r, y)
              THEN <<>> ELSE p.rows[y]
    BY <1>1, <1>5, <2>2, <2>3, <2>6 DEF StartingRows, Blank
  <2>8. Canvas[f][y]
          = IF /\ frame_info[r].disposal_method = "kDisposeOverwriteBgcolor"
               /\ InRect(r, y)
              THEN <<>> ELSE Shown(r)[y]
    BY <1>3, <1>5 DEF StartsFrom
  <2> QED
    BY <2>5, <2>7, <2>8, RepeatsOfNone DEF StartsAs
<1> QED
  BY <1>4, <1>5

(* Outside of its rectangle a frame shows what was there.                  *)
LEMMA ShownOutside ==
  ASSUME NEW i, NEW y \in 1 .. ihdr.height, ~InRect(i, y)
  PROVE  Shown(i)[y] = Canvas[i][y]
BY DEF Shown, DrawnOn

LEMMA EmptyIsPainted ==
  ASSUME NEW i, NEW b, b.status = "kFrameEmpty", b.rows = Blank
  PROVE  Painting(i, b)
BY RepeatsOfNone DEF Painting, PaintedRow, Blank

(* The buffer is set up for the first row.                                 *)
LEMMA InitializedIsPainted ==
  ASSUME DecoderInv, StartsInv, BuffersPainted(frame_buffer_cache),
         NEW f \in 1 .. Known, Ready(f), NEW writable,
         frame_buffer_cache[f].status = "kFrameEmpty",
         NEW new, new = InitFrameBuffer(f, frame_buffer_cache, writable)
  PROVE  BuffersPainted(new)
<1>1. /\ new[f].status = "kFramePartial"
      /\ new[f].rows = StartingRows(f, frame_buffer_cache)
      /\ \A k \in 1 .. Known : k # f =>
           \/ new[k] = frame_buffer_cache[k]
           \/ new[k].status = "kFrameEmpty" /\ new[k].rows = Blank
  BY BufferInitialized DEF DecoderInv
<1>2. Painting(f, new[f])
  <2> SUFFICES ASSUME NEW y \in 1 .. ihdr.height
               PROVE  PaintedRow(f, y, new[f].rows, new[f].status)
    BY DEF Painting
  <2>1. StartsAs(f, y, new[f].rows[y])
    BY <1>1, StartingRowsPaint
  <2>2. CASE InRect(f, y)
    BY <1>1, <2>1, <2>2 DEF StartsAs, PaintedRow
  <2>3. CASE ~InRect(f, y)
    BY <2>1, <2>3, ShownOutside DEF StartsAs, PaintedRow
  <2> QED
    BY <2>2, <2>3
<1>3. ASSUME NEW k \in 1 .. Known, k # f PROVE Painting(k, new[k])
  BY <1>1, <1>3, EmptyIsPainted DEF BuffersPainted
<1> QED
  BY <1>2, <1>3 DEF BuffersPainted

(* The first byte finds an empty buffer, or its data has been drawn.       *)
LEMMA BufferIsPainted ==
  ASSUME DecoderInv, StartsInv, BuffersPainted(frame_buffer_cache),
         NEW f \in 1 .. Known, Prepared(f), NEW s, Drawing(f, s),
         NEW data, Painted(f, data, s),
         s.buffers[f].status = "kFrameEmpty" => data = <<>>,
         Height(f) <= ihdr.height, Height(f) \in Nat,
         NEW writable, NEW t, t = WithBuffer(f, s, writable)
  PROVE  Painted(f, data, t)
<1>1. CASE s.buffers[f].status # "kFrameEmpty"
  BY <1>1 DEF WithBuffer
<1>2. CASE s.buffers[f].status = "kFrameEmpty"
  <2>1. /\ s.buffers = frame_buffer_cache /\ data = <<>>
        /\ frame_buffer_cache[f].status = "kFrameEmpty"
    BY <1>2 DEF Drawing
  <2>2. Ready(f)
    BY <2>1 DEF Prepared
  <2>3. PICK new : new = InitFrameBuffer(f, s.buffers, writable)
    OBVIOUS
  <2>4. PICK lines : lines = IF file.interlaced
                               THEN [y \in 1 .. ihdr.height |-> {}]
                               ELSE s.interlaced
    OBVIOUS
  <2>5. t.buffers = new /\ t.interlaced = lines
    <3>1. t = [s EXCEPT !.buffers = new, !.saw_alpha = FALSE,
                        !.interlaced = lines]
      BY <1>2, <2>3, <2>4 DEF WithBuffer
    <3> QED
      BY <3>1 DEF Drawing
  <2>6. BuffersPainted(new) /\ new[f].status = "kFramePartial"
    BY <2>1, <2>2, <2>3, InitializedIsPainted, BufferInitialized DEF DecoderInv
  <2>7. \A row : Layer(f, data, row) = {}
    BY <2>1, NoLayer
  <2>8. RowsDrawn(f, data, new[f])
    BY <2>7 DEF RowsDrawn
  <2>9. LinesDrawn(f, data, lines, new[f].status)
    <3>1. CASE file.interlaced
      <4>1. DOMAIN lines = 1 .. ihdr.height
            /\ \A row \in 1 .. Height(f) : lines[row] = {}
        <5>1. ihdr.height \in Nat
          BY FramesTyped DEF DecoderInv
        <5>2. \A row \in 1 .. Height(f) : row \in 1 .. ihdr.height
          BY <5>1
        <5> QED
          BY <2>4, <3>1, <5>2
      <4> QED
        BY <2>6, <2>7, <3>1, <4>1 DEF LinesDrawn, Combined
    <3>2. CASE ~file.interlaced
      BY <2>4, <3>2 DEF Painted, LinesDrawn
    <3> QED
      BY <3>1, <3>2
  <2> QED
    BY <2>5, <2>6, <2>8, <2>9 DEF Painted
<1> QED
  BY <1>1, <1>2

(* A row callback writes one row.                                          *)
Struck(lines, row, drawn) == [lines EXCEPT ![row] = drawn]

DrawnInRow(lines, row, byte) ==
  (IF lines # NoBuffer THEN lines[row] ELSE {}) \cup {byte}

LinesWith(lines, row, drawn) ==
  IF lines # NoBuffer THEN Struck(lines, row, drawn) ELSE lines

RowWith(f, old, drawn) ==
  IF BlendsOverPrevious(f) THEN Append(old, drawn) ELSE <<drawn>>

RowPut(f, s, t, y, drawn) ==
  /\ \A k \in 1 .. Known : k # f => t.buffers[k] = s.buffers[k]
  /\ t.buffers[f].status = s.buffers[f].status
  /\ t.buffers[f].rows[y] = RowWith(f, s.buffers[f].rows[y], drawn)
  /\ \A z \in 1 .. ihdr.height :
       z # y => t.buffers[f].rows[z] = s.buffers[f].rows[z]

LEMMA RowContents ==
  ASSUME NEW f \in 1 .. Known, NEW s, Drawing(f, s), NEW row, NEW byte,
         ~(row > s.buffers[f].rect.height),
         NEW y \in 1 .. ihdr.height, y = s.buffers[f].rect.y + row,
         NEW drawn, drawn = DrawnInRow(s.interlaced, row, byte),
         NEW t, t = RowAvailable(f, s, row, byte)
  PROVE  /\ t.interlaced = LinesWith(s.interlaced, row, drawn)
         /\ RowPut(f, s, t, y, drawn)
<1>1. PICK b : b = s.buffers[f]
  OBVIOUS
<1>2. /\ AreBuffers(s.buffers) /\ DOMAIN s.buffers = 1 .. Known
      /\ IsBuffer(b, f) /\ DOMAIN b.rows = 1 .. ihdr.height
  BY <1>1, ListFacts DEF Drawing, AreBuffers, IsBuffer
<1>3. PICK i : i = LinesWith(s.interlaced, row, drawn)
  OBVIOUS
<1>4. PICK v : v = RowWith(f, b.rows[y], drawn)
  OBVIOUS
<1>5. PICK a : t = [s EXCEPT !.interlaced = i,
                             !.buffers[f].rows[y] = v,
                             !.saw_alpha = a]
  <2> DEFINE a == IF decode_to_half_float THEN file.alpha
                  ELSE s.saw_alpha \/ (file.alpha /\ drawn \cap file.translucent # {})
  <2>1. t = [s EXCEPT !.interlaced = i, !.buffers[f].rows[y] = v,
                      !.saw_alpha = a]
    BY <1>1, <1>3, <1>4 DEF RowAvailable, LinesWith, RowWith, Struck, DrawnInRow
  <2> HIDE DEF a
  <2> QED
    BY <2>1
<1>6. PICK rows : rows = [b.rows EXCEPT ![y] = v]
  OBVIOUS
<1>7. rows[y] = v /\ \A z \in 1 .. ihdr.height : z # y => rows[z] = b.rows[z]
  BY <1>2, <1>6
<1>8. PICK c : c = Rewritten(b, rows, b.status)
  OBVIOUS
<1>9. c.rows = rows /\ c.status = b.status
  BY <1>2, <1>8 DEF Rewritten, IsBuffer
<1>10. PICK new : new = Put(s.buffers, f, c)
  OBVIOUS
<1>11. new[f] = c /\ \A k \in 1 .. Known : k # f => new[k] = s.buffers[k]
  BY <1>2, <1>10 DEF Put
<1>12. t.buffers = new /\ t.interlaced = i
  <2>1. t = [s EXCEPT !.interlaced = i, !.buffers = new, !.saw_alpha = a]
    <3>1. new = [s.buffers EXCEPT ![f].rows[y] = v]
      <4>1. c = [b EXCEPT !.rows[y] = v]
        BY <1>2, <1>6, <1>8 DEF Rewritten, IsBuffer
      <4> QED
        BY <1>1, <1>2, <1>10, <4>1 DEF Put
    <3> QED
      BY <1>5, <3>1
  <2> QED
    BY <2>1 DEF Drawing
<1> QED
  BY <1>1, <1>3, <1>4, <1>7, <1>9, <1>11, <1>12 DEF RowPut

(* The byte makes its row, together with those of the passes before it.    *)
OtherLayers(f, data, new, row) ==
  \A r \in 1 .. Height(f) :
    r # row => Layer(f, new, r) = Layer(f, data, r)

(* The next byte is in that row.                                           *)
NextRow(f, data, row) ==
  /\ Len(data) < RowCount(Height(f)) /\ row \in 1 .. Height(f)
  /\ InPlace(Len(data) + 1, Height(f), row)

RowMade(f, data, byte, row, lines, status) ==
  LET new == Append(data, byte)
      drawn == DrawnInRow(lines, row, byte)
  IN /\ drawn = Layer(f, new, row)
     /\ OtherLayers(f, data, new, row)
     /\ LinesDrawn(f, new, LinesWith(lines, row, drawn), status)

LEMMA ByteIsRow ==
  ASSUME DecoderInv, NEW f \in DOMAIN frame_info, Height(f) <= ihdr.height,
         NEW data \in Seq(Nat), NEW byte \in Nat, NEW row, NextRow(f, data, row),
         NEW lines, NEW status \in Statuses, status # "kFrameEmpty",
         LinesDrawn(f, data, lines, status)
  PROVE  RowMade(f, data, byte, row, lines, status)
<1>1. PICK new, drawn, now : /\ new = Append(data, byte)
                             /\ drawn = DrawnInRow(lines, row, byte)
                             /\ now = LinesWith(lines, row, drawn)
  OBVIOUS
<1> SUFFICES /\ drawn = Layer(f, new, row)
             /\ OtherLayers(f, data, new, row)
             /\ LinesDrawn(f, new, now, status)
  BY <1>1 DEF RowMade
<1>2. PICK n : /\ n \in Nat /\ n = Len(data)
                /\ n < RowCount(Height(f)) /\ row \in 1 .. Height(f)
                /\ InPlace(n + 1, Height(f), row)
  BY DEF NextRow
<1>3. PICK h \in Nat, c \in Nat : h = Height(f) /\ c = RowCount(h)
                                  /\ (~file.interlaced => c = h)
  BY FramesTyped, RowCountTyped DEF DecoderInv, ParserInv, DataInv, Height
<1>4. ihdr.height \in Nat /\ n + 1 \in Nat /\ n + 1 <= c /\ h <= ihdr.height
  BY <1>3, <1>2, FramesTyped DEF DecoderInv
<1>5. \A r : /\ Makes(f, n + 1, r)
                  => Layer(f, new, r) = Layer(f, data, r) \cup {byte}
             /\ ~Makes(f, n + 1, r) => Layer(f, new, r) = Layer(f, data, r)
  BY <1>1, <1>2, LayerAppended
<1>6. Makes(f, n + 1, row)
      /\ \A r : Makes(f, n + 1, r) => InPlace(n + 1, Height(f), r)
  BY <1>3, <1>4, <1>2 DEF Makes
<1>7. Layer(f, new, row) = Layer(f, data, row) \cup {byte}
  BY <1>5, <1>6
<1>8. ASSUME NEW r \in 1 .. h, r # row
      PROVE  Layer(f, new, r) = Layer(f, data, r)
  <2>1. ~InPlace(n + 1, h, r)
    BY <1>3, <1>8, <1>2 DEF InPlace
  <2> QED
    BY <1>3, <1>5, <1>6, <2>1
<1>9. CASE file.interlaced
  <2>1. status = "kFramePartial"
    <3>1. status # "kFrameComplete"
      BY <1>3, <1>9, <1>2 DEF LinesDrawn
    <3> QED
      BY <3>1 DEF Statuses
  <2>2. /\ DOMAIN lines = 1 .. ihdr.height
        /\ \A r \in 1 .. h : lines[r] = Layer(f, data, r)
    BY <1>3, <1>9, <2>1 DEF LinesDrawn, Combined
  <2>3. row \in 1 .. ihdr.height
    BY <1>3, <1>4, <1>2
  <2>4. lines # NoBuffer
    <3>1. DOMAIN <<>> = {}
      OBVIOUS
    <3> QED
      BY <2>2, <2>3, <3>1 DEF NoBuffer
  <2>5. drawn = Layer(f, new, row)
    BY <1>3, <1>7, <1>1, <1>2, <2>2, <2>4 DEF DrawnInRow
  <2>6. PICK struck : struck = Struck(lines, row, drawn)
    OBVIOUS
  <2>7. /\ DOMAIN struck = 1 .. ihdr.height
        /\ \A r \in 1 .. ihdr.height :
             struck[r] = IF r = row THEN drawn ELSE lines[r]
    BY <2>2, <2>6 DEF Struck
  <2>8. \A r \in 1 .. h : r \in 1 .. ihdr.height
    BY <1>4
  <2>9. \A r \in 1 .. h : struck[r] = Layer(f, new, r)
    BY <1>8, <2>2, <2>5, <2>7, <2>8
  <2>10. LinesDrawn(f, new, struck, status)
    BY <1>3, <1>9, <2>1, <2>7, <2>9 DEF LinesDrawn, Combined
  <2> QED
    BY <1>3, <1>8, <1>1, <2>4, <2>5, <2>6, <2>10
       DEF OtherLayers, LinesWith
<1>10. CASE ~file.interlaced
  <2>1. lines = NoBuffer
    BY <1>10 DEF LinesDrawn
  <2>2. Layer(f, data, row) = {}
    <3>1. \A k \in 1 .. h : InPlace(k, h, row) <=> k = row
      BY <1>3, <1>2, Remainders
    <3>2. n + 1 = row
      <4>1. n + 1 \in 1 .. h
        BY <1>3, <1>4, <1>10, <1>2
      <4> QED
        BY <1>3, <1>2, <3>1, <4>1
    <3>3. \A k \in 1 .. n : ~(k <= c /\ InPlace(k, h, row))
      <4> SUFFICES ASSUME NEW k \in 1 .. n, InPlace(k, h, row) PROVE FALSE
        OBVIOUS
      <4>1. k \in 1 .. h /\ k # row
        BY <1>3, <1>4, <1>10, <1>2, <3>2
      <4> QED
        BY <3>1, <4>1
    <3> QED
      BY <1>3, <1>2, <3>3 DEF Layer
  <2> QED
    BY <1>3, <1>7, <1>8, <1>10, <1>1, <2>1, <2>2
       DEF LinesDrawn, OtherLayers, DrawnInRow, LinesWith
<1> QED
  BY <1>9, <1>10

(* How a row of a frame looks before and after its callback.               *)
Under(f, y, old) ==
  /\ IsList(old)
  /\ Blends(f) => WithoutRepeats(old) \in {Shown(f)[y], Canvas[f][y]}

Over(f, y, now, own, status) ==
  /\ IsList(now)
  /\ \/ WithoutRepeats(now) = Shown(f)[y]
     \/ status = "kFramePartial" /\ ~Blends(f)
  /\ ~Blends(f) => now = <<own>>

LEMMA RowShows ==
  ASSUME DecoderInv, FitInv, InterlacedIsStill,
         NEW f \in DOMAIN frame_info, f \in Nat,
         NEW row \in 1 .. Height(f), NEW y \in 1 .. ihdr.height,
         y = frame_info[f].frame_rect.y + row, InRect(f, y),
         y - frame_info[f].frame_rect.y = row,
         frame_buffer_cache[f].blend = frame_info[f].alpha_blend,
         NEW own, own # {}, ~file.interlaced => own = RowData(f, row),
         NEW status, status # "kFrameEmpty",
         status # "kFramePartial" => ~file.interlaced,
         NEW old, Under(f, y, old), NEW now, now = RowWith(f, old, own)
  PROVE  Over(f, y, now, own, status)
<1> DEFINE over == BlendsOverPrevious(f)
<1>1. IsList(old) /\ now = IF over THEN Append(old, own) ELSE <<own>>
  BY DEF Under, RowWith
<1>2. PICK c, shown, whole : /\ c = Canvas[f][y] /\ shown = Shown(f)[y]
                             /\ whole = RowData(f, row)
  OBVIOUS
<1>3. shown = IF Blends(f) THEN Append(c, whole) ELSE <<whole>>
  BY <1>2 DEF Shown, DrawnOn
<1>4. over => Blends(f)
  BY DEF BlendsOverPrevious, Blends
<1> HIDE DEF over
<1>5. IsList(now)
  BY <1>1, RepeatsOfOne, ListAppended
<1>6. CASE ~Blends(f)
  <2>1. now = <<own>>
    BY <1>4, <1>6, <1>1
  <2>2. WithoutRepeats(now) = <<own>>
    BY <2>1, RepeatsOfOne
  <2>3. status # "kFramePartial" => own = whole
    BY <1>2
  <2> QED
    BY <1>2, <1>3, <1>5, <1>6, <2>1, <2>2, <2>3 DEF Over
<1>7. CASE Blends(f)
  <2>1. is_animated
    BY <1>7, FramesFit DEF Blends, DecoderInv
  <2>2. own = whole /\ ~file.interlaced
    BY <1>2, <2>1 DEF InterlacedIsStill
  <2>3. /\ OneMore(c, own) = Append(c, own)
        /\ OneMore(Append(c, own), own) = Append(c, own)
    BY <1>2, <2>2, RowDataOwn, OwnLayerNew
  <2>4. shown = Append(c, own)
    BY <1>3, <1>7, <2>2
  <2>5. CASE over
    <3>1. WithoutRepeats(now) = OneMore(WithoutRepeats(old), own)
      BY <1>1, <2>5, RepeatsAppended
    <3>2. WithoutRepeats(old) = shown \/ WithoutRepeats(old) = c
      BY <1>2, <1>7 DEF Under
    <3> QED
      BY <1>2, <1>5, <1>7, <2>3, <2>4, <3>1, <3>2 DEF Over
  <2>6. CASE ~over
    <3>1. decode_to_half_float
      BY <1>7, <2>6 DEF over, BlendsOverPrevious, Blends
    <3>2. f = 1
      BY <3>1, FramesFit DEF DecoderInv
    <3>3. c = <<>>
      <4>1. DOMAIN frame_info = 1 .. Len(frame_info) /\ Len(frame_info) \in Nat
        BY FramesTyped DEF DecoderInv
      <4>2. Canvas[1] = Blank
        BY <3>2, <4>1, CanvasUnfolds
      <4> QED
        BY <1>2, <3>2, <4>2 DEF Blank
    <3>4. shown = <<own>>
      BY <2>4, <3>3
    <3> QED
      BY <1>2, <1>5, <1>7, <1>1, <2>6, <3>4, RepeatsOfOne DEF Over
  <2> QED
    BY <2>5, <2>6
<1> QED
  BY <1>6, <1>7

(* A row callback paints its row.                                          *)
LEMMA RowIsPainted ==
  ASSUME DecoderInv, FitInv, InterlacedIsStill, NEW f \in 1 .. Known, NEW s,
         Drawing(f, s), s.buffers[f].status # "kFrameEmpty",
         NEW byte \in OwnData(f), NEW data, data = OwnDataBefore(f, byte),
         Len(data) < RowCount(Height(f)),
         NEW row, row = (Len(data) % Height(f)) + 1, Painted(f, data, s)
  PROVE  Painted(f, Append(data, byte), RowAvailable(f, s, row, byte))
<1>1. PICK n, new, t : /\ n = Len(data) /\ new = Append(data, byte)
                        /\ t = RowAvailable(f, s, row, byte)
  OBVIOUS
<1>2. n \in Nat /\ n < RowCount(Height(f)) /\ row = (n % Height(f)) + 1
  BY <1>1, NextByte
<1> SUFFICES Painted(f, new, t)
  BY <1>1
<1>3. /\ f \in DOMAIN frame_info /\ f \in Nat
      /\ frame_buffer_cache[f].blend = frame_info[f].alpha_blend
  BY FrameKnown DEF IsBuffer
<1>4. PICK b : b = s.buffers[f]
  OBVIOUS
<1>5. IsBuffer(b, f) /\ b.rect = frame_info[f].frame_rect
  <2>1. f \in 1 .. Len(s.buffers)
    BY DEF Drawing
  <2> QED
    BY <1>4, <2>1 DEF Drawing, AreBuffers, IsBuffer
<1>6. PICK h, top : h = Height(f) /\ top = frame_info[f].frame_rect.y
  OBVIOUS
<1>7. h \in Nat /\ top \in Nat /\ Height(f) <= ihdr.height
  <2>1. top + h <= ihdr.height /\ ihdr.height \in Nat /\ h \in Nat /\ top \in Nat
    BY <1>3, <1>6, FramesFit, RowsInImage, FramesTyped DEF DecoderInv
  <2> QED
    BY <1>6, <2>1
<1>8. row \in 1 .. h /\ InPlace(n + 1, Height(f), row)
  <2>1. h > 0
    <3>1. h = 0 => RowCount(h) = 0
      BY <1>7, RowCountTyped DEF DecoderInv, ParserInv, DataInv
    <3> QED
      BY <1>6, <1>7, <1>2, <3>1
  <2>2. PICK r : r = n % h
    OBVIOUS
  <2>3. r \in 0 .. h - 1
    BY <1>7, <1>2, <2>1, <2>2, Remainders
  <2>4. row = r + 1
    BY <1>6, <1>2, <2>2
  <2>5. row \in 1 .. h /\ row - 1 = r
    BY <1>7, <2>3, <2>4
  <2>6. PICK k : k = n + 1
    OBVIOUS
  <2>7. k - 1 = n
    BY <1>2, <2>6
  <2>8. InPlace(k, h, row)
    BY <2>2, <2>5, <2>7, Zenon DEF InPlace
  <2> QED
    BY <1>6, <2>5, <2>6, <2>8
<1>9. PICK y : y = top + row
  OBVIOUS
<1>10. /\ y \in 1 .. ihdr.height /\ InRect(f, y)
      /\ y - frame_info[f].frame_rect.y = row
  BY <1>3, <1>6, <1>8, <1>9, RowsInImage DEF DecoderInv
<1>11. ~(row > b.rect.height) /\ y = b.rect.y + row
  BY <1>5, <1>6, <1>7, <1>8, <1>9 DEF Height
<1>12. PICK drawn : drawn = DrawnInRow(s.interlaced, row, byte)
  OBVIOUS
<1>13. /\ t.interlaced = LinesWith(s.interlaced, row, drawn)
       /\ RowPut(f, s, t, y, drawn)
  <2>1. ~(row > s.buffers[f].rect.height) /\ y = s.buffers[f].rect.y + row
    BY <1>4, <1>11
  <2> QED
    BY <1>10, <1>12, <1>1, <2>1, RowContents
<1>14. /\ \A k \in 1 .. Known : k # f => t.buffers[k] = s.buffers[k]
       /\ t.buffers[f].status = b.status
       /\ t.buffers[f].rows[y] = RowWith(f, b.rows[y], drawn)
       /\ \A z \in 1 .. ihdr.height :
            z # y => t.buffers[f].rows[z] = b.rows[z]
  BY <1>4, <1>13 DEF RowPut
<1>15. /\ byte \in Nat /\ data \in Seq(Nat)
       /\ new = OwnDataBefore(f, byte + 1) /\ byte + 1 \in Nat
  BY <1>1, NextByte
<1>16. /\ drawn = Layer(f, new, row)
       /\ OtherLayers(f, data, new, row)
       /\ LinesDrawn(f, new, t.interlaced, b.status)
  <2>1. PICK lines, now, status :
          lines = s.interlaced /\ now = t.interlaced /\ status = b.status
    OBVIOUS
  <2>2. LinesDrawn(f, data, lines, status)
    BY <1>4, <2>1 DEF Painted
  <2>3. status \in Statuses /\ status # "kFrameEmpty"
    BY <1>4, <1>5, <2>1 DEF IsBuffer
  <2>4. NextRow(f, data, row)
    BY <1>6, <1>8, <1>1, <1>2 DEF NextRow
  <2>5. RowMade(f, data, byte, row, lines, status)
    BY <1>3, <1>7, <1>15, <2>2, <2>3, <2>4, ByteIsRow
  <2>6. drawn = DrawnInRow(lines, row, byte) /\ now = LinesWith(lines, row, drawn)
    BY <1>12, <1>13, <2>1
  <2> QED
    BY <1>1, <2>1, <2>5, <2>6 DEF RowMade
<1>17. drawn # {} /\ (~file.interlaced => drawn = RowData(f, row))
  <2>1. drawn # {}
    BY <1>12 DEF DrawnInRow
  <2>2. ASSUME ~file.interlaced PROVE drawn = RowData(f, row)
    BY <1>3, <1>6, <1>8, <1>15, <1>16, <2>1, <2>2, LayerWhole
  <2> QED
    BY <2>1, <2>2
<1>18. b.status # "kFramePartial" => ~file.interlaced
  <2> SUFFICES ASSUME file.interlaced, b.status # "kFramePartial" PROVE FALSE
    OBVIOUS
  <2>1. b.status = "kFrameComplete"
    BY <1>4, <1>5 DEF IsBuffer, Statuses
  <2>2. n >= RowCount(Height(f))
    BY <1>4, <1>1, <2>1 DEF Painted, LinesDrawn
  <2>3. RowCount(h) \in Nat
    BY <1>7, RowCountTyped DEF DecoderInv, ParserInv, DataInv
  <2> QED
    BY <1>6, <1>2, <2>2, <2>3
<1>19. Painting(f, b) /\ RowsDrawn(f, data, b)
  BY <1>4 DEF Painted, BuffersPainted
<1>20. PICK old, now : old = b.rows[y] /\ now = t.buffers[f].rows[y]
  OBVIOUS
<1>21. Under(f, y, old)
  BY <1>4, <1>10, <1>19, <1>20 DEF Painting, PaintedRow, Under
<1>22. Over(f, y, now, drawn, b.status)
  <2>1. PICK status : status = b.status
    OBVIOUS
  <2>2. status # "kFrameEmpty" /\ (status # "kFramePartial" => ~file.interlaced)
    BY <1>4, <1>18, <2>1
  <2>3. row \in 1 .. Height(f) /\ y = frame_info[f].frame_rect.y + row
    BY <1>6, <1>8, <1>9
  <2>4. now = RowWith(f, old, drawn)
    BY <1>20, <1>14
  <2>5. Over(f, y, now, drawn, status)
    BY <1>3, <1>10, <1>17, <1>21, <2>2, <2>3, <2>4, RowShows
  <2> QED
    BY <2>1, <2>5
<1>23. Painting(f, t.buffers[f])
  <2> SUFFICES ASSUME NEW z \in 1 .. ihdr.height
               PROVE  PaintedRow(f, z, t.buffers[f].rows, b.status)
    BY <1>14 DEF Painting
  <2>1. CASE z = y
    BY <1>10, <1>20, <1>22, <2>1 DEF PaintedRow, Over
  <2>2. CASE z # y
    <3>1. t.buffers[f].rows[z] = b.rows[z]
      BY <1>14, <2>2
    <3> QED
      BY <1>19, <3>1 DEF Painting, PaintedRow
  <2> QED
    BY <2>1, <2>2
<1>24. RowsDrawn(f, new, t.buffers[f])
  <2> SUFFICES ASSUME NEW r \in 1 .. h, NEW z, z = top + r,
                      NEW own, own = Layer(f, new, r), own # {}
               PROVE  IF Blends(f)
                        THEN WithoutRepeats(t.buffers[f].rows[z]) = Shown(f)[z]
                        ELSE t.buffers[f].rows[z] = <<own>>
    BY <1>6 DEF RowsDrawn
  <2>1. CASE r = row
    BY <1>9, <1>16, <1>20, <1>22, <2>1 DEF Over
  <2>2. CASE r # row
    <3>1. z # y /\ z \in 1 .. ihdr.height
      <4>1. z \in 1 .. ihdr.height
        BY <1>3, <1>6, RowsInImage DEF DecoderInv
      <4>2. z # y
        BY <1>7, <1>8, <1>9, <2>2
      <4> QED
        BY <4>1, <4>2
    <3>2. t.buffers[f].rows[z] = b.rows[z]
      BY <1>14, <3>1
    <3>3. own = Layer(f, data, r)
      BY <1>6, <1>16, <2>2 DEF OtherLayers
    <3> QED
      BY <1>6, <1>19, <3>2, <3>3 DEF RowsDrawn
  <2> QED
    BY <2>1, <2>2
<1>25. BuffersPainted(t.buffers)
  <2>1. ASSUME NEW k \in 1 .. Known, k # f PROVE Painting(k, t.buffers[k])
    BY <1>14, <2>1 DEF Painted, BuffersPainted
  <2> QED
    BY <1>23, <2>1 DEF BuffersPainted
<1> QED
  BY <1>14, <1>16, <1>24, <1>25 DEF Painted

(* Data behind the last row paints nothing.                                *)
LEMMA NothingIsPainted ==
  ASSUME DecoderInv, NEW f \in DOMAIN frame_info, NEW data \in Seq(Nat),
         NEW byte \in Nat, Len(data) >= RowCount(Height(f)), NEW s,
         Painted(f, data, s), NEW t, t.buffers = s.buffers,
         t.interlaced = s.interlaced
  PROVE  Painted(f, Append(data, byte), t)
<1>1. PICK n, c, new : /\ n = Len(data) /\ c = RowCount(Height(f))
                       /\ new = Append(data, byte)
  OBVIOUS
<1>2. n \in Nat /\ c \in Nat /\ n >= c /\ Len(new) = n + 1
  <2>1. c \in Nat
    BY <1>1, FramesTyped, RowCountTyped
       DEF DecoderInv, ParserInv, DataInv, Height
  <2>2. n \in Nat /\ Len(new) = n + 1
    BY <1>1
  <2> QED
    BY <1>1, <2>1, <2>2
<1>3. \A row : Layer(f, new, row) = Layer(f, data, row)
  <2>1. \A row : ~Makes(f, n + 1, row)
    BY <1>1, <1>2 DEF Makes
  <2>2. \A row : LET m == Len(data) + 1
                      longer == Append(data, byte)
                  IN ~Makes(f, m, row) => Layer(f, longer, row) = Layer(f, data, row)
    BY LayerAppended
  <2> QED
    BY <1>1, <2>1, <2>2
<1>4. Len(new) >= c
  BY <1>2
<1>5. RowsDrawn(f, new, s.buffers[f])
  BY <1>3 DEF Painted, RowsDrawn
<1>6. LinesDrawn(f, new, s.interlaced, s.buffers[f].status)
  BY <1>1, <1>3, <1>4 DEF Painted, LinesDrawn, Combined
<1> QED
  BY <1>1, <1>5, <1>6 DEF Painted

LEMMA ScanPaints ==
  ASSUME DecoderInv, FitInv, InterlacedIsStill, StartsInv,
         BuffersPainted(frame_buffer_cache), NEW f \in 1 .. Known, Prepared(f),
         Fits(f), NEW s, Drawing(f, s), Noted(f, s), NEW byte \in OwnData(f),
         s.data = OwnDataBefore(f, byte), Painted(f, s.data, s),
         NEW writable, NEW t, t = Scan(f, s, byte, writable)
  PROVE  Painted(f, t.data, t)
<1>1. f \in DOMAIN frame_info
  BY FrameKnown
<1>2. PICK data, fed : data = s.data /\ fed = [s EXCEPT !.data = Append(@, byte)]
  OBVIOUS
<1>3. PICK new : new = Append(data, byte)
  OBVIOUS
<1>4. /\ Drawing(f, fed) /\ fed.data = new
      /\ fed.buffers = s.buffers /\ fed.interlaced = s.interlaced
  BY <1>2, <1>3 DEF Drawing
<1>5. byte \in Nat /\ data \in Seq(Nat)
  BY <1>2, NextByte
<1>6. PICK n, c : n = Len(data) /\ c = Needed
  OBVIOUS
<1>7. /\ n \in Nat /\ c \in Nat
      /\ Height(f) \in Nat /\ SessionHeight = Height(f)
      /\ c = RowCount(Height(f))
  <2>1. FileInv
    BY DEF DecoderInv, ParserInv, DataInv
  <2> QED
    BY <1>5, <1>6, <2>1, NeededTyped DEF Fits, Height, Needed, RowCount
<1>8. CASE n >= c
  <2>1. t = fed
    BY <1>2, <1>6, <1>8 DEF Scan
  <2>2. Painted(f, data, s)
    BY <1>2
  <2>3. Len(data) >= RowCount(Height(f))
    BY <1>6, <1>7, <1>8
  <2>4. Painted(f, Append(data, byte), fed)
    BY <1>1, <1>4, <1>5, <2>2, <2>3, NothingIsPainted
  <2> QED
    BY <1>3, <1>4, <2>1, <2>4
<1>9. CASE ~(n >= c)
  <2>1. PICK ready : ready = WithBuffer(f, fed, writable)
    OBVIOUS
  <2>2. /\ Drawing(f, ready) /\ ready.data = new
        /\ ready.buffers[f].status # "kFrameEmpty"
    BY <1>4, <2>1, BufferReady DEF DecoderInv
  <2>3. Painted(f, data, ready)
    <3>1. Painted(f, data, fed)
      BY <1>2, <1>4 DEF Painted
    <3>2. fed.buffers[f].status = "kFrameEmpty" => data = <<>>
      BY <1>2, <1>4, <1>6, <1>7, <1>9 DEF Noted
    <3>3. Height(f) <= ihdr.height
      <4>1. frame_info[f].frame_rect.y + Height(f) <= ihdr.height
        BY <1>1, FramesFit DEF DecoderInv
      <4>2. frame_info[f].frame_rect.y \in Nat /\ ihdr.height \in Nat
        BY <1>1, FramesTyped DEF DecoderInv
      <4> QED
        BY <1>7, <4>1, <4>2
    <3> QED
      BY <1>4, <1>7, <2>1, <3>1, <3>2, <3>3, BufferIsPainted
  <2>4. PICK row : row = (n % Height(f)) + 1
    OBVIOUS
  <2>5. t = RowAvailable(f, ready, row, byte)
    BY <1>2, <1>6, <1>7, <1>9, <2>1, <2>4 DEF Scan
  <2>6. t.data = new
    BY <2>2, <2>5, RowDrawn DEF DecoderInv, ParserInv, DataInv
  <2>7. /\ Len(data) < RowCount(Height(f))
        /\ row = (Len(data) % Height(f)) + 1
    BY <1>6, <1>7, <1>9, <2>4
  <2>8. data = OwnDataBefore(f, byte)
    BY <1>2
  <2>9. Painted(f, Append(data, byte), RowAvailable(f, ready, row, byte))
    BY <2>2, <2>3, <2>7, <2>8, RowIsPainted
  <2> QED
    BY <1>3, <2>5, <2>6, <2>9
<1> QED
  BY <1>8, <1>9

(* What libpng is given next paints what its frame shows.                  *)
LEMMA DataPaints ==
  ASSUME DecoderInv, FitInv, InterlacedIsStill, StartsInv,
         BuffersPainted(frame_buffer_cache), NEW f \in 1 .. Known, Prepared(f),
         Fits(f), Noted(f, RowState), Painted(f, png.data, RowState),
         NEW from, NEW to, NEW D, NextData(f, from, to, D), NEW writable
  PROVE  LET s == RowStateAfter(f, D, writable)
         IN s.data = OwnDataBefore(f, to) /\ Painted(f, s.data, s)
<1>1. PICK g : Scans(g, f, D, writable)
  <2>1. \A b \in D : b \in OwnData(f)
    BY DEF NextData
  <2>2. IsBounded(D)
    BY <2>1, OwnDataBounded, SmallerIsBounded
  <2> QED
    BY <2>2, ScanUnfolds
<1>2. /\ RowStateAfter(f, D, writable) = g[D]
      /\ g[{}] = RowState
      /\ \A s \in SUBSET D : s # {} =>
           g[s] = Scan(f, g[s \ {Max(s)}], Max(s), writable)
  BY <1>1 DEF Scans
<1>3. /\ from \in Nat /\ to \in Nat /\ from <= to
      /\ \A b : b \in D <=> b \in OwnData(f) /\ from <= b /\ b < to
      /\ png.data = OwnDataBefore(f, from)
      /\ \A b \in OwnData(f) : b \in Nat
  BY OwnDataTyped DEF NextData
<1>4. /\ CacheInv /\ FileInv /\ current_buffer_saw_alpha \in BOOLEAN
  BY DEF DecoderInv, ParserInv, DataInv, RequestInv
<1> DEFINE Good(A, m) == LET u == g[A]
                         IN /\ Drawing(f, u) /\ Noted(f, u)
                            /\ u.data = OwnDataBefore(f, m)
                            /\ Painted(f, u.data, u)
           UpTo(n) == {b \in D : b < from + n}
           S == {n \in Nat : from + n <= to => Good(UpTo(n), from + n)}
<1>5. 0 \in S
  <2>1. UpTo(0) = {} /\ from + 0 = from
    BY <1>3
  <2>2. Drawing(f, RowState) /\ RowState.data = png.data
    BY <1>4, DrawingStarts DEF RowState
  <2>3. Good({}, from)
    BY <1>2, <1>3, <2>2
  <2> HIDE DEF Good, UpTo
  <2> QED
    BY <2>1, <2>3
<1>6. ASSUME NEW n \in Nat, n \in S PROVE n + 1 \in S
  <2> SUFFICES ASSUME from + (n + 1) <= to
               PROVE  Good(UpTo(n + 1), from + (n + 1))
    <3> HIDE DEF Good, UpTo
    <3> QED
      OBVIOUS
  <2>1. PICK x, A, B : x = from + n /\ A = UpTo(n) /\ B = UpTo(n + 1)
    OBVIOUS
  <2>2. x \in Nat /\ from <= x /\ x < to /\ from + (n + 1) = x + 1
    BY <1>3, <2>1
  <2>3. Good(A, x)
    <3> HIDE DEF Good, UpTo
    <3> QED
      BY <1>3, <1>6, <2>1, <2>2
  <2>4. A = {b \in D : b < x} /\ B = {b \in D : b < x + 1}
    BY <2>1, <2>2
  <2>5. ASSUME NEW b \in OwnData(f), b < x + 1, ~(b < x) PROVE b = x
    BY <1>3, <2>2, <2>5
  <2> SUFFICES Good(B, x + 1)
    <3> HIDE DEF Good, UpTo
    <3> QED
      BY <2>1, <2>2
  <2>6. CASE x \notin OwnData(f)
    <3>1. A = B
      <4>1. \A b \in D : b \in OwnData(f) /\ b \in Nat
        BY <1>3
      <4>2. \A b \in D : b < x <=> b < x + 1
        BY <2>2, <2>5, <2>6, <4>1
      <4> QED
        BY <2>4, <4>2
    <3>2. OwnDataBefore(f, x + 1) = OwnDataBefore(f, x)
      <4>1. \A b \in OwnData(f) : b < x <=> b < x + 1
        BY <1>3, <2>2, <2>5, <2>6
      <4>2. {b \in OwnData(f) : b < x} = {b \in OwnData(f) : b < x + 1}
        BY <4>1
      <4> QED
        BY <4>2 DEF OwnDataBefore
    <3> QED
      BY <2>3, <3>1, <3>2
  <2>7. CASE x \in OwnData(f)
    <3>1. PICK u, t : u = g[A] /\ t = Scan(f, u, x, writable)
      OBVIOUS
    <3>2. g[B] = t
      <4>1. x \in B /\ B \subseteq D
        BY <1>3, <2>2, <2>4, <2>7
      <4>2. B \subseteq Int /\ \A b \in B : b <= x
        BY <1>3, <2>2, <2>4, <2>5
      <4>3. Max(B) = x
        <5>1. x \in Int
          BY <2>2
        <5> QED
          BY <4>1, <4>2, <5>1, MaxIs
      <4>4. B \ {x} = A
        BY <1>3, <2>2, <2>4, <2>5
      <4> QED
        BY <1>2, <3>1, <4>1, <4>3, <4>4
    <3>3. /\ Drawing(f, u) /\ Noted(f, u)
          /\ u.data = OwnDataBefore(f, x)
          /\ Painted(f, u.data, u)
      BY <2>3, <3>1
    <3>4. /\ x \in Nat /\ u.data \in Seq(Nat)
          /\ OwnDataBefore(f, x + 1) = Append(u.data, x)
      BY <2>7, <3>3, NextByte
    <3>5. Drawing(f, t) /\ t.data = Append(u.data, x)
      BY <1>4, <3>1, <3>3, ScanDraws
    <3>6. Noted(f, t)
      BY <1>4, <3>1, <3>3, <3>4, ScanNotes
    <3>7. Painted(f, t.data, t)
      BY <2>7, <3>1, <3>3, ScanPaints
    <3> QED
      BY <3>2, <3>4, <3>5, <3>6, <3>7
  <2> QED
    BY <2>6, <2>7
<1>7. PICK n \in Nat : from + n = to
  <2>1. to - from \in Nat /\ from + (to - from) = to
    BY <1>3
  <2> QED
    BY <2>1
<1>8. n \in S
  <2> HIDE DEF S
  <2> QED
    BY <1>5, <1>6, SetInduction
<1>9. UpTo(n) = D
  BY <1>3, <1>7
<1>10. Good(D, to)
  <2> HIDE DEF Good, UpTo
  <2>1. from + n <= to
    BY <1>3, <1>7
  <2> QED
    BY <1>7, <1>8, <1>9, <2>1
<1> QED
  BY <1>2, <1>10

-----------------------------------------------------------------------------
(* What the buffers show stays while more arrives and is parsed.           *)

LEMMA FramesStay ==
  ASSUME DecoderInv, ParserInv', ParserKept, NEW k \in DOMAIN frame_info
  PROVE  /\ UNCHANGED <<file, is_animated, ihdr>>
         /\ Height(k)' = Height(k)
         /\ frame_info'[k].frame_rect.y = frame_info[k].frame_rect.y
         /\ frame_info'[k].disposal_method = frame_info[k].disposal_method
         /\ \A y : InRect(k, y)' = InRect(k, y)
         /\ Blends(k)' = Blends(k)
         /\ Canvas[k]' = Canvas[k] /\ Shown(k)' = Shown(k)
         /\ \A data, row : Layer(k, data, row)' = Layer(k, data, row)
<1>1. /\ SameFrame(frame_info[k], frame_info'[k])
      /\ UNCHANGED SizeVars /\ UNCHANGED file
      /\ \A y : InRect(k, y)' = InRect(k, y)
      /\ Blends(k)' = Blends(k)
      /\ Canvas[k]' = Canvas[k] /\ Shown(k)' = Shown(k)
  BY PictureStays DEF DecoderInv, ParserKept
<1>2. UNCHANGED <<is_animated, ihdr>>
  BY <1>1 DEF SizeVars
<1>3. /\ Height(k)' = Height(k)
      /\ frame_info'[k].frame_rect.y = frame_info[k].frame_rect.y
      /\ frame_info'[k].disposal_method = frame_info[k].disposal_method
  BY <1>1 DEF SameFrame, Height
<1>4. RowCount(Height(k))' = RowCount(Height(k))
  BY <1>1, <1>3 DEF RowCount
<1>5. \A data, row : Layer(k, data, row)' = Layer(k, data, row)
  BY <1>3, <1>4 DEF Layer
<1> QED
  BY <1>1, <1>2, <1>3, <1>5

LEMMA PaintingStays ==
  ASSUME DecoderInv, DecoderInv', ParserKept, NEW k \in 1 .. Known, NEW b,
         Painting(k, b)
  PROVE  Painting(k, b)'
<1>1. /\ UNCHANGED ihdr /\ Canvas[k]' = Canvas[k] /\ Shown(k)' = Shown(k)
      /\ Blends(k)' = Blends(k) /\ \A y : InRect(k, y)' = InRect(k, y)
  BY FrameKnown, FramesStay DEF DecoderInv
<1> QED
  BY <1>1 DEF Painting, PaintedRow

LEMMA RowsDrawnStay ==
  ASSUME DecoderInv, DecoderInv', ParserKept, NEW k \in 1 .. Known, NEW data,
         NEW b, RowsDrawn(k, data, b)
  PROVE  RowsDrawn(k, data, b)'
<1>1. /\ frame_info'[k].frame_rect.y = frame_info[k].frame_rect.y
      /\ Height(k)' = Height(k)
      /\ Shown(k)' = Shown(k) /\ Blends(k)' = Blends(k)
      /\ \A row : Layer(k, data, row)' = Layer(k, data, row)
  BY FrameKnown, FramesStay DEF DecoderInv
<1> QED
  BY <1>1 DEF RowsDrawn

LEMMA LinesDrawnStay ==
  ASSUME DecoderInv, DecoderInv', ParserKept, NEW k \in 1 .. Known, NEW data,
         NEW lines, NEW status, LinesDrawn(k, data, lines, status)
  PROVE  LinesDrawn(k, data, lines, status)'
<1>1. /\ UNCHANGED <<file, ihdr>> /\ Height(k)' = Height(k)
      /\ \A row : Layer(k, data, row)' = Layer(k, data, row)
  BY FrameKnown, FramesStay DEF DecoderInv
<1> QED
  BY <1>1 DEF LinesDrawn, Combined, RowCount

LEMMA StartsFromStays ==
  ASSUME DecoderInv, DecoderInv', ParserKept, NEW k \in DOMAIN frame_info,
         NEW r \in 0 .. k - 1, StartsFrom(k, r)
  PROVE  StartsFrom(k, r)'
<1>1. /\ UNCHANGED ihdr /\ Canvas[k]' = Canvas[k] /\ Blends(k)' = Blends(k)
      /\ \A y : InRect(k, y)' = InRect(k, y)
  BY FramesStay DEF DecoderInv
<1>2. CASE r = kNotFound
  BY <1>1, <1>2 DEF StartsFrom
<1>3. CASE r # kNotFound
  <2>1. r \in DOMAIN frame_info
    <3>1. DOMAIN frame_info = 1 .. Len(frame_info) /\ Len(frame_info) \in Nat
      BY FramesTyped DEF DecoderInv
    <3> QED
      BY <1>3, <3>1 DEF kNotFound
  <2>2. /\ frame_info'[r].disposal_method = frame_info[r].disposal_method
        /\ Shown(r)' = Shown(r) /\ \A y : InRect(r, y)' = InRect(r, y)
    BY <2>1, FramesStay DEF DecoderInv
  <2> QED
    BY <1>1, <1>3, <2>2 DEF StartsFrom
<1> QED
  BY <1>2, <1>3

-----------------------------------------------------------------------------
(* The frame a picture starts from.                                        *)

(* Frames that restore what was there leave the canvas as it was.          *)
LEMMA CanvasKept ==
  ASSUME DecoderInv, NEW a \in Nat, NEW i \in DOMAIN frame_info, a < i,
         \A k \in a + 1 .. i - 1 :
           frame_info[k].disposal_method = "kDisposeOverwritePrevious"
  PROVE  Canvas[i] = Canvas[a + 1]
<1>1. PICK n \in Nat : DOMAIN frame_info = 1 .. n /\ n = Len(frame_info)
  BY FramesTyped DEF DecoderInv
<1>2. \A j \in 1 .. n :
        Canvas[j] = IF j = 1 THEN Blank ELSE LeftBehind(j - 1, Canvas[j - 1])
  BY <1>1, CanvasUnfolds
<1> DEFINE S == {m \in Nat : a + 1 + m <= i
                               => Canvas[a + 1 + m] = Canvas[a + 1]}
<1>3. 0 \in S
  <2>1. a + 1 + 0 = a + 1
    OBVIOUS
  <2> QED
    BY <2>1
<1>4. ASSUME NEW m \in Nat, m \in S PROVE m + 1 \in S
  <2> SUFFICES ASSUME a + 1 + (m + 1) <= i
               PROVE  Canvas[a + 1 + (m + 1)] = Canvas[a + 1]
    OBVIOUS
  <2>1. PICK k : k = a + 1 + m
    OBVIOUS
  <2>2. /\ k \in Nat /\ k <= i - 1 /\ a + 1 <= k /\ a + 1 + (m + 1) = k + 1
        /\ (k + 1) - 1 = k /\ k + 1 # 1 /\ k + 1 \in 1 .. n /\ k \in a + 1 .. i - 1
    BY <1>1, <2>1
  <2>3. Canvas[k] = Canvas[a + 1]
    BY <1>1, <1>4, <2>1, <2>2
  <2>4. Canvas[k + 1] = LeftBehind(k, Canvas[k])
    BY <1>2, <2>2
  <2>5. frame_info[k].disposal_method = "kDisposeOverwritePrevious"
    BY <2>2
  <2>6. LeftBehind(k, Canvas[k]) = Canvas[k]
    BY <2>5 DEF LeftBehind
  <2> QED
    BY <2>2, <2>3, <2>4, <2>6
<1>5. i - (a + 1) \in Nat /\ a + 1 + (i - (a + 1)) = i
  BY <1>1
<1>6. i - (a + 1) \in S
  <2> HIDE DEF S
  <2> QED
    BY <1>3, <1>4, <1>5, SetInduction
<1> QED
  BY <1>1, <1>5, <1>6

(* The picture after a frame that leaves something.                        *)
LEMMA StartsFromKept ==
  ASSUME DecoderInv, NEW p \in DOMAIN frame_info, NEW i \in DOMAIN frame_info,
         p < i, p # kNotFound,
         frame_info[p].disposal_method # "kDisposeOverwritePrevious",
         \A k \in p + 1 .. i - 1 :
           frame_info[k].disposal_method = "kDisposeOverwritePrevious"
  PROVE  StartsFrom(i, p)
<1>1. PICK n \in Nat : DOMAIN frame_info = 1 .. n /\ n = Len(frame_info)
  BY FramesTyped DEF DecoderInv
<1>2. p \in Nat /\ p + 1 \in 1 .. n /\ p + 1 # 1 /\ (p + 1) - 1 = p
  BY <1>1
<1>3. Canvas[i] = Canvas[p + 1]
  BY <1>2, CanvasKept
<1>4. Canvas[p + 1] = LeftBehind(p, Canvas[p])
  BY <1>1, <1>2, CanvasUnfolds
<1>5. frame_info[p].disposal_method \in {"kDisposeKeep", "kDisposeOverwriteBgcolor"}
  BY FramesTyped DEF DecoderInv, FrameInfo
<1>6. CASE frame_info[p].disposal_method = "kDisposeKeep"
  BY <1>3, <1>4, <1>6 DEF LeftBehind, StartsFrom, Shown
<1>7. CASE frame_info[p].disposal_method = "kDisposeOverwriteBgcolor"
  <2>1. Canvas[i] = [y \in 1 .. ihdr.height |->
                       IF InRect(p, y) THEN <<>> ELSE Canvas[p][y]]
    BY <1>3, <1>4, <1>7 DEF LeftBehind
  <2>2. \A y \in 1 .. ihdr.height : ~InRect(p, y) => Shown(p)[y] = Canvas[p][y]
    BY ShownOutside
  <2> QED
    BY <1>7, <2>1, <2>2 DEF StartsFrom
<1> QED
  BY <1>5, <1>6, <1>7

LEMMA CoveringRect ==
  ASSUME ParserInv, NEW i, frame_info[i].frame_rect = ImageRect
  PROVE  \A y \in 1 .. ihdr.height : InRect(i, y)
<1>1. ihdr.height \in Nat
  BY FramesTyped
<1>2. frame_info[i].frame_rect.y = 0 /\ frame_info[i].frame_rect.height = ihdr.height
  BY DEF ImageRect
<1> QED
  BY <1>1, <1>2 DEF InRect

(* The required frame is the one the canvas was left by.                   *)
LEMMA RequiredStarts ==
  ASSUME DecoderInv, NEW i \in DOMAIN frame_info, NEW buffers,
         AreBuffers(buffers), Len(buffers) = i - 1,
         \A k \in 1 .. i - 1 : StartsFrom(k, buffers[k].required),
         NEW b, b.rect = frame_info[i].frame_rect,
         b.blend = frame_info[i].alpha_blend
  PROVE  StartsFrom(i, RequiredPreviousFrame(b, buffers))
<1>1. PICK n \in Nat : DOMAIN frame_info = 1 .. n /\ n = Len(frame_info)
  BY FramesTyped DEF DecoderInv
<1>2. /\ DOMAIN buffers = 1 .. i - 1 /\ i \in 1 .. n
      /\ \A k \in 1 .. i - 1 :
           /\ buffers[k].disposal = frame_info[k].disposal_method
           /\ buffers[k].rect = frame_info[k].frame_rect
           /\ buffers[k].required \in 0 .. k - 1
  BY <1>1, ListFacts DEF AreBuffers, IsBuffer
<1> DEFINE Keeping == {k \in DOMAIN buffers :
                         buffers[k].disposal # "kDisposeOverwritePrevious"}
<1>3. CASE Keeping = {}
  <2>1. RequiredPreviousFrame(b, buffers) = kNotFound
    BY <1>3 DEF RequiredPreviousFrame
  <2>2. \A k \in 0 + 1 .. i - 1 :
          frame_info[k].disposal_method = "kDisposeOverwritePrevious"
    BY <1>2, <1>3
  <2>3. 0 \in Nat /\ 0 < i /\ 0 + 1 = 1
    BY <1>2
  <2>4. Canvas[i] = Canvas[0 + 1]
    BY <2>2, <2>3, CanvasKept
  <2>5. Canvas[1] = Blank
    <3>1. 1 \in 1 .. n
      BY <1>2
    <3> QED
      BY <1>1, <3>1, CanvasUnfolds
  <2>6. \A y \in 1 .. ihdr.height : Canvas[i][y] = <<>>
    BY <2>3, <2>4, <2>5 DEF Blank
  <2>7. StartsFrom(i, kNotFound)
    BY <2>6 DEF StartsFrom
  <2> QED
    BY <2>1, <2>7
<1>4. CASE Keeping # {}
  <2>1. PICK p : p = Max(Keeping)
    OBVIOUS
  <2>2. p \in Keeping /\ \A k \in Keeping : k <= p
    <3>1. i - 1 \in Nat /\ Keeping \subseteq 0 .. i - 1
      BY <1>2
    <3> HIDE DEF Keeping
    <3> QED
      BY <1>4, <2>1, <3>1, GreatestNatural
  <2>3. /\ p \in 1 .. i - 1 /\ p \in DOMAIN frame_info /\ p < i /\ p # kNotFound
        /\ p \in Nat
        /\ frame_info[p].disposal_method # "kDisposeOverwritePrevious"
    BY <1>1, <1>2, <2>2 DEF kNotFound
  <2>4. ASSUME NEW k \in p + 1 .. i - 1
        PROVE  frame_info[k].disposal_method = "kDisposeOverwritePrevious"
    <3>1. k \in 1 .. i - 1 /\ ~(k <= p)
      BY <2>3
    <3>2. k \notin Keeping
      BY <2>2, <3>1
    <3> QED
      BY <1>2, <3>1, <3>2
  <2>5. StartsFrom(i, p)
    BY <2>3, <2>4, StartsFromKept
  <2>6. RequiredPreviousFrame(b, buffers)
          = IF \/ CoversImage(b) /\ b.blend = "kBlendAtopBgcolor"
               \/ p = kNotFound
               \/ /\ buffers[p].disposal = "kDisposeOverwriteBgcolor"
                  /\ CoversImage(buffers[p]) \/ buffers[p].required = kNotFound
              THEN kNotFound ELSE p
    BY <1>4, <2>1 DEF RequiredPreviousFrame
  <2>7. CASE CoversImage(b) /\ b.blend = "kBlendAtopBgcolor"
    <3>1. \A y \in 1 .. ihdr.height : InRect(i, y)
      BY <2>7, CoveringRect DEF CoversImage, DecoderInv
    <3>2. ~Blends(i)
      BY <2>7 DEF Blends
    <3>3. StartsFrom(i, kNotFound)
      BY <3>1, <3>2 DEF StartsFrom
    <3> QED
      BY <2>6, <2>7, <3>3
  <2>8. CASE /\ buffers[p].disposal = "kDisposeOverwriteBgcolor"
             /\ CoversImage(buffers[p]) \/ buffers[p].required = kNotFound
    <3>1. frame_info[p].disposal_method = "kDisposeOverwriteBgcolor"
      BY <1>2, <2>3, <2>8
    <3>2. ASSUME NEW y \in 1 .. ihdr.height PROVE Canvas[i][y] = <<>>
      <4>1. CASE InRect(p, y)
        BY <2>3, <2>5, <3>1, <4>1 DEF StartsFrom
      <4>2. CASE ~InRect(p, y)
        <5>1. buffers[p].required = kNotFound
          <6>1. CoversImage(buffers[p]) => InRect(p, y)
            BY <1>2, <2>3, CoveringRect DEF CoversImage, DecoderInv
          <6> QED
            BY <2>8, <4>2, <6>1
        <5>2. StartsFrom(p, kNotFound)
          BY <2>3, <5>1
        <5>3. Canvas[p][y] = <<>>
          BY <4>2, <5>2 DEF StartsFrom
        <5>4. Canvas[i][y] = Shown(p)[y]
          BY <2>3, <2>5, <4>2 DEF StartsFrom
        <5> QED
          BY <4>2, <5>3, <5>4, ShownOutside
      <4> QED
        BY <4>1, <4>2
    <3>3. StartsFrom(i, kNotFound)
      BY <3>2 DEF StartsFrom
    <3> QED
      BY <2>6, <2>8, <3>3
  <2>9. CASE RequiredPreviousFrame(b, buffers) = p
    BY <2>5, <2>9
  <2> QED
    BY <2>3, <2>6, <2>7, <2>8, <2>9
<1> QED
  BY <1>3, <1>4

LEMMA AddedStarts ==
  ASSUME DecoderInv, NEW i \in DOMAIN frame_info, NEW buffers,
         AreBuffers(buffers), Len(buffers) = i - 1,
         \A k \in 1 .. i - 1 : StartsFrom(k, buffers[k].required),
         NEW new, new = InitializeNewFrame(buffers, i)
  PROVE  StartsFrom(i, new[i].required) /\ new[i].rows = Blank
<1> DEFINE b == [status   |-> "kFrameEmpty",
                 rect     |-> frame_info[i].frame_rect,
                 disposal |-> frame_info[i].disposal_method,
                 blend    |-> frame_info[i].alpha_blend,
                 required |-> kNotFound,
                 opaque   |-> FALSE,
                 rows     |-> Blank]
           required == RequiredPreviousFrame(b, buffers)
           c == [b EXCEPT !.required = required]
<1>1. new = Append(buffers, c)
  BY DEF InitializeNewFrame
<1>2. b.rect = frame_info[i].frame_rect /\ b.blend = frame_info[i].alpha_blend
  OBVIOUS
<1>3. StartsFrom(i, required)
  <2> HIDE DEF b
  <2> QED
    BY <1>2, RequiredStarts
<1> HIDE DEF required
<1>4. c.required = required /\ c.rows = Blank
  OBVIOUS
<1> HIDE DEF c, b
<1>5. i \in Nat
  BY FramesTyped DEF DecoderInv
<1>6. new[i] = c
  <2>1. new[Len(buffers) + 1] = c
    BY <1>1, ListAppended DEF AreBuffers
  <2> QED
    BY <1>5, <2>1
<1> QED
  BY <1>3, <1>4, <1>6

LEMMA GrownStarts ==
  ASSUME DecoderInv, StartsInv, NEW c \in Nat, Known + c <= Len(frame_info),
         NEW grown, grown = FoldLeft(InitializeNewFrame, frame_buffer_cache,
                                     [n \in 1 .. c |-> Known + n])
  PROVE  \A k \in 1 .. Known + c : /\ StartsFrom(k, grown[k].required)
                                   /\ k > Known => grown[k].rows = Blank
<1>1. PICK g : /\ grown = g[1 .. c]
               /\ g[1 .. 0] = frame_buffer_cache
               /\ \A k \in Nat : k + 1 <= c =>
                    g[1 .. k + 1]
                      = InitializeNewFrame(g[1 .. k], Known + (k + 1))
  BY GrowUnfolds
<1>2. Known \in Nat /\ AreBuffers(frame_buffer_cache)
  BY KnownTyped DEF DecoderInv, CacheInv
<1>3. DOMAIN frame_info = 1 .. Len(frame_info) /\ Len(frame_info) \in Nat
  BY FramesTyped DEF DecoderInv
<1> DEFINE Starting(G, m) ==
             \A k \in 1 .. Known + m : /\ StartsFrom(k, G[k].required)
                                       /\ k > Known => G[k].rows = Blank
           Good(G, m) == /\ AreBuffers(G) /\ Len(G) = Known + m
                         /\ Starting(G, m)
           S == {m \in Nat : m <= c => Good(g[1 .. m], m)}
<1>4. 0 \in S
  <2>1. Known + 0 = Known /\ \A k \in 1 .. Known : ~(k > Known)
    BY <1>2
  <2>2. Starting(frame_buffer_cache, 0)
    BY <2>1 DEF StartsInv
  <2> HIDE DEF Starting
  <2> QED
    BY <1>1, <1>2, <2>1, <2>2 DEF Known
<1>5. ASSUME NEW m \in Nat, m \in S PROVE m + 1 \in S
  <2> SUFFICES ASSUME m + 1 <= c PROVE Good(g[1 .. m + 1], m + 1)
    OBVIOUS
  <2>1. PICK G, H, i : G = g[1 .. m] /\ H = g[1 .. m + 1] /\ i = Known + (m + 1)
    OBVIOUS
  <2>2. Good(G, m) /\ H = InitializeNewFrame(G, i)
    BY <1>1, <1>5, <2>1
  <2>3. /\ i \in Nat \ {0} /\ Len(G) = i - 1 /\ AreBuffers(G)
        /\ i = Known + m + 1 /\ i - 1 = Known + m
    BY <1>2, <2>1, <2>2
  <2>4. i \in DOMAIN frame_info
    BY <1>2, <1>3, <2>1, <2>3
  <2>5. /\ AreBuffers(H) /\ Len(H) = i
        /\ \A k \in 1 .. i - 1 : H[k] = G[k]
    BY <2>2, <2>3, BufferAdded
  <2>6. Starting(G, m)
    BY <2>2
  <2>7. StartsFrom(i, H[i].required) /\ H[i].rows = Blank
    <3>1. \A k \in 1 .. i - 1 : StartsFrom(k, G[k].required)
      BY <2>3, <2>6
    <3> QED
      BY <2>2, <2>3, <2>4, <3>1, AddedStarts
  <2>8. Starting(H, m + 1)
    <3>1. \A k \in 1 .. Known + (m + 1) : k = i \/ k \in 1 .. i - 1
      BY <1>2, <2>3
    <3>2. \A k \in 1 .. i - 1 : k \in 1 .. Known + m
      BY <2>3
    <3> QED
      BY <2>5, <2>6, <2>7, <3>1, <3>2
  <2> HIDE DEF Starting
  <2> QED
    BY <2>1, <2>5, <2>8
<1>6. c \in S
  <2> HIDE DEF S
  <2> QED
    BY <1>4, <1>5, SetInduction
<1>7. Starting(grown, c)
  <2> HIDE DEF Starting
  <2> QED
    BY <1>1, <1>6
<1> QED
  BY <1>7

(* What a frame starts from stays.                                         *)
LEMMA StartsStay ==
  ASSUME DecoderInv, StartsInv, DecoderInv', ParserKept, Known' = Known,
         \A k \in 1 .. Known : frame_buffer_cache'[k].required
                                 = frame_buffer_cache[k].required
  PROVE  StartsInv'
<1> SUFFICES ASSUME NEW k \in 1 .. Known,
                    NEW r, r = frame_buffer_cache[k].required
             PROVE  StartsFrom(k, r)'
  BY DEF StartsInv
<1>1. StartsFrom(k, r)
  BY DEF StartsInv
<1>2. r \in 0 .. k - 1 /\ k \in DOMAIN frame_info
  BY FrameKnown DEF IsBuffer
<1> QED
  BY <1>1, <1>2, StartsFromStays

(* The cache grows.                                                        *)
LEMMA GrowCacheStarts ==
  ASSUME DecoderInv, StartsInv, DecoderInv', ParserKept, GrowCache
  PROVE  /\ StartsInv' /\ Known <= Known'
         /\ \A k \in 1 .. Known' :
              /\ k <= Known => frame_buffer_cache'[k] = frame_buffer_cache[k]
              /\ k > Known =>
                   /\ frame_buffer_cache'[k].status = "kFrameEmpty"
                   /\ frame_buffer_cache'[k].rows = Blank
<1> DEFINE count == IF failed THEN Known ELSE Len(frame_info)
           c == count - Known
           grown == FoldLeft(InitializeNewFrame, frame_buffer_cache,
                             [n \in 1 .. c |-> Known + n])
<1>1. frame_buffer_cache' = grown
  <2> HIDE DEF grown
  <2> QED
    BY DEF GrowCache, grown
<1>2. Known \in Nat /\ Known <= Len(frame_info) /\ Len(frame_info) \in Nat
      /\ AreBuffers(frame_buffer_cache)
  BY KnownTyped, FramesTyped DEF DecoderInv, CacheInv
<1>3. c \in Nat /\ Known + c <= Len(frame_info)
  BY <1>2
<1>4. PICK new : new = grown
  OBVIOUS
<1> HIDE DEF c
<1>5. /\ Len(new) = Known + c
      /\ \A k \in 1 .. Known : new[k] = frame_buffer_cache[k]
      /\ \A k \in 1 .. Known + c : k > Known => new[k].status = "kFrameEmpty"
      /\ \A k \in 1 .. Known + c : StartsFrom(k, new[k].required)
      /\ \A k \in 1 .. Known + c : k > Known => new[k].rows = Blank
  BY <1>2, <1>3, <1>4, CacheGrown, GrownStarts
<1>6. frame_buffer_cache' = new /\ Known' = Known + c
  BY <1>1, <1>4, <1>5 DEF Known
<1>7. ASSUME NEW k \in 1 .. Known + c
      PROVE  StartsFrom(k, frame_buffer_cache[k].required)'
  <2>1. PICK r : r = new[k].required
    OBVIOUS
  <2>2. StartsFrom(k, r)
    BY <1>5, <2>1
  <2>3. k \in DOMAIN frame_info /\ IsBuffer(new[k], k)
    <3>1. AreBuffers(new)
      BY <1>2, <1>3, <1>4, CacheGrown
    <3>2. DOMAIN frame_info = 1 .. Len(frame_info)
      BY FramesTyped DEF DecoderInv
    <3> QED
      BY <1>2, <1>3, <1>5, <3>1, <3>2 DEF AreBuffers
  <2>4. r \in 0 .. k - 1
    BY <2>1, <2>3 DEF IsBuffer
  <2>5. StartsFrom(k, r)'
    BY <2>2, <2>3, <2>4, StartsFromStays
  <2> QED
    BY <1>6, <2>1, <2>5
<1>8. StartsInv'
  BY <1>6, <1>7 DEF StartsInv
<1> QED
  BY <1>2, <1>3, <1>5, <1>6, <1>8

-----------------------------------------------------------------------------
(* The steps of the decoder keep what the buffers show.                    *)

(* libpng has data of a frame whose buffer shows what that data makes; of  *)
(* an interlaced image it combines the rows.                               *)
DrawnInv ==
  ~failed /\ png.data # <<>> =>
    RowsDrawn(Fed, png.data, frame_buffer_cache[Fed])

LinesInv ==
  /\ ~file.interlaced => interlace_buffer = NoBuffer
  /\ file.interlaced /\ ~failed /\ Known # 0 =>
       LinesDrawn(1, png.data, interlace_buffer, frame_buffer_cache[1].status)

Showing == BuffersPainted(frame_buffer_cache) /\ DrawnInv /\ LinesInv

PaintInv == InterlacedIsStill => Showing

LEMMA OneStillFrame ==
  ASSUME DecoderInv, InterlacedIsStill, file.interlaced, Known # 0
  PROVE  ~is_animated /\ Known = 1
<1>1. Known \in Nat /\ Known <= Len(frame_info) /\ Len(frame_info) \in Nat
  BY KnownTyped, FramesTyped DEF DecoderInv, CacheInv
<1>2. ~is_animated
  BY DEF InterlacedIsStill
<1>3. frame_info # <<>>
  BY <1>1
<1>4. Len(frame_info) = 1
  BY <1>2, <1>3 DEF DecoderInv, ParserInv, RegisteredInv
<1> QED
  BY <1>1, <1>2, <1>4

LEMMA ShowingNow ==
  ASSUME DecoderInv, AlphaInv, PaintInv, ParserInv', ParserKept,
         InterlacedIsStill'
  PROVE  Showing /\ (Known # 0 => InterlacedIsStill)
<1>1. Known \in Nat /\ Known <= Len(frame_info) /\ Len(frame_info) \in Nat
      /\ DOMAIN frame_info = 1 .. Len(frame_info)
  BY KnownTyped, FramesTyped DEF DecoderInv, CacheInv
<1>2. CASE Known # 0
  <2>1. 1 \in DOMAIN frame_info
    BY <1>1, <1>2
  <2>2. UNCHANGED <<file, is_animated>>
    BY <2>1, FramesStay
  <2> QED
    BY <2>2 DEF InterlacedIsStill, PaintInv
<1>3. CASE Known = 0
  <2>1. BuffersPainted(frame_buffer_cache)
    BY <1>3 DEF BuffersPainted
  <2>2. DrawnInv
    BY <1>3 DEF AlphaInv, NotesInv, DrawnInv
  <2>3. CASE InterlacedIsStill
    BY <1>3, <2>3 DEF PaintInv
  <2>4. CASE ~InterlacedIsStill
    BY <1>3, <2>1, <2>2, <2>4 DEF InterlacedIsStill, LinesInv, Showing
  <2> QED
    BY <2>3, <2>4
<1> QED
  BY <1>2, <1>3

LEMMA EmptyStaysPainted ==
  ASSUME NEW i, NEW b, b.status = "kFrameEmpty", b.rows = Blank'
  PROVE  Painting(i, b)'
<1>1. IsList(<<>>)
  BY RepeatsOfNone
<1> QED
  BY <1>1 DEF Painting, PaintedRow, Blank

(* Buffers stay, or are emptied; empty ones are added.                     *)
CacheQuiet ==
  \A k \in 1 .. Known' :
    \/ k \in 1 .. Known /\ frame_buffer_cache'[k] = frame_buffer_cache[k]
    \/ /\ frame_buffer_cache'[k].status = "kFrameEmpty"
       /\ frame_buffer_cache'[k].rows = Blank'

(* The buffer of the frame that libpng has data of stays, or libpng is     *)
(* reset.                                                                  *)
FedQuiet ==
  \/ png'.data = <<>>
  \/ failed'
  \/ /\ UNCHANGED png /\ Fed' = Fed
     /\ Fed \in 1 .. Known => frame_buffer_cache'[Fed] = frame_buffer_cache[Fed]

(* Nothing happens to an interlaced image.                                 *)
LinesQuiet ==
  /\ interlace_buffer' \in {interlace_buffer, NoBuffer}
  /\ file.interlaced /\ ~failed' /\ Known # 0 =>
       /\ UNCHANGED <<png, interlace_buffer>>
       /\ frame_buffer_cache'[1] = frame_buffer_cache[1]

LEMMA ShowingStays ==
  ASSUME DecoderInv, AlphaInv, Showing, DecoderInv', ParserKept,
         failed => failed', Known <= Known', CacheQuiet, FedQuiet, LinesQuiet
  PROVE  Showing'
<1>1. Known \in Nat /\ file' = file
  BY KnownTyped DEF DecoderInv, ParserKept
<1>2. BuffersPainted(frame_buffer_cache)'
  <2>1. ASSUME NEW k \in 1 .. Known', NEW b, b = frame_buffer_cache'[k]
        PROVE  Painting(k, b)'
    <3>1. CASE k \in 1 .. Known /\ b = frame_buffer_cache[k]
      <4>1. Painting(k, b)
        BY <3>1 DEF Showing, BuffersPainted
      <4> QED
        BY <3>1, <4>1, PaintingStays
    <3>2. CASE b.status = "kFrameEmpty" /\ b.rows = Blank'
      BY <3>2, EmptyStaysPainted
    <3> QED
      BY <2>1, <3>1, <3>2 DEF CacheQuiet
  <2> QED
    BY <2>1 DEF BuffersPainted
<1>3. DrawnInv'
  <2> SUFFICES ASSUME ~failed', png'.data # <<>>
               PROVE  RowsDrawn(Fed, png.data, frame_buffer_cache[Fed])'
    BY DEF DrawnInv
  <2>1. /\ ~failed /\ UNCHANGED png /\ Fed' = Fed
        /\ Fed \in 1 .. Known
        /\ frame_buffer_cache'[Fed] = frame_buffer_cache[Fed]
    BY DEF FedQuiet, AlphaInv, NotesInv
  <2>2. PICK f, data, b :
          f = Fed /\ data = png.data /\ b = frame_buffer_cache[f]
    OBVIOUS
  <2>3. RowsDrawn(f, data, b)
    BY <2>1, <2>2 DEF Showing, DrawnInv
  <2>4. RowsDrawn(f, data, b)'
    BY <2>1, <2>2, <2>3, RowsDrawnStay
  <2> QED
    BY <2>1, <2>2, <2>4 DEF RowsDrawn
<1>4. LinesInv'
  <2>1. ~file'.interlaced => interlace_buffer' = NoBuffer
    BY <1>1 DEF LinesQuiet, Showing, LinesInv
  <2>2. ASSUME file'.interlaced, ~failed', Known' # 0
        PROVE  LinesDrawn(1, png.data, interlace_buffer,
                          frame_buffer_cache[1].status)'
    <3>1. CASE Known = 0
      <4>1. 1 \in 1 .. Known'
        BY <2>2, KnownStaysTyped DEF DecoderInv
      <4>2. frame_buffer_cache'[1].status = "kFrameEmpty"
        BY <3>1, <4>1 DEF CacheQuiet
      <4> QED
        BY <2>2, <4>2 DEF LinesDrawn
    <3>2. CASE Known # 0
      <4>1. PICK data, lines, status :
              /\ data = png.data /\ lines = interlace_buffer
              /\ status = frame_buffer_cache[1].status
        OBVIOUS
      <4>2. LinesDrawn(1, data, lines, status)
        BY <1>1, <2>2, <3>2, <4>1 DEF Showing, LinesInv
      <4>3. 1 \in 1 .. Known
        BY <1>1, <3>2
      <4>4. LinesDrawn(1, data, lines, status)'
        BY <4>2, <4>3, LinesDrawnStay
      <4>5. /\ png'.data = data /\ interlace_buffer' = lines
            /\ frame_buffer_cache'[1].status = status
        BY <1>1, <2>2, <3>2, <4>1 DEF LinesQuiet
      <4> QED
        BY <4>4, <4>5 DEF LinesDrawn, Combined
    <3> QED
      BY <3>1, <3>2
  <2> QED
    BY <2>1, <2>2 DEF LinesInv
<1> QED
  BY <1>2, <1>3, <1>4 DEF Showing

-----------------------------------------------------------------------------
(* One step at a time: the steps that draw nothing.                        *)

LEMMA QuietShows ==
  ASSUME DecoderInv, AlphaInv, StartsInv, Showing, DecoderInv', ParserKept,
         failed => failed', UNCHANGED frame_buffer_cache,
         \/ failed' /\ interlace_buffer' = NoBuffer
         \/ UNCHANGED <<png, interlace_buffer>> /\ Fed' = Fed
  PROVE  StartsInv' /\ Showing'
<1>1. Known' = Known /\ Known \in Nat
  BY KnownTyped DEF DecoderInv, Known
<1>2. CacheQuiet
  BY <1>1 DEF CacheQuiet
<1>3. FedQuiet /\ LinesQuiet
  BY DEF FedQuiet, LinesQuiet
<1>4. Known <= Known'
  BY <1>1
<1>5. Showing'
  BY <1>2, <1>3, <1>4, ShowingStays
<1>6. StartsInv'
  BY <1>1, StartsStay
<1> QED
  BY <1>5, <1>6

LEMMA QuietCallShows ==
  ASSUME DecoderInv, AlphaInv, StartsInv, Showing, DecoderInv', ParserKept,
         failed => failed',
         \/ SetData \/ AskSize \/ AskHighBitDepth
         \/ \E i \in 1 .. MaxFrames : AskFrame(i)
         \/ Parsing \/ SizeAnswered \/ Decode \/ FinishDecode
         \/ SkipDecodedChunk \/ AwaitFrameData \/ UNCHANGED allvars
  PROVE  StartsInv' /\ Showing'
<1> USE DEF call, loop, session, cache
<1>1. CASE DecodeFails
  <2>1. failed' /\ UNCHANGED frame_buffer_cache /\ interlace_buffer' = NoBuffer
    BY <1>1 DEF DecodeFails, LoseReader, Fail
  <2> QED
    BY <2>1, QuietShows
<1>2. CASE ~DecodeFails
  <2>1. UNCHANGED <<png, frame_buffer_cache, interlace_buffer>>
    BY <1>2 DEF SetData, AskSize, AskHighBitDepth, AskFrame, Parsing, SizeAnswered, Decode,
                FinishDecode, SkipDecodedChunk, AwaitFrameData, allvars
  <2>2. Fed' = Fed
    <3>1. CASE UNCHANGED allvars
      BY <3>1 DEF allvars, Fed
    <3>2. CASE ~UNCHANGED allvars
      <4>1. step # "whole" /\ step' # "whole"
        BY <1>2, <3>2 DEF SetData, AskSize, AskHighBitDepth, AskFrame, Parsing, SizeAnswered,
           Parsed, Decode, FinishDecode, SkipDecodedChunk, AwaitFrameData
      <4> QED
        BY <4>1 DEF Fed
    <3> QED
      BY <3>1, <3>2
  <2> QED
    BY <2>1, <2>2, QuietShows
<1> QED
  BY <1>1, <1>2

LEMMA GrowCacheShows ==
  ASSUME DecoderInv, AlphaInv, StartsInv, Showing, DecoderInv', ParserKept,
         failed => failed', GrowCache
  PROVE  StartsInv' /\ Showing'
<1> USE DEF session
<1>1. /\ step = "counting" /\ step' \in {"idle", "parsing"}
      /\ UNCHANGED <<png, interlace_buffer>>
  BY DEF GrowCache, Parsed
<1>2. UNCHANGED ihdr
  <2>1. UNCHANGED reader \/ BeginParse("kMetaData")
    BY DEF GrowCache, CallParse
  <2> QED
    BY <2>1 DEF BeginParse, reader, vars, header
<1>3. /\ StartsInv' /\ Known <= Known'
      /\ \A k \in 1 .. Known' :
           /\ k <= Known => frame_buffer_cache'[k] = frame_buffer_cache[k]
           /\ k > Known => /\ frame_buffer_cache'[k].status = "kFrameEmpty"
                           /\ frame_buffer_cache'[k].rows = Blank
  BY GrowCacheStarts
<1>4. Known \in Nat /\ Known' \in Nat
  BY KnownTyped, KnownStaysTyped DEF DecoderInv
<1>5. ASSUME NEW k \in 1 .. Known
      PROVE  frame_buffer_cache'[k] = frame_buffer_cache[k]
  <2>1. k \in 1 .. Known' /\ k <= Known
    BY <1>3, <1>4
  <2> QED
    BY <1>3, <2>1
<1>6. Blank' = Blank
  BY <1>2 DEF Blank
<1>7. CacheQuiet
  <2> SUFFICES ASSUME NEW k \in 1 .. Known'
               PROVE  \/ /\ k \in 1 .. Known
                         /\ frame_buffer_cache'[k] = frame_buffer_cache[k]
                      \/ /\ frame_buffer_cache'[k].status = "kFrameEmpty"
                         /\ frame_buffer_cache'[k].rows = Blank'
    BY DEF CacheQuiet
  <2>1. CASE k <= Known
    BY <1>4, <1>5, <2>1
  <2>2. CASE k > Known
    BY <1>3, <1>6, <2>2
  <2> QED
    BY <1>4, <2>1, <2>2
<1>8. FedQuiet
  <2>1. Fed' = Fed
    BY <1>1 DEF Fed
  <2>2. Fed \in 1 .. Known => frame_buffer_cache'[Fed] = frame_buffer_cache[Fed]
    BY <1>5
  <2> QED
    BY <1>1, <2>1, <2>2 DEF FedQuiet
<1>9. LinesQuiet
  <2>1. Known # 0 => 1 \in 1 .. Known
    BY <1>4
  <2> QED
    BY <1>1, <1>5, <2>1 DEF LinesQuiet
<1> QED
  BY <1>3, <1>7, <1>8, <1>9, ShowingStays

LEMMA BeginFrameShows ==
  ASSUME DecoderInv, SessionInv, AlphaInv, StartsInv, Showing, DecoderInv',
         ParserKept, failed => failed', Known # 0 => InterlacedIsStill,
         BeginFrame
  PROVE  StartsInv' /\ Showing'
<1> USE DEF cache
<1>1. /\ step = "frames" /\ todo # <<>> /\ step \notin Loops /\ is_animated
      /\ UNCHANGED <<frame_buffer_cache, interlace_buffer>>
  BY DEF BeginFrame, Loops
<1>2. PICK i : i = Head(todo)
  OBVIOUS
<1>3. i \in 1 .. Known /\ Known \in Nat
  BY <1>1, <1>2, HeadKnown, KnownTyped DEF DecoderInv
<1>4. Known # 0 /\ Known' = Known
  BY <1>1, <1>3 DEF Known
<1>5. ~file.interlaced
  BY <1>1, <1>4, OneStillFrame
<1>6. FedQuiet
  <2>1. CASE ShouldDecodeWithNewPNG(i)
    <3>1. png' = StartedPng(i)
      BY <1>2, <2>1 DEF BeginFrame
    <3> QED
      BY <3>1 DEF StartedPng, NewPng, FedQuiet
  <2>2. CASE ~ShouldDecodeWithNewPNG(i) /\ progressive_decode_offset = 0
    <3>1. UNCHANGED png
      BY <1>2, <2>2 DEF BeginFrame
    <3>2. png.data = <<>>
      BY <1>1, <2>2 DEF SessionInv, DecoderInv, RequestInv
    <3> QED
      BY <3>1, <3>2 DEF FedQuiet
  <2>3. CASE ~ShouldDecodeWithNewPNG(i) /\ progressive_decode_offset # 0
    <3>1. UNCHANGED png
      BY <1>2, <2>3 DEF BeginFrame
    <3>2. i = 1
      BY <1>3, <2>3 DEF ShouldDecodeWithNewPNG
    <3>3. step' = "progressive"
      BY <1>2, <2>3, <3>2 DEF BeginFrame
    <3>4. Fed' = Fed
      BY <1>1, <3>3 DEF Fed
    <3> QED
      BY <1>1, <3>1, <3>4 DEF FedQuiet
  <2> QED
    BY <2>1, <2>2, <2>3
<1>7. CacheQuiet /\ LinesQuiet
  BY <1>1, <1>4, <1>5 DEF CacheQuiet, LinesQuiet
<1>8. Known <= Known'
  BY <1>3, <1>4
<1>9. Showing'
  BY <1>6, <1>7, <1>8, ShowingStays
<1>10. StartsInv'
  BY <1>1, <1>4, StartsStay
<1> QED
  BY <1>9, <1>10

(* Frames are cleared, but never the only one.                             *)
LEMMA ClearedAreBlank ==
  ASSUME CacheInv, NEW S, NEW new, new = ClearedCache(S)
  PROVE  \A k \in 1 .. Known : k \in S => new[k].rows = Blank
<1> SUFFICES ASSUME NEW k \in 1 .. Known, k \in S PROVE new[k].rows = Blank
  OBVIOUS
<1>1. PICK b, rows : b = frame_buffer_cache[k] /\ rows = Blank
  OBVIOUS
<1>2. IsBuffer(b, k)
  BY <1>1 DEF CacheInv, AreBuffers, Known
<1>3. new[k] = [b EXCEPT !.status = "kFrameEmpty", !.rows = rows]
  BY <1>1 DEF ClearedCache
<1>4. new[k].rows = rows
  BY <1>2, <1>3 DEF IsBuffer
<1> QED
  BY <1>1, <1>4

LEMMA ClearingShows ==
  ASSUME DecoderInv, AlphaInv, StartsInv, Showing, DecoderInv', ParserKept,
         failed => failed', Known # 0 => InterlacedIsStill, UNCHANGED reader,
         UNCHANGED interlace_buffer, NEW S, ClearFrameBuffers(S),
         S # {} => Known > 1, step # "whole", step' # "whole"
  PROVE  StartsInv' /\ Showing'
<1>1. PICK new : new = frame_buffer_cache'
  OBVIOUS
<1>2. new = ClearedCache(S)
  BY <1>1 DEF ClearFrameBuffers, ClearedCache
<1>3. /\ Len(new) = Known
      /\ \A k \in 1 .. Known : new[k].required = frame_buffer_cache[k].required
      /\ \A k \in 1 .. Known : k \notin S => new[k] = frame_buffer_cache[k]
      /\ \A k \in 1 .. Known : k \in S => new[k].status = "kFrameEmpty"
      /\ \A k \in 1 .. Known : k \in S => new[k].rows = Blank
  BY <1>2, BuffersCleared, ClearedAreBlank DEF DecoderInv
<1>4. Known' = Known /\ Known \in Nat
  BY <1>1, <1>3, KnownTyped DEF DecoderInv, Known
<1>5. UNCHANGED failed /\ Fed' = Fed /\ Fed = 1
  BY DEF reader, vars, Fed
<1>6. Blank' = Blank
  BY DEF Blank, reader, vars, header
<1>7. CacheQuiet
  <2> SUFFICES ASSUME NEW k \in 1 .. Known
               PROVE  \/ frame_buffer_cache'[k] = frame_buffer_cache[k]
                      \/ /\ frame_buffer_cache'[k].status = "kFrameEmpty"
                         /\ frame_buffer_cache'[k].rows = Blank'
    BY <1>4 DEF CacheQuiet
  <2> QED
    BY <1>1, <1>3, <1>6
<1>8. FedQuiet
  <2>1. CASE failed'
    BY <2>1 DEF FedQuiet
  <2>2. CASE ~failed' /\ 1 \in S
    <3>1. png' = NoPng
      BY <1>5, <2>2 DEF ClearFrameBuffers
    <3> QED
      BY <3>1 DEF NoPng, FedQuiet
  <2>3. CASE 1 \notin S
    <3>1. UNCHANGED png
      BY <2>3 DEF ClearFrameBuffers
    <3>2. 1 \in 1 .. Known => frame_buffer_cache'[1] = frame_buffer_cache[1]
      BY <1>1, <1>3, <2>3
    <3> QED
      BY <1>5, <3>1, <3>2 DEF FedQuiet
  <2> QED
    BY <2>1, <2>2, <2>3
<1>9. LinesQuiet
  <2> SUFFICES ASSUME file.interlaced, Known # 0
               PROVE  /\ UNCHANGED png
                      /\ frame_buffer_cache'[1] = frame_buffer_cache[1]
    BY DEF LinesQuiet
  <2>1. Known = 1
    BY OneStillFrame
  <2>2. S = {}
    BY <2>1
  <2>3. 1 \in 1 .. Known
    BY <2>1
  <2> QED
    BY <1>1, <1>3, <2>2, <2>3 DEF ClearFrameBuffers
<1>10. Known <= Known'
  BY <1>4
<1>11. Showing'
  BY <1>7, <1>8, <1>9, <1>10, ShowingStays
<1>12. StartsInv'
  BY <1>1, <1>3, <1>4, StartsStay
<1> QED
  BY <1>11, <1>12

LEMMA PostDecodeShows ==
  ASSUME DecoderInv, AlphaInv, StartsInv, Showing, DecoderInv', ParserKept,
         failed => failed', Known # 0 => InterlacedIsStill,
         \/ PostDecodeProcessing
         \/ \E keep \in 0 .. MaxFrames : Purge(keep)
  PROVE  StartsInv' /\ Showing'
<1> USE DEF call
<1>1. /\ UNCHANGED reader /\ UNCHANGED interlace_buffer
      /\ step # "whole" /\ step' # "whole"
  BY DEF PostDecodeProcessing, Purge
<1>2. CASE UNCHANGED <<png, frame_buffer_cache>>
  <2>1. Fed' = Fed
    BY <1>1 DEF Fed
  <2> QED
    BY <1>1, <1>2, <2>1, QuietShows
<1>3. ASSUME NEW keep, ClearFrameBuffers(Clearable(keep))
      PROVE  StartsInv' /\ Showing'
  <2>1. PICK S : S = Clearable(keep)
    OBVIOUS
  <2>2. S # {} => Known > 1
    BY <2>1 DEF Clearable
  <2> QED
    BY <1>1, <1>3, <2>1, <2>2, ClearingShows
<1> QED
  BY <1>2, <1>3 DEF PostDecodeProcessing, Purge

(* The rows of the frame that libpng is given data of.                     *)
LEMMA FeedShows ==
  ASSUME DecoderInv, AlphaInv, StartsInv, DecoderInv', ParserKept,
         Known # 0 => InterlacedIsStill, UNCHANGED reader,
         NEW f \in 1 .. Known, NEW s,
         Len(s.buffers) = Known,
         \A k \in 1 .. Known : s.buffers[k].required
                                 = frame_buffer_cache[k].required,
         Painted(f, s.data, s), Feed(s), Fed' = f
  PROVE  StartsInv' /\ Showing'
<1>1. /\ png'.data = s.data
      /\ frame_buffer_cache' = s.buffers
      /\ interlace_buffer' = s.interlaced
  BY SessionFed DEF Feed
<1>2. Known' = Known /\ Known \in Nat
  BY <1>1, KnownTyped DEF DecoderInv, Known
<1>3. BuffersPainted(frame_buffer_cache)'
  <2>1. ASSUME NEW k \in 1 .. Known', NEW b, b = frame_buffer_cache'[k]
        PROVE  Painting(k, b)'
    <3>1. k \in 1 .. Known /\ Painting(k, b)
      BY <1>1, <1>2, <2>1 DEF Painted, BuffersPainted
    <3> QED
      BY <3>1, PaintingStays
  <2> QED
    BY <2>1 DEF BuffersPainted
<1>4. DrawnInv'
  <2>1. PICK data, b : data = s.data /\ b = s.buffers[f]
    OBVIOUS
  <2>2. RowsDrawn(f, data, b)
    BY <2>1 DEF Painted
  <2>3. RowsDrawn(f, data, b)'
    BY <2>2, RowsDrawnStay
  <2>4. png'.data = data /\ frame_buffer_cache'[f] = b /\ Fed' = f
    BY <1>1, <2>1
  <2> QED
    BY <2>3, <2>4 DEF DrawnInv, RowsDrawn
<1>5. LinesInv'
  <2>1. PICK data, lines, status : /\ data = s.data /\ lines = s.interlaced
                                   /\ status = s.buffers[f].status
    OBVIOUS
  <2>2. LinesDrawn(f, data, lines, status)
    BY <2>1 DEF Painted
  <2>3. /\ png'.data = data /\ interlace_buffer' = lines
        /\ frame_buffer_cache'[f].status = status
    BY <1>1, <2>1
  <2>4. UNCHANGED file
    BY DEF ParserKept
  <2>5. CASE ~file.interlaced
    BY <2>2, <2>3, <2>4, <2>5 DEF LinesInv, LinesDrawn
  <2>6. CASE file.interlaced
    <3>1. Known # 0
      BY <1>2
    <3>2. f = 1
      BY <2>6, <3>1, OneStillFrame
    <3>3. LinesDrawn(f, data, lines, status)'
      BY <2>2, LinesDrawnStay
    <3> QED
      BY <2>3, <2>4, <2>6, <3>2, <3>3 DEF LinesInv, LinesDrawn, Combined
  <2> QED
    BY <2>5, <2>6
<1>6. StartsInv'
  BY <1>1, <1>2, StartsStay
<1> QED
  BY <1>3, <1>4, <1>5, <1>6 DEF Showing

LEMMA FeedFailsShows ==
  ASSUME DecoderInv, AlphaInv, StartsInv, DecoderInv', ParserKept,
         NEW f \in 1 .. Known, NEW s, Drawing(f, s), BuffersPainted(s.buffers),
         FeedFails(s)
  PROVE  StartsInv' /\ Showing'
<1>1. /\ frame_buffer_cache' = s.buffers
      /\ interlace_buffer' = NoBuffer /\ failed'
  BY DEF FeedFails, LoseReader, Fail
<1>2. /\ Len(s.buffers) = Known
      /\ \A k \in 1 .. Known : s.buffers[k].required
                                 = frame_buffer_cache[k].required
  BY DEF Drawing
<1>3. Known' = Known /\ Known \in Nat
  BY <1>1, <1>2, KnownTyped DEF DecoderInv, Known
<1>4. BuffersPainted(frame_buffer_cache)'
  <2>1. ASSUME NEW k \in 1 .. Known', NEW b, b = frame_buffer_cache'[k]
        PROVE  Painting(k, b)'
    <3>1. k \in 1 .. Known /\ Painting(k, b)
      BY <1>1, <1>3, <2>1 DEF BuffersPainted
    <3> QED
      BY <3>1, PaintingStays
  <2> QED
    BY <2>1 DEF BuffersPainted
<1>5. DrawnInv' /\ LinesInv'
  BY <1>1 DEF DrawnInv, LinesInv
<1>6. StartsInv'
  BY <1>1, <1>2, <1>3, StartsStay
<1> QED
  BY <1>4, <1>5, <1>6 DEF Showing

-----------------------------------------------------------------------------
(* The steps that draw.                                                    *)

LEMMA NeededIs ==
  ASSUME DecoderInv, NEW f, Fits(f)
  PROVE  /\ Needed = RowCount(Height(f)) /\ Needed \in Nat
         /\ Height(f) \in Nat /\ Height(f) <= Needed
<1>1. Needed = RowCount(Height(f))
  BY DEF Fits, Needed, RowCount, Height
<1>2. FileInv /\ Height(f) \in Nat /\ SessionHeight \in Nat
  BY DEF DecoderInv, ParserInv, DataInv, Fits, Height
<1>3. Needed \in Nat
  BY <1>2, NeededTyped
<1>4. Height(f) <= RowCount(Height(f))
  BY <1>2, RowCountTyped
<1> QED
  BY <1>1, <1>2, <1>3, <1>4

LEMMA HeadPaints ==
  ASSUME DecoderInv, SessionInv, AlphaInv, FitInv, StartsInv, Showing,
         Known # 0 => InterlacedIsStill, Decoding, NEW f, f = Head(todo),
         NEW from, NEW to, NEW D, NextData(f, from, to, D), NEW writable,
         NEW s, s = RowStateAfter(f, D, writable)
  PROVE  /\ f \in 1 .. Known /\ Fits(f) /\ Drawing(f, s) /\ Noted(f, s)
         /\ s.data = OwnDataBefore(f, to) /\ Painted(f, s.data, s)
<1>1. todo # <<>> /\ step \in Loops \cup {"frames"}
  BY DEF Decoding
<1>2. /\ f \in 1 .. Known /\ Fits(f) /\ (png.data # <<>> => Fed = f)
      /\ ~failed /\ Prepared(f)
  BY <1>1, SessionFits DEF DecoderInv, RequestInv, TodoInv
<1>3. Known \in Nat /\ Known # 0
  <2>1. Known \in Nat
    BY KnownTyped DEF DecoderInv
  <2> QED
    BY <1>2, <2>1
<1>4. InterlacedIsStill
  BY <1>3
<1>5. IsBounded(D)
  BY OwnDataFed DEF NextData
<1>6. Drawing(f, s) /\ Noted(f, s)
  BY <1>5, RowsNoted
<1>7. Noted(f, RowState)
  BY HeadNoted
<1>8. BuffersPainted(frame_buffer_cache)
  BY DEF Showing
<1>9. RowsDrawn(f, png.data, frame_buffer_cache[f])
  <2>1. CASE png.data = <<>>
    <3>1. \A row : Layer(f, png.data, row) = {}
      BY <2>1, NoLayer
    <3> QED
      BY <3>1 DEF RowsDrawn
  <2>2. CASE png.data # <<>>
    BY <1>2, <2>2 DEF Showing, DrawnInv
  <2> QED
    BY <2>1, <2>2
<1>10. LinesDrawn(f, png.data, interlace_buffer, frame_buffer_cache[f].status)
  <2>1. CASE file.interlaced
    <3>1. Known = 1
      BY <1>3, <1>4, <2>1, OneStillFrame
    <3>2. f = 1
      BY <1>2, <3>1
    <3> QED
      BY <1>2, <1>3, <2>1, <3>2 DEF Showing, LinesInv
  <2>2. CASE ~file.interlaced
    BY <2>2 DEF Showing, LinesInv, LinesDrawn
  <2> QED
    BY <2>1, <2>2
<1>11. Painted(f, png.data, RowState)
  BY <1>8, <1>9, <1>10 DEF Painted, RowState
<1>12. s.data = OwnDataBefore(f, to) /\ Painted(f, s.data, s)
  BY <1>2, <1>4, <1>7, <1>8, <1>11, DataPaints
<1> QED
  BY <1>2, <1>6, <1>12

(* A frame all of whose rows have been drawn shows itself.                 *)
LEMMA DrawnRowsShow ==
  ASSUME DecoderInv, FitInv, NEW f \in 1 .. Known, Fits(f),
         NEW m \in Nat, NEW data, data = OwnDataBefore(f, m),
         ~(Len(data) < Needed), NEW b, Painting(f, b), RowsDrawn(f, data, b),
         b.status \in Statuses,
         b.status = "kFrameEmpty" => data = <<>> \/ Needed = 0
  PROVE  \A y \in 1 .. ihdr.height : /\ IsList(b.rows[y])
                                     /\ WithoutRepeats(b.rows[y]) = Shown(f)[y]
<1>1. /\ f \in DOMAIN frame_info /\ ParserInv /\ FileInv
  BY FrameKnown DEF DecoderInv, ParserInv, DataInv
<1>2. /\ Needed = RowCount(Height(f)) /\ Needed \in Nat
      /\ Height(f) \in Nat /\ Height(f) <= Needed
  BY NeededIs
<1>3. data \in Seq(Nat)
  <2>1. PICK B : B = {o \in OwnData(f) : o < m}
    OBVIOUS
  <2>2. IsBounded(B)
    BY <2>1, OwnDataBounded, SmallerIsBounded
  <2> QED
    BY <2>1, <2>2, InOrderTyped DEF OwnDataBefore
<1>4. Len(data) \in Nat /\ Len(data) >= RowCount(Height(f))
  <2>1. Len(data) \in Nat
    BY <1>3
  <2> QED
    BY <1>2, <2>1
<1> SUFFICES ASSUME NEW y \in 1 .. ihdr.height
             PROVE  /\ IsList(b.rows[y])
                    /\ WithoutRepeats(b.rows[y]) = Shown(f)[y]
  OBVIOUS
<1>5. PaintedRow(f, y, b.rows, b.status)
  BY DEF Painting
<1>6. b.status # "kFrameEmpty"
  <2> SUFFICES ASSUME b.status = "kFrameEmpty" PROVE FALSE
    OBVIOUS
  <2>1. Needed = 0
    <3>1. data = <<>> => Len(data) = 0
      OBVIOUS
    <3> QED
      BY <1>2, <1>4, <3>1
  <2>2. Height(f) = 0
    BY <1>2, <2>1
  <2>3. ~is_animated
    BY <1>1, <2>2, FramesFit
  <2>4. ihdr.height = 0
    BY <1>1, <2>2, <2>3, FramesFit
  <2> QED
    BY <2>4
<1>7. CASE ~InRect(f, y)
  BY <1>5, <1>6, <1>7 DEF PaintedRow
<1>8. CASE InRect(f, y)
  <2>1. PICK row \in 1 .. Height(f) : y = frame_info[f].frame_rect.y + row
    BY <1>1, <1>8, RowsInImage
  <2>2. y - frame_info[f].frame_rect.y = row
    BY <1>1, <2>1, RowsInImage
  <2>3. PICK own : own = Layer(f, data, row)
    OBVIOUS
  <2>4. own # {}
    BY <1>1, <1>2, <1>3, <1>4, <2>3, LayerThere
  <2>5. own = RowData(f, row)
    BY <1>1, <1>4, <2>3, LayersOwn
  <2>6. IF Blends(f) THEN WithoutRepeats(b.rows[y]) = Shown(f)[y]
                     ELSE b.rows[y] = <<own>>
    BY <2>1, <2>3, <2>4 DEF RowsDrawn
  <2>7. ~Blends(f) => Shown(f)[y] = <<own>>
    BY <1>8, <2>2, <2>5 DEF Shown, DrawnOn
  <2>8. ~Blends(f) => WithoutRepeats(b.rows[y]) = <<own>>
    BY <2>6, RepeatsOfOne
  <2> QED
    BY <1>5, <2>6, <2>7, <2>8 DEF PaintedRow
<1> QED
  BY <1>7, <1>8

LEMMA CompletedShows ==
  ASSUME DecoderInv, FitInv, NEW f \in 1 .. Known, NEW s,
         Drawing(f, s), Noted(f, s), Fits(f), NEW m \in Nat,
         s.data = OwnDataBefore(f, m), ~(Len(s.data) < Needed),
         Painted(f, s.data, s), NEW t, t.interlaced = NoBuffer,
         t.buffers = Completed(s.buffers, f, s.saw_alpha)
  PROVE  /\ Painted(f, s.data, t) /\ Len(t.buffers) = Known
         /\ \A k \in 1 .. Known : t.buffers[k].required
                                    = frame_buffer_cache[k].required
<1>1. PICK old, new, saw_alpha, data :
        /\ old = s.buffers /\ saw_alpha = s.saw_alpha
        /\ new = Completed(old, f, saw_alpha) /\ data = s.data
  OBVIOUS
<1>2. /\ AreBuffers(old) /\ Len(old) = Known /\ saw_alpha \in BOOLEAN
      /\ \A k \in 1 .. Known : old[k].required = frame_buffer_cache[k].required
  BY <1>1 DEF Drawing
<1>3. f \in 1 .. Len(old)
  BY <1>2
<1>4. /\ Len(new) = Known
      /\ \A k \in 1 .. Known : new[k].required = old[k].required
      /\ new[f].status = "kFrameComplete" /\ new[f].rows = old[f].rows
      /\ \A k \in 1 .. Known : k # f => new[k] = old[k]
  BY <1>1, <1>2, <1>3, BufferCompleted
<1>5. PICK b : b = old[f]
  OBVIOUS
<1>6. Painting(f, b) /\ RowsDrawn(f, data, b)
  BY <1>1, <1>5 DEF Painted, BuffersPainted
<1>7. b.status \in Statuses
  <2>1. IsBuffer(b, f)
    BY <1>2, <1>3, <1>5 DEF AreBuffers
  <2> QED
    BY <2>1 DEF IsBuffer
<1>8. b.status = "kFrameEmpty" => data = <<>> \/ Needed = 0
  BY <1>1, <1>5 DEF Noted
<1>9. \A y \in 1 .. ihdr.height : /\ IsList(b.rows[y])
                                  /\ WithoutRepeats(b.rows[y]) = Shown(f)[y]
  BY <1>1, <1>6, <1>7, <1>8, DrawnRowsShow
<1>10. Painting(f, new[f])
  BY <1>4, <1>5, <1>9 DEF Painting, PaintedRow
<1>11. BuffersPainted(new)
  <2>1. ASSUME NEW k \in 1 .. Known PROVE Painting(k, new[k])
    <3>1. CASE k = f
      BY <1>10, <3>1
    <3>2. CASE k # f
      BY <1>1, <1>4, <3>2 DEF Painted, BuffersPainted
    <3> QED
      BY <3>1, <3>2
  <2> QED
    BY <2>1 DEF BuffersPainted
<1>12. RowsDrawn(f, data, new[f])
  BY <1>4, <1>5, <1>6 DEF RowsDrawn
<1>13. LinesDrawn(f, data, NoBuffer, new[f].status)
  <2>1. Len(data) >= RowCount(Height(f))
    <3>1. Needed = RowCount(Height(f)) /\ Needed \in Nat
      BY NeededIs
    <3>2. data \in Seq(Nat)
      <4>1. PICK B : B = {o \in OwnData(f) : o < m}
        OBVIOUS
      <4>2. IsBounded(B)
        BY <4>1, OwnDataBounded, SmallerIsBounded
      <4> QED
        BY <1>1, <4>1, <4>2, InOrderTyped DEF OwnDataBefore
    <3>3. Len(data) \in Nat
      BY <3>2
    <3> QED
      BY <1>1, <3>1, <3>3
  <2> QED
    BY <1>4, <2>1 DEF LinesDrawn
<1> QED
  BY <1>1, <1>2, <1>4, <1>11, <1>12, <1>13 DEF Painted

LEMMA EndFrameShows ==
  ASSUME DecoderInv, SessionInv, AlphaInv, FitInv, StartsInv, Showing,
         DecoderInv', ParserKept, failed => failed',
         Known # 0 => InterlacedIsStill,
         EndFrame, step \in Loops
  PROVE  StartsInv' /\ Showing'
<1>1. CASE DecodeFails
  <2>1. failed' /\ UNCHANGED frame_buffer_cache /\ interlace_buffer' = NoBuffer
    BY <1>1 DEF DecodeFails, LoseReader, Fail, cache
  <2> QED
    BY <2>1, QuietShows
<1>2. CASE ~DecodeFails
  <2>1. PICK f, s, t, data :
          /\ f = current_frame /\ s = RowState /\ data = png.data
          /\ t = [s EXCEPT !.interlaced = NoBuffer,
                           !.buffers = Completed(frame_buffer_cache, f,
                                                 current_buffer_saw_alpha)]
    OBVIOUS
  <2>2. /\ frame_buffer_cache' = Completed(frame_buffer_cache, f,
                                           current_buffer_saw_alpha)
        /\ png' = NoPng /\ interlace_buffer' = NoBuffer
        /\ ~(Len(data) < Needed)
    BY <1>2, <2>1 DEF EndFrame
  <2>3. f = Head(todo) /\ Decoding /\ is_animated
    BY <2>1 DEF DecoderInv, TodoInv, OffsetInv, Decoding
  <2>4. f \in 1 .. Known /\ Fits(f) /\ Noted(f, s)
        /\ (png.data # <<>> => Fed = f) /\ ~failed
    BY <2>1, <2>3, SessionFits, HeadNoted DEF DecoderInv, RequestInv
  <2>5. Drawing(f, s)
    BY <2>1, DrawingStarts DEF DecoderInv, RequestInv
  <2>6. PICK m \in Nat : data = OwnDataBefore(f, m)
    BY <2>1, SessionIsOwn
  <2>7. /\ s.data = data /\ s.buffers = frame_buffer_cache
        /\ s.saw_alpha = current_buffer_saw_alpha
        /\ s.interlaced = interlace_buffer
    BY <2>1 DEF RowState
  <2>8. t.interlaced = NoBuffer
        /\ t.buffers = Completed(s.buffers, f, s.saw_alpha)
    BY <2>1, <2>7 DEF RowState
  <2>9. Known \in Nat /\ Known # 0
    <3>1. Known \in Nat
      BY KnownTyped DEF DecoderInv
    <3> QED
      BY <2>4, <3>1
  <2>10. ~file.interlaced
    BY <2>3, <2>9, OneStillFrame
  <2>11. Painted(f, data, s)
    <3>1. RowsDrawn(f, data, s.buffers[f])
      <4>1. CASE data = <<>>
        <5>1. \A row : Layer(f, data, row) = {}
          BY <4>1, NoLayer
        <5> QED
          BY <5>1 DEF RowsDrawn
      <4>2. CASE data # <<>>
        BY <2>1, <2>4, <2>7, <4>2 DEF Showing, DrawnInv
      <4> QED
        BY <4>1, <4>2
    <3>2. LinesDrawn(f, data, s.interlaced, s.buffers[f].status)
      BY <2>7, <2>10 DEF Showing, LinesInv, LinesDrawn
    <3> QED
      BY <2>7, <3>1, <3>2 DEF Painted, Showing
  <2>12. /\ Painted(f, data, t) /\ Len(t.buffers) = Known
         /\ \A k \in 1 .. Known : t.buffers[k].required
                                    = frame_buffer_cache[k].required
    BY <2>2, <2>4, <2>5, <2>6, <2>7, <2>8, <2>11, CompletedShows
  <2>13. frame_buffer_cache' = t.buffers
    BY <2>2, <2>7, <2>8
  <2>14. Known' = Known
    BY <2>12, <2>13 DEF Known
  <2>15. BuffersPainted(frame_buffer_cache)'
    <3>1. ASSUME NEW k \in 1 .. Known', NEW b, b = frame_buffer_cache'[k]
          PROVE  Painting(k, b)'
      <4>1. k \in 1 .. Known /\ Painting(k, b)
        BY <2>12, <2>13, <2>14, <3>1 DEF Painted, BuffersPainted
      <4> QED
        BY <4>1, PaintingStays
    <3> QED
      BY <3>1 DEF BuffersPainted
  <2>16. DrawnInv'
    BY <2>2 DEF DrawnInv, NoPng
  <2>17. LinesInv'
    BY <2>2, <2>10 DEF LinesInv, ParserKept
  <2>18. StartsInv'
    BY <2>12, <2>13, <2>14, StartsStay
  <2> QED
    BY <2>15, <2>16, <2>17, <2>18 DEF Showing
<1> QED
  BY <1>1, <1>2

LEMMA WholeChunkShows ==
  ASSUME DecoderInv, SessionInv, AlphaInv, FitInv, StartsInv, Showing,
         DecoderInv', ParserKept, Known # 0 => InterlacedIsStill, WholeChunk
  PROVE  StartsInv' /\ Showing'
<1> USE DEF call
<1>1. step = "whole" /\ step \in Loops
  BY DEF WholeChunk, Loops
<1>2. PICK f, D, from, to :
        /\ f = current_frame /\ D = Payload(offset)
        /\ from = offset /\ to = here_end
  OBVIOUS
<1>3. PICK writable, s :
        /\ s = RowStateAfter(f, D, writable)
        /\ \/ FeedFails(s)
           \/ Feed(s) /\ UNCHANGED <<reader, current_frame, step>>
  BY <1>2 DEF WholeChunk
<1>4. NextData(f, from, to, D)
  BY <1>2, WholeChunkData
<1>5. f = Head(todo) /\ Decoding
  BY <1>1, <1>2 DEF DecoderInv, TodoInv, Decoding
<1>6. f \in 1 .. Known /\ Drawing(f, s) /\ Painted(f, s.data, s)
  BY <1>3, <1>4, <1>5, HeadPaints
<1>7. CASE FeedFails(s)
  BY <1>6, <1>7, FeedFailsShows DEF Painted
<1>8. CASE Feed(s) /\ UNCHANGED <<reader, current_frame, step>>
  <2>1. Fed' = f
    BY <1>1, <1>2, <1>8 DEF Fed
  <2>2. /\ Len(s.buffers) = Known
        /\ \A k \in 1 .. Known : s.buffers[k].required
                                   = frame_buffer_cache[k].required
    BY <1>6 DEF Drawing
  <2> QED
    BY <1>6, <1>8, <2>1, <2>2, FeedShows
<1> QED
  BY <1>3, <1>7, <1>8

LEMMA ProgressiveChunkShows ==
  ASSUME DecoderInv, SessionInv, AlphaInv, FitInv, StartsInv, Showing,
         DecoderInv', ParserKept, Known # 0 => InterlacedIsStill,
         ProgressiveChunk
  PROVE  StartsInv' /\ Showing'
<1>1. step = "progressive" /\ step \in Loops
  BY DEF ProgressiveChunk, Loops
<1>2. PICK f, D, from, to :
        /\ f = current_frame /\ from = progressive_decode_offset
        /\ to = FedUpTo(ResumeAt, here_end)
        /\ D = {o \in Payload(offset) : ResumeAt <= o /\ o < to}
  OBVIOUS
<1>3. PICK writable, s :
        /\ s = RowStateAfter(f, D, writable)
        /\ \/ FeedFails(s)
           \/ /\ Feed(s) /\ UNCHANGED reader
              /\ step' \in {"progressive", "decoded"}
  BY <1>1, <1>2 DEF ProgressiveChunk
<1>4. f = Head(todo) /\ Decoding /\ f = 1
  BY <1>1, <1>2 DEF DecoderInv, TodoInv, OffsetInv, Decoding
<1>5. NextData(f, from, to, D)
  BY <1>2, <1>4, ProgressiveChunkData
<1>6. f \in 1 .. Known /\ Drawing(f, s) /\ Painted(f, s.data, s)
  BY <1>3, <1>4, <1>5, HeadPaints
<1>7. CASE FeedFails(s)
  BY <1>6, <1>7, FeedFailsShows DEF Painted
<1>8. CASE Feed(s) /\ UNCHANGED reader /\ step' \in {"progressive", "decoded"}
  <2>1. Fed' = f
    BY <1>4, <1>8 DEF Fed
  <2>2. /\ Len(s.buffers) = Known
        /\ \A k \in 1 .. Known : s.buffers[k].required
                                   = frame_buffer_cache[k].required
    BY <1>6 DEF Drawing
  <2> QED
    BY <1>6, <1>8, <2>1, <2>2, FeedShows
<1> QED
  BY <1>3, <1>7, <1>8

LEMMA StillImageShows ==
  ASSUME DecoderInv, SessionInv, AlphaInv, FitInv, StartsInv, Showing,
         DecoderInv', ParserKept, Known # 0 => InterlacedIsStill, StillImage
  PROVE  StartsInv' /\ Showing'
<1>1. step = "frames" /\ todo # <<>> /\ ~is_animated /\ Decoding
  BY DEF StillImage, Decoding
<1>2. PICK s : StillFed(s)
  BY StillImageFeeds
<1>3. PICK D, f, from, to, writable :
        /\ D = StillDrawn /\ f = Head(todo) /\ from = StillFrom /\ to = StillTo
        /\ writable = FALSE
  OBVIOUS
<1>4. f \in 1 .. Known
  BY <1>1, <1>3, SessionFits
<1>5. f = 1
  <2>1. /\ Len(frame_info) = 1 /\ Known \in Nat /\ Known <= Len(frame_info)
    BY <1>1, HeadKnown, KnownTyped
       DEF DecoderInv, CacheInv, ParserInv, RegisteredInv
  <2> QED
    BY <1>4, <2>1
<1>6. NextData(f, from, to, D) /\ to \in Nat
  BY <1>1, <1>3, <1>5, StillImageData DEF NextData
<1>7. s = RowStateAfter(f, D, writable)
  BY <1>2, <1>3 DEF StillFed
<1>8. /\ Fits(f) /\ Drawing(f, s) /\ Noted(f, s)
      /\ s.data = OwnDataBefore(f, to) /\ Painted(f, s.data, s)
  BY <1>1, <1>3, <1>6, <1>7, HeadPaints
<1>9. CASE FeedFails(s)
  BY <1>4, <1>8, <1>9, FeedFailsShows DEF Painted
<1>10. step' = "decoded" => Fed' = f
  BY <1>5 DEF Fed
<1>11. CASE Feed(s) /\ step' = "decoded" /\ UNCHANGED reader
  <2>1. /\ Len(s.buffers) = Known
        /\ \A k \in 1 .. Known : s.buffers[k].required
                                   = frame_buffer_cache[k].required
    BY <1>8 DEF Drawing
  <2> QED
    BY <1>4, <1>8, <1>10, <1>11, <2>1, FeedShows
<1>12. CASE /\ Feed(StillDone(s)) /\ ~(Len(s.data) < Needed)
            /\ step' = "decoded" /\ UNCHANGED reader
  <2>1. PICK t : t = StillDone(s)
    OBVIOUS
  <2>2. /\ t.data = s.data /\ t.interlaced = NoBuffer
        /\ t.buffers = Completed(s.buffers, f, s.saw_alpha)
    BY <1>3, <1>8, <2>1 DEF Drawing, StillDone
  <2>3. Feed(t)
    BY <1>12, <2>1
  <2>4. /\ Painted(f, s.data, t) /\ Len(t.buffers) = Known
        /\ \A k \in 1 .. Known : t.buffers[k].required
                                   = frame_buffer_cache[k].required
    BY <1>4, <1>6, <1>8, <1>12, <2>2, CompletedShows
  <2> QED
    BY <1>4, <1>10, <1>12, <2>2, <2>3, <2>4, FeedShows
<1> QED
  BY <1>2, <1>9, <1>11, <1>12 DEF StillFed

(* Frames lie in the image, start from what is left of those before, and   *)
(* show what has been drawn of them.                                       *)
ShowInv == FitInv /\ (InterlacedIsStill => StartsInv) /\ PaintInv

LEMMA ShowStep ==
  ASSUME DecoderInv, SessionInv, AlphaInv, ShowInv, DecoderInv',
         [DecoderNext]_allvars
  PROVE  ShowInv'
<1>1. ParserKept /\ (failed => failed')
  BY ParserStep, FailedStays DEF DecoderInv
<1>2. FitInv'
  BY ReaderMoves, FitStep DEF ShowInv, DecoderInv
<1> SUFFICES ASSUME InterlacedIsStill' PROVE StartsInv' /\ Showing'
  BY <1>2 DEF ShowInv, PaintInv
<1>3. Showing /\ (Known # 0 => InterlacedIsStill)
  BY <1>1, ShowingNow DEF ShowInv, DecoderInv
<1>4. FitInv /\ StartsInv
  <2>1. Known = 0 => StartsInv
    BY DEF StartsInv
  <2> QED
    BY <1>3, <2>1 DEF ShowInv
<1>5. CASE \/ SetData \/ AskSize \/ AskHighBitDepth
           \/ \E i \in 1 .. MaxFrames : AskFrame(i)
           \/ Parsing \/ SizeAnswered \/ Decode \/ FinishDecode
           \/ SkipDecodedChunk \/ AwaitFrameData \/ UNCHANGED allvars
  BY <1>1, <1>3, <1>4, <1>5, QuietCallShows
<1>6. CASE GrowCache
  BY <1>1, <1>3, <1>4, <1>6, GrowCacheShows
<1>7. CASE BeginFrame
  BY <1>1, <1>3, <1>4, <1>7, BeginFrameShows
<1>8. CASE StillImage
  BY <1>1, <1>3, <1>4, <1>8, StillImageShows
<1>9. CASE FirstFrameEnds \/ WholeFrameEnds
  <2>1. EndFrame /\ step \in Loops
    BY <1>9 DEF FirstFrameEnds, WholeFrameEnds, Loops
  <2> QED
    BY <1>1, <1>3, <1>4, <2>1, EndFrameShows
<1>10. CASE ProgressiveChunk
  BY <1>1, <1>3, <1>4, <1>10, ProgressiveChunkShows
<1>11. CASE WholeChunk
  BY <1>1, <1>3, <1>4, <1>11, WholeChunkShows
<1>12. CASE PostDecodeProcessing \/ \E keep \in 0 .. MaxFrames : Purge(keep)
  BY <1>1, <1>3, <1>4, <1>12, PostDecodeShows
<1> QED
  BY <1>5, <1>6, <1>7, <1>8, <1>9, <1>10, <1>11, <1>12, Zenon
     DEF DecoderNext, CallStep

LEMMA ShowInit ==
  ASSUME DecoderInit
  PROVE  ShowInv
<1>1. /\ Init /\ frame_buffer_cache = <<>> /\ png.data = <<>>
      /\ interlace_buffer = NoBuffer
  BY DEF DecoderInit, NewPng
<1>2. Len(<<>>) = 0
  OBVIOUS
<1>3. Known = 0
  BY <1>1, <1>2 DEF Known
<1>4. FitInv
  BY <1>1, FitInit
<1>5. StartsInv /\ Showing
  BY <1>1, <1>3 DEF StartsInv, Showing, BuffersPainted, DrawnInv, LinesInv
<1> QED
  BY <1>4, <1>5 DEF ShowInv, PaintInv

(* What the buffers show, whatever has been drawn, given up, cleared or    *)
(* taken over before.                                                      *)
THEOREM ShowInvariant ==
  DecoderSpec => [](DecoderInv /\ SessionInv /\ AlphaInv /\ ShowInv)
<1>1. DecoderInit => ShowInv
  BY ShowInit
<1>2. /\ DecoderInv /\ SessionInv /\ AlphaInv /\ ShowInv
      /\ [DecoderNext]_allvars /\ DecoderInv'
      => ShowInv'
  BY ShowStep
<1> QED
  BY <1>1, <1>2, AlphaInvariant, PTL DEF DecoderSpec

(* Frames asked for in any order, while the file arrives in pieces, the    *)
(* cache is cleared, buffers are reused and the decoding of the first      *)
(* frame is given up and taken up again: a complete frame shows what the   *)
(* animation shows when played from the start (Decode, InitFrameBuffer,    *)
(* RowAvailable, FrameComplete).  An interlaced image is a still one: the  *)
(* passes of an interlaced frame that blends do not show it.               *)
THEOREM CompleteFramesShowAnimation ==
  DecoderSpec => [](InterlacedIsStill => CompleteFramesShowTheAnimation)
<1>1. ASSUME PaintInv, InterlacedIsStill PROVE CompleteFramesShowTheAnimation
  <2> SUFFICES ASSUME NEW i \in CompleteFrames, NEW y \in 1 .. ihdr.height
               PROVE  WithoutRepeats(frame_buffer_cache[i].rows[y])
                        = Animation[i][y]
    BY DEF CompleteFramesShowTheAnimation
  <2>1. /\ i \in 1 .. Known
        /\ frame_buffer_cache[i].status = "kFrameComplete"
    BY DEF CompleteFrames
  <2>2. Painting(i, frame_buffer_cache[i])
    BY <1>1, <2>1 DEF PaintInv, Showing, BuffersPainted
  <2>3. WithoutRepeats(frame_buffer_cache[i].rows[y]) = Shown(i)[y]
    BY <2>1, <2>2 DEF Painting, PaintedRow
  <2>4. Animation[i] = Shown(i)
    BY <2>1 DEF Animation, Shown
  <2> QED
    BY <2>3, <2>4
<1>2. PaintInv => (InterlacedIsStill => CompleteFramesShowTheAnimation)
  BY <1>1
<1> QED
  BY <1>2, ShowInvariant, PTL DEF ShowInv

(* An image decoded to half-floats, whose rows never blend, has only one   *)
(* frame, although the flag is given to the decoder of every file.         *)
THEOREM HalfFloatImagesAreStill ==
  DecoderSpec => [](decode_to_half_float => Len(frame_info) <= 1)
<1>1. ASSUME DecoderInv, FitInv, decode_to_half_float
      PROVE  Len(frame_info) <= 1
  <2>1. /\ Len(frame_info) \in Nat /\ DOMAIN frame_info = 1 .. Len(frame_info)
        /\ ParserInv
    BY <1>1, FramesTyped DEF DecoderInv
  <2>2. \A i \in 1 .. Len(frame_info) : i = 1
    BY <1>1, <2>1, FramesFit
  <2>3. Len(frame_info) # 0 => Len(frame_info) \in 1 .. Len(frame_info)
    BY <2>1
  <2> QED
    BY <2>1, <2>2, <2>3
<1>2. DecoderInv /\ FitInv => (decode_to_half_float => Len(frame_info) <= 1)
  BY <1>1
<1> QED
  BY <1>2, ShowInvariant, PTL DEF ShowInv

(* Frames lie in the image.                                                *)
LiesInImage(r) ==
  r.x + r.width <= ihdr.width /\ r.y + r.height <= ihdr.height

LEMMA RectsInImage ==
  ASSUME ParserInv, FitInv, NEW i \in DOMAIN frame_info
  PROVE  LiesInImage(frame_info[i].frame_rect)
<1>1. frame_info[i] \in FrameInfo /\ frame_info # <<>> /\ size_available
      /\ ihdr.width \in Nat /\ ihdr.height \in Nat
  <2>1. ihdr.width \in Nat
    BY DEF ParserInv, IInv, TypeOK, RecordsOK
  <2>2. frame_info # <<>>
    BY FramesTyped
  <2> QED
    BY <2>1, <2>2, FramesTyped DEF ParserInv, RegisteredInv
<1>2. CASE is_animated
  <2>1. ~ignore_animation /\ HasControl(i)
    BY <1>1, <1>2 DEF ParserInv, DataInv, SizeInv, RunsInv
  <2>2. PICK o \in Passed : /\ IsControl(o)
                            /\ frame_info[i] = WithControl(frame_info[i],
                                                           file.chunk[o])
    BY <2>1 DEF HasControl
  <2>3. FrameControlIsValid(file.chunk[o])
    BY <2>1, <2>2 DEF FitInv, ControlsFit
  <2>4. PICK f, c : f = frame_info[i] /\ c = file.chunk[o].fctl
    OBVIOUS
  <2>5. f.frame_rect = [x |-> c.x, y |-> c.y, width |-> c.width,
                        height |-> c.height]
    BY <1>1, <2>2, <2>4 DEF WithControl, FrameInfo
  <2> QED
    BY <2>3, <2>4, <2>5 DEF FrameControlIsValid, LiesInImage
<1>3. CASE ~is_animated
  <2>1. i = 1 /\ frame_info[1].frame_rect = ImageRect
    BY <1>1, <1>3, FramesFit DEF ParserInv, RegisteredInv
  <2> QED
    BY <1>1, <2>1 DEF ImageRect, LiesInImage
<1> QED
  BY <1>2, <1>3

(* The buffer of every frame the parser registers has its rows and columns *)
(* in the image (the DCHECK of InitializeNewFrame), which FrameComplete,   *)
(* RowAvailable and the blending with the frame before rely on: the check  *)
(* of an fcTL is made against the size the IHDR gave, whenever it comes.   *)
THEOREM FramesLieInTheImage ==
  DecoderSpec => [](\A i \in DOMAIN frame_info :
                      LiesInImage(frame_info[i].frame_rect))
<1>1. DecoderInv /\ FitInv => \A i \in DOMAIN frame_info :
                                LiesInImage(frame_info[i].frame_rect)
  BY RectsInImage DEF DecoderInv
<1> QED
  BY <1>1, ShowInvariant, PTL DEF ShowInv
=============================================================================
