------------------------------ MODULE PngReader ------------------------------
(***************************************************************************)
(* PNGImageReader::Parse of png_image_decoder-r1.cc: the incremental       *)
(* parser that finds the size of a PNG and registers the frames of an      *)
(* animated PNG while the bytes of the file are still arriving.            *)
(*                                                                         *)
(* One call of Parse runs from BeginParse until pc is "idle" again; each   *)
(* action in between is one iteration of one of its two loops.  The bytes  *)
(* that have arrived cannot change during a call.  A call that returns     *)
(* "need more data" is repeated later and starts at read_offset with the   *)
(* fields the earlier call left behind.                                    *)
(*                                                                         *)
(* A file is a layout of chunks: the chunk that starts at each offset.     *)
(* Chunk payloads are reduced to the fields the parser reads.              *)
(***************************************************************************)
EXTENDS Integers, Sequences, FiniteSets

CONSTANTS
  Files,            \* the files that may arrive
  InitialOffset,    \* initial_offset_: where the PNG starts in the stream
  Uint31Max,        \* PNG_UINT_31_MAX
  SizeMax,          \* the largest value of wtf_size_t
  MaxPngSize,       \* kMaxPNGSize
  HalfFloatOption   \* the decoder was created with kHighBitDepthToHalfFloat

ChunkTypes == {"IHDR", "acTL", "fcTL", "IDAT", "fdAT", "IEND",
               "critical",    \* any other critical chunk (PLTE)
               "ancillary",   \* an ancillary chunk ParseSize hands to libpng
               "other"}       \* any other ancillary chunk

FrameControl == [x : Nat, y : Nat, width : Nat, height : Nat,
                 delay_num : Nat, delay_den : Nat, dispose : Nat, blend : Nat]

(***************************************************************************)
(* valid: the CRC of an acTL or fcTL matches; libpng accepts any other     *)
(* chunk.  seq is read from fcTL and fdAT, the last three fields from      *)
(* acTL, fcTL and IHDR.                                                    *)
(***************************************************************************)
Chunk == [type : ChunkTypes, length : Nat, valid : BOOLEAN, seq : Nat,
          actl : [frames : Nat, plays : Nat],
          fctl : FrameControl,
          ihdr : [width : Nat, height : Nat, bit_depth : Nat]]

SignatureEnd == InitialOffset + 8

(* A file of f.size bytes: wherever a chunk ends and eight more bytes      *)
(* follow, these bytes are the header of the next chunk.  f.arrivals are   *)
(* the sizes the data may have between two calls of Parse.                 *)
IsFile(f) ==
  /\ f.size \in 0 .. SizeMax
  /\ f.signature \in BOOLEAN
  /\ f.arrivals \subseteq 0 .. f.size
  /\ \A o \in DOMAIN f.chunk :
       /\ o \in Nat
       /\ o >= SignatureEnd
       /\ f.chunk[o] \in Chunk
       /\ o + 12 + f.chunk[o].length + 8 <= f.size
            => o + 12 + f.chunk[o].length \in DOMAIN f.chunk
  /\ SignatureEnd + 8 <= f.size => SignatureEnd \in DOMAIN f.chunk

ASSUME ReaderAssumption ==
  /\ InitialOffset \in Nat
  /\ Uint31Max \in Nat
  /\ SizeMax \in Nat
  /\ MaxPngSize \in Nat
  /\ HalfFloatOption \in BOOLEAN
  /\ \A f \in Files : IsFile(f)

(* No chunk starts inside another.                                         *)
ASSUME ChunksAssumption ==
  \A f \in Files : \A o, p \in DOMAIN f.chunk :
    o < p => o + 12 + f.chunk[o].length <= p

kAnimationLoopOnce == 0
kAnimationNone == -2
kFirstFrameIndicator == 1

VARIABLES
  file, received,             \* the file, and how many of its bytes are here
  pc, query,                  \* where the running Parse call is, its query
  read_offset,
  parsed_signature, parsed_ihdr, ihdr, ihdr_offset, idat_offset,
  is_animated, ignore_animation, reported_frame_count,
  idat_is_part_of_animation,
  next_sequence_number, fctl_needs_dat_chunk, new_frame,
  expect_idats, frame_info, parse_completed,
  failed,                     \* ImageDecoder::Failed(): the reader is gone
  size_available,             \* ImageDecoder::IsDecodedSizeAvailable()
  repetition_count, bit_depth, decode_to_half_float

input    == <<file, received>>
header   == <<parsed_signature, parsed_ihdr, ihdr, ihdr_offset, idat_offset>>
animated == <<is_animated, ignore_animation, reported_frame_count,
              idat_is_part_of_animation>>
control  == <<next_sequence_number, fctl_needs_dat_chunk, new_frame>>
frames   == <<expect_idats, frame_info, parse_completed>>
decoder  == <<size_available, repetition_count, bit_depth,
              decode_to_half_float>>
vars == <<input, pc, query, read_offset, header, animated, control, frames,
          failed, decoder>>

NoRect == [x |-> 0, y |-> 0, width |-> 0, height |-> 0]

Init ==
  /\ file \in Files
  /\ received = 0
  /\ pc = "idle"
  /\ query = "kSize"
  /\ read_offset = InitialOffset
  /\ parsed_signature = FALSE
  /\ parsed_ihdr = FALSE
  /\ ihdr = [width |-> 0, height |-> 0, bit_depth |-> 0]
  /\ ihdr_offset = 0
  /\ idat_offset = 0
  /\ is_animated = FALSE
  /\ ignore_animation = FALSE
  /\ reported_frame_count = 0
  /\ idat_is_part_of_animation = FALSE
  /\ next_sequence_number = 0
  /\ fctl_needs_dat_chunk = FALSE
  /\ new_frame = [start_offset |-> 0, byte_length |-> 0, duration |-> 0,
                  frame_rect |-> NoRect, disposal_method |-> "kDisposeKeep",
                  alpha_blend |-> "kBlendAtopBgcolor"]
  /\ expect_idats = TRUE
  /\ frame_info = <<>>
  /\ parse_completed = FALSE
  /\ failed = FALSE
  /\ size_available = FALSE
  /\ repetition_count = kAnimationLoopOnce
  /\ bit_depth = 0
  /\ decode_to_half_float = FALSE

-----------------------------------------------------------------------------
(* Reading the stream.                                                     *)

chunk == file.chunk[read_offset]
(* A mutant of chunk_end_offset: the CRC is forgotten.                     *)
ChunkEndWithoutCrc == read_offset + 8 + chunk.length

chunk_end_offset == read_offset + 12 + chunk.length

HeaderArrived == received >= read_offset + 8

(* The loop test of ParseSize, whose sum is not checked: within eight      *)
(* bytes of SizeMax it wraps and the test is true, whatever has arrived.   *)
HeaderExpected == received >= (read_offset + 8) % (SizeMax + 1)

ChunkArrived == received >= chunk_end_offset

(* The chunk may end behind SizeMax because it starts near it; then no     *)
(* length passes, even one read from behind the data.                      *)
LengthIsSane ==
  /\ read_offset + 12 <= SizeMax
  /\ chunk.length <= Uint31Max
  /\ chunk_end_offset <= SizeMax

(* More bytes of the file arrive between two calls (SetData).              *)
Receive ==
  /\ pc = "idle"
  /\ \E n \in file.arrivals : n > received /\ received' = n
  /\ UNCHANGED <<file, pc, query, read_offset, header, animated, control,
                 frames, failed, decoder>>

(* Parse of the decoder: nothing once the parse has failed or completed.   *)
BeginParse(q) ==
  /\ pc = "idle"
  /\ ~failed
  /\ ~parse_completed
  /\ query' = q
  /\ pc' = "size"
  /\ UNCHANGED <<input, read_offset, header, animated, control, frames,
                 failed, decoder>>

(* A false return of Parse: SetFailed drops the reader.                    *)
Fail ==
  /\ failed' = TRUE
  /\ pc' = "idle"
  /\ UNCHANGED <<input, query, read_offset, header, animated, control, frames,
                 decoder>>

-----------------------------------------------------------------------------
(* fcTL: ParseFrameInfo and CheckSequenceNumber.                           *)

SequenceMatches(c) == c.seq = next_sequence_number /\ c.seq <= Uint31Max

FrameControlIsValid(c) ==
  /\ c.fctl.width > 0 /\ c.fctl.x + c.fctl.width <= ihdr.width
  /\ c.fctl.height > 0 /\ c.fctl.y + c.fctl.height <= ihdr.height
  /\ c.fctl.dispose \in 0 .. 2
  /\ c.fctl.blend \in 0 .. 1

(* ParseFrameInfo returns true.                                            *)
AcceptsFrame(c) ==
  /\ ~fctl_needs_dat_chunk
  /\ SequenceMatches(c)
  /\ FrameControlIsValid(c)

(* The duration in milliseconds; a zero denominator stands for 100.        *)
DelayToDuration(num, den) ==
  IF den # 0 THEN (num * 1000) \div den ELSE num * 10

DisposalMethod(op) ==
  CASE op = 1 -> "kDisposeOverwriteBgcolor"
    [] op = 2 -> "kDisposeOverwritePrevious"
    [] OTHER  -> "kDisposeKeep"

AlphaBlendSource(op) ==
  IF op = 0 THEN "kBlendAtopBgcolor" ELSE "kBlendAtopPreviousFrame"

(* new_frame after an accepted fcTL; base is its value before.             *)
WithControl(base, c) ==
  [base EXCEPT !.frame_rect = [x |-> c.fctl.x, y |-> c.fctl.y,
                               width |-> c.fctl.width,
                               height |-> c.fctl.height],
               !.duration = DelayToDuration(c.fctl.delay_num,
                                            c.fctl.delay_den),
               !.disposal_method = DisposalMethod(c.fctl.dispose),
               !.alpha_blend = AlphaBlendSource(c.fctl.blend)]

ImageRect == [x |-> 0, y |-> 0, width |-> ihdr.width, height |-> ihdr.height]

-----------------------------------------------------------------------------
(* ParseSize: everything up to the first IDAT.                             *)

InHeader ==
  /\ pc = "size"
  /\ ~size_available
  /\ parsed_signature
  /\ HeaderExpected

(* The size is known from an earlier call.                                 *)
SizeIsKnown ==
  /\ pc = "size"
  /\ size_available
  /\ pc' = "sized"
  /\ UNCHANGED <<input, query, read_offset, header, animated, control,
                 frames, failed, decoder>>

(* A loop of ParseSize ends for lack of data.                              *)
AwaitHeader ==
  /\ pc = "size"
  /\ ~size_available
  /\ \/ ~parsed_signature /\ SignatureEnd <= SizeMax /\ received < SignatureEnd
     \/ parsed_signature /\ ~HeaderExpected
     \/ /\ parsed_signature /\ HeaderExpected /\ LengthIsSane
        /\ chunk.type # "IDAT" /\ ~ChunkArrived
  /\ pc' = "sized"
  /\ UNCHANGED <<input, query, read_offset, header, animated, control,
                 frames, failed, decoder>>

ParseSignature ==
  /\ pc = "size"
  /\ ~size_available
  /\ ~parsed_signature
  /\ SignatureEnd > SizeMax \/ received >= SignatureEnd
  /\ IF SignatureEnd <= SizeMax /\ file.signature
       THEN /\ read_offset' = SignatureEnd
            /\ parsed_signature' = TRUE
            /\ new_frame' = [new_frame EXCEPT !.start_offset = 0]
            /\ UNCHANGED <<input, pc, query, parsed_ihdr, ihdr, ihdr_offset,
                           idat_offset, animated, next_sequence_number,
                           fctl_needs_dat_chunk, frames, failed, decoder>>
       ELSE Fail

(* After a wrapped loop test the eight bytes are read from behind the      *)
(* data: whatever they are, the sum of chunk_end_offset overflows.  (The   *)
(* class that reads them is not in the repository; it may end the process  *)
(* instead, and then nothing follows.)                                     *)
HeaderLengthError ==
  /\ InHeader
  /\ ~LengthIsSane
  /\ Fail

(* One whole chunk of the header is here.                                  *)
HeaderChunk(types) ==
  /\ InHeader
  /\ LengthIsSane
  /\ chunk.type \in types
  /\ ChunkArrived
  /\ read_offset' = chunk_end_offset
  /\ UNCHANGED <<input, pc, query, frames, failed>>

ActlIsUsable ==
  /\ ~is_animated
  /\ chunk.length = 8
  /\ parsed_ihdr
  /\ chunk.valid

HeaderAcTL ==
  /\ HeaderChunk({"acTL"})
  /\ IF ignore_animation
       THEN UNCHANGED <<is_animated, ignore_animation, reported_frame_count,
                        repetition_count>>
       ELSE /\ reported_frame_count' = IF ActlIsUsable THEN chunk.actl.frames
                                       ELSE reported_frame_count
            /\ IF /\ ActlIsUsable
                  /\ chunk.actl.frames \in 1 .. Uint31Max
                  /\ chunk.actl.plays <= Uint31Max
                 THEN /\ is_animated' = TRUE
                      /\ repetition_count' = chunk.actl.plays - 1
                      /\ UNCHANGED ignore_animation
                 ELSE /\ ignore_animation' = TRUE
                      /\ UNCHANGED <<is_animated, repetition_count>>
  /\ UNCHANGED <<header, idat_is_part_of_animation, control, size_available,
                 bit_depth, decode_to_half_float>>

(* An fcTL before the first IDAT: the IDATs are the first frame.  Any      *)
(* error in it makes the image a still one.                                *)
FctlIsReadable == chunk.length = 26 /\ parsed_ihdr /\ chunk.valid

HeaderFcTL ==
  /\ HeaderChunk({"fcTL"})
  /\ LET read == ~ignore_animation /\ FctlIsReadable
         accepted == read /\ AcceptsFrame(chunk)
         usable == accepted /\ WithControl(new_frame, chunk).frame_rect
                                 = ImageRect
     IN /\ next_sequence_number' =
             next_sequence_number
               + (IF read /\ ~fctl_needs_dat_chunk /\ SequenceMatches(chunk)
                    THEN 1 ELSE 0)
        /\ fctl_needs_dat_chunk' = (fctl_needs_dat_chunk \/ accepted)
        /\ new_frame' = IF accepted THEN WithControl(new_frame, chunk)
                        ELSE new_frame
        /\ ignore_animation' = (ignore_animation \/ ~usable)
        /\ idat_is_part_of_animation' =
             (idat_is_part_of_animation \/ usable)
  /\ UNCHANGED <<header, is_animated, reported_frame_count, decoder>>

HeaderFdAT ==
  /\ HeaderChunk({"fdAT"})
  /\ ignore_animation' = TRUE
  /\ UNCHANGED <<header, is_animated, reported_frame_count,
                 idat_is_part_of_animation, control, decoder>>

(* libpng wants IHDR first and once, and no IEND before image data.        *)
LibpngAccepts(c) ==
  /\ c.valid
  /\ c.type = "IHDR" <=> ~parsed_ihdr
  /\ c.type # "IEND"

HandedToLibpng == {"IHDR", "critical", "ancillary", "IEND"}

HeaderLibpngChunk ==
  /\ HeaderChunk(HandedToLibpng)
  /\ LibpngAccepts(chunk)
  /\ IF chunk.type = "IHDR"
       THEN /\ parsed_ihdr' = TRUE
            /\ ihdr_offset' = read_offset
            /\ ihdr' = chunk.ihdr
            /\ UNCHANGED <<parsed_signature, idat_offset>>
       ELSE UNCHANGED header
  /\ UNCHANGED <<animated, control, decoder>>

(* libpng reports the error with longjmp; ParseSize returns false.         *)
HeaderLibpngError ==
  /\ InHeader
  /\ LengthIsSane
  /\ chunk.type \in HandedToLibpng
  /\ ChunkArrived
  /\ ~LibpngAccepts(chunk)
  /\ Fail

HeaderIgnored ==
  /\ HeaderChunk({"other"})
  /\ UNCHANGED <<header, animated, control, decoder>>

(* A mutant of SetBitDepth: the repetition count is not looked at.         *)
SetBitDepthForAnimations(repetitions) ==
  IF bit_depth # 0
    THEN UNCHANGED <<bit_depth, decode_to_half_float>>
    ELSE /\ bit_depth' = ihdr.bit_depth
         /\ decode_to_half_float' = /\ ihdr.bit_depth = 16
                                    /\ HalfFloatOption

(* SetBitDepth, given the repetition count it sees: the first call decides *)
(* for good, whether it comes from ParseSize or from the client.           *)
SetBitDepth(repetitions) ==
  IF bit_depth # 0
    THEN UNCHANGED <<bit_depth, decode_to_half_float>>
    ELSE /\ bit_depth' = ihdr.bit_depth
         /\ decode_to_half_float' = /\ ihdr.bit_depth = 16
                                    /\ HalfFloatOption
                                    /\ repetitions = kAnimationNone

(* The first IDAT: the size is final.  The repetition count is set before  *)
(* the bit depth is, and both before the size.                             *)
HeaderIDAT ==
  /\ InHeader
  /\ LengthIsSane
  /\ chunk.type = "IDAT"
  /\ parsed_ihdr
  /\ ihdr.width <= MaxPngSize /\ ihdr.height <= MaxPngSize
  /\ idat_offset' = read_offset
  /\ fctl_needs_dat_chunk' = FALSE
  /\ is_animated' = (is_animated /\ ~ignore_animation)
  /\ repetition_count' = IF ~is_animated' \/ reported_frame_count = 1
                           THEN kAnimationNone ELSE repetition_count
  /\ SetBitDepth(repetition_count')
  /\ size_available' = TRUE
  /\ pc' = "sized"
  /\ UNCHANGED <<input, query, read_offset, parsed_signature, parsed_ihdr,
                 ihdr, ihdr_offset, ignore_animation, reported_frame_count,
                 idat_is_part_of_animation, next_sequence_number, new_frame,
                 frames, failed>>

(* The client asks ImageIsHighBitDepth between two calls of Parse.  Before *)
(* the IHDR libpng answers zero and nothing is kept; there is no reader    *)
(* before the first Parse and after a failure.                             *)
ImageIsHighBitDepth ==
  /\ pc = "idle"
  /\ ~failed
  /\ parsed_ihdr
  /\ SetBitDepth(repetition_count)
  /\ UNCHANGED <<input, pc, query, read_offset, header, animated, control,
                 frames, failed, size_available, repetition_count>>

(* SetSize refuses the image (too large for the decoder, or, at any size,  *)
(* for the pixel count of ImageDecoder), or libpng misses the IHDR.        *)
HeaderSizeError ==
  /\ InHeader
  /\ LengthIsSane
  /\ chunk.type = "IDAT"
  /\ Fail

(* Back in Parse, after ParseSize returned true.                           *)
FinishSize ==
  /\ pc = "sized"
  /\ IF size_available /\ ~is_animated
       THEN \* A still image: one frame, whose length is never read.
            /\ frame_info' = Append(frame_info,
                 [start_offset |-> read_offset,
                  byte_length |-> kFirstFrameIndicator,
                  duration |-> 0,
                  frame_rect |-> ImageRect,
                  disposal_method |-> "kDisposeKeep",
                  alpha_blend |-> "kBlendAtopBgcolor"])
            /\ parse_completed' = TRUE
            /\ pc' = "idle"
       ELSE /\ pc' = IF size_available /\ query = "kMetaData"
                       THEN "meta" ELSE "idle"
            /\ UNCHANGED <<frame_info, parse_completed>>
  /\ UNCHANGED <<input, query, read_offset, header, animated, control,
                 expect_idats, failed, decoder>>

ParseSize ==
  \/ SizeIsKnown
  \/ AwaitHeader
  \/ ParseSignature
  \/ HeaderLengthError
  \/ HeaderAcTL
  \/ HeaderFcTL
  \/ HeaderFdAT
  \/ HeaderLibpngChunk
  \/ HeaderLibpngError
  \/ HeaderIgnored
  \/ HeaderIDAT
  \/ HeaderSizeError

-----------------------------------------------------------------------------
(* The metadata loop of Parse: registering the frames.                     *)

InMetadata ==
  /\ pc = "meta"
  /\ read_offset + 8 <= SizeMax
  /\ HeaderArrived
  /\ LengthIsSane

(* No further chunk header is here yet.                                    *)
AwaitChunk ==
  /\ pc = "meta"
  /\ read_offset + 8 <= SizeMax
  /\ ~HeaderArrived
  /\ pc' = "idle"
  /\ UNCHANGED <<input, query, read_offset, header, animated, control,
                 frames, failed, decoder>>

MetadataLengthError ==
  /\ pc = "meta"
  /\ \/ read_offset + 8 > SizeMax
     \/ HeaderArrived /\ ~LengthIsSane
  /\ Fail

CarriesFrameData ==
  \/ chunk.type = "fdAT"
  \/ chunk.type = "IDAT" /\ idat_is_part_of_animation

(* A mutant of DataOutOfOrder: IDAT is accepted anywhere.                  *)
FdatOutOfOrder ==
  chunk.type = "fdAT" /\ (expect_idats \/ chunk.length < 4)

DataOutOfOrder ==
  \/ chunk.type = "IDAT" /\ ~expect_idats
  \/ chunk.type = "fdAT" /\ expect_idats
  \/ chunk.type = "fdAT" /\ chunk.length < 4

(* A mutant of StartFrame: the frame starts behind its first chunk.        *)
StartFrameBehindChunk ==
  IF new_frame.start_offset # 0
    THEN UNCHANGED <<new_frame, frame_info>>
    ELSE LET started == [new_frame EXCEPT !.start_offset = chunk_end_offset]
             first == [started EXCEPT !.byte_length = kFirstFrameIndicator]
         IN IF frame_info = <<>>
              THEN new_frame' = first /\ frame_info' = <<first>>
              ELSE new_frame' = started /\ UNCHANGED frame_info

(* The frame under construction starts at its first data chunk; the first  *)
(* frame of all is reported at once, with an unknown length.               *)
StartFrame ==
  IF new_frame.start_offset # 0
    THEN UNCHANGED <<new_frame, frame_info>>
    ELSE LET started == [new_frame EXCEPT !.start_offset = read_offset]
             first == [started EXCEPT !.byte_length = kFirstFrameIndicator]
         IN IF frame_info = <<>>
              THEN new_frame' = first /\ frame_info' = <<first>>
              ELSE new_frame' = started /\ UNCHANGED frame_info

FrameData ==
  /\ InMetadata
  /\ CarriesFrameData
  /\ ~DataOutOfOrder
  /\ chunk.type = "fdAT" => received >= read_offset + 12
                            /\ SequenceMatches(chunk)
  /\ fctl_needs_dat_chunk' = FALSE
  /\ StartFrame
  /\ next_sequence_number' = next_sequence_number
                               + (IF chunk.type = "fdAT" THEN 1 ELSE 0)
  /\ read_offset' = chunk_end_offset
  /\ UNCHANGED <<input, pc, query, header, animated, expect_idats,
                 parse_completed, failed, decoder>>

(* A mutant of AwaitSequenceNumber: the number is counted on arrival of    *)
(* the header and again when it is read.                                   *)
AwaitSequenceNumberCounted ==
  /\ InMetadata
  /\ chunk.type = "fdAT"
  /\ ~DataOutOfOrder
  /\ received < read_offset + 12
  /\ fctl_needs_dat_chunk' = FALSE
  /\ StartFrame
  /\ next_sequence_number' = next_sequence_number + 1
  /\ pc' = "idle"
  /\ UNCHANGED <<input, query, read_offset, header, animated, expect_idats,
                 parse_completed, failed, decoder>>

(* The sequence number of an fdAT is not here yet: the frame has started,  *)
(* read_offset stays.                                                      *)
AwaitSequenceNumber ==
  /\ InMetadata
  /\ chunk.type = "fdAT"
  /\ ~DataOutOfOrder
  /\ received < read_offset + 12
  /\ fctl_needs_dat_chunk' = FALSE
  /\ StartFrame
  /\ pc' = "idle"
  /\ UNCHANGED <<input, query, read_offset, header, animated,
                 next_sequence_number, expect_idats, parse_completed, failed,
                 decoder>>

(* The length the frame under construction has if it ends at read_offset.  *)
ClosedLength == read_offset - new_frame.start_offset

(* Closing the frame under construction would add to frame_info.           *)
ClosingAppends ==
  /\ new_frame.start_offset # 0
  /\ frame_info[1].byte_length # kFirstFrameIndicator

(* Mutants of ClosedFrames: the first frame is reported a second time; the *)
(* next fcTL is parsed before the frame is added.                          *)
ClosedFramesAppended ==
  IF new_frame.start_offset = 0 THEN frame_info
  ELSE Append(frame_info, [new_frame EXCEPT !.byte_length = ClosedLength])

ClosedFramesAfterControl ==
  IF new_frame.start_offset = 0 THEN frame_info
  ELSE IF ClosingAppends
    THEN Append(frame_info,
                [(IF chunk.type = "fcTL" THEN WithControl(new_frame, chunk)
                  ELSE new_frame) EXCEPT !.byte_length = ClosedLength])
    ELSE [frame_info EXCEPT ![1].byte_length = ClosedLength]

(* frame_info after the frame under construction, if any, has been closed. *)
ClosedFrames ==
  IF new_frame.start_offset = 0 THEN frame_info
  ELSE IF ClosingAppends
    THEN Append(frame_info, [new_frame EXCEPT !.byte_length = ClosedLength])
    ELSE [frame_info EXCEPT ![1].byte_length = ClosedLength]

(* A mutant of ClosedNewFrame: start_offset is not reset.                  *)
ClosedNewFrameKept == new_frame

(* new_frame then.                                                         *)
ClosedNewFrame ==
  IF new_frame.start_offset = 0 THEN new_frame
  ELSE [new_frame EXCEPT !.byte_length = ClosedLength, !.start_offset = 0]

(* A mutant of FrameCountMismatch: checked before the frame is added.      *)
FrameCountMismatchTooEarly ==
  /\ ClosingAppends
  /\ IF chunk.type = "fcTL" THEN Len(frame_info) >= reported_frame_count
                            ELSE Len(frame_info) # reported_frame_count

(* The number of frames contradicts acTL.                                  *)
FrameCountMismatch ==
  /\ ClosingAppends
  /\ IF chunk.type = "fcTL" THEN Len(frame_info) + 1 >= reported_frame_count
                            ELSE Len(frame_info) + 1 # reported_frame_count

(* The header of the chunk that ends a frame is here, the chunk is not:    *)
(* the frame is closed, read_offset stays.                                 *)
AwaitFrameEnd ==
  /\ InMetadata
  /\ chunk.type \in {"fcTL", "IEND"}
  /\ ~FrameCountMismatch
  /\ ~ChunkArrived
  /\ frame_info' = ClosedFrames
  /\ new_frame' = ClosedNewFrame
  /\ pc' = "idle"
  /\ UNCHANGED <<input, query, read_offset, header, animated,
                 next_sequence_number, fctl_needs_dat_chunk, expect_idats,
                 parse_completed, failed, decoder>>

EndOfImage ==
  /\ InMetadata
  /\ chunk.type = "IEND"
  /\ ~FrameCountMismatch
  /\ ChunkArrived
  /\ frame_info' = ClosedFrames
  /\ new_frame' = ClosedNewFrame
  /\ parse_completed' = TRUE
  /\ pc' = "idle"
  /\ UNCHANGED <<input, query, read_offset, header, animated,
                 next_sequence_number, fctl_needs_dat_chunk, expect_idats,
                 failed, decoder>>

NextFrame ==
  /\ InMetadata
  /\ chunk.type = "fcTL"
  /\ ~FrameCountMismatch
  /\ ChunkArrived
  /\ chunk.length = 26
  /\ chunk.valid
  /\ AcceptsFrame(chunk)
  /\ frame_info' = ClosedFrames
  /\ new_frame' = WithControl(ClosedNewFrame, chunk)
  /\ next_sequence_number' = next_sequence_number + 1
  /\ fctl_needs_dat_chunk' = TRUE
  /\ expect_idats' = FALSE
  /\ read_offset' = chunk_end_offset
  /\ UNCHANGED <<input, pc, query, header, animated, parse_completed, failed,
                 decoder>>

(* A mutant of SkipChunk: read_offset does not advance.                    *)
SkipChunkForever ==
  /\ InMetadata
  /\ \/ chunk.type \in {"IHDR", "critical", "ancillary", "other"}
     \/ chunk.type = "IDAT" /\ ~CarriesFrameData /\ ~DataOutOfOrder
  /\ UNCHANGED vars

SkipChunk ==
  /\ InMetadata
  /\ \/ chunk.type \in {"IHDR", "critical", "ancillary", "other"}
     \/ chunk.type = "IDAT" /\ ~CarriesFrameData /\ ~DataOutOfOrder
  /\ read_offset' = chunk_end_offset
  /\ UNCHANGED <<input, pc, query, header, animated, control, frames, failed,
                 decoder>>

(* Every error of the metadata loop: fatal, unlike those in ParseSize.     *)
MetadataError ==
  /\ InMetadata
  /\ \/ DataOutOfOrder
     \/ /\ chunk.type = "fdAT"
        /\ received >= read_offset + 12
        /\ ~SequenceMatches(chunk)
     \/ chunk.type \in {"fcTL", "IEND"} /\ FrameCountMismatch
     \/ /\ chunk.type = "fcTL"
        /\ ChunkArrived
        /\ chunk.length # 26 \/ ~chunk.valid \/ ~AcceptsFrame(chunk)
     \/ chunk.type = "acTL"
  /\ Fail

ParseMetadata ==
  \/ AwaitChunk
  \/ MetadataLengthError
  \/ FrameData
  \/ AwaitSequenceNumber
  \/ AwaitFrameEnd
  \/ EndOfImage
  \/ NextFrame
  \/ SkipChunk
  \/ MetadataError

ParseStep == ParseSize \/ FinishSize \/ ParseMetadata

Next ==
  \/ Receive
  \/ ImageIsHighBitDepth
  \/ \E q \in {"kSize", "kMetaData"} : BeginParse(q)
  \/ ParseSize
  \/ FinishSize
  \/ ParseMetadata

(* A call of Parse runs to its end: it never waits inside.                 *)
Fairness == WF_vars(ParseStep)

Spec == Init /\ [][Next]_vars /\ Fairness

-----------------------------------------------------------------------------
Rect == [x : Nat, y : Nat, width : Nat, height : Nat]

FrameInfo ==
  [start_offset : Nat, byte_length : Nat, duration : Nat, frame_rect : Rect,
   disposal_method : {"kDisposeKeep", "kDisposeOverwriteBgcolor",
                      "kDisposeOverwritePrevious"},
   alpha_blend : {"kBlendAtopBgcolor", "kBlendAtopPreviousFrame"}]

(* Where the reader stands: at the signature, or behind it where a chunk   *)
(* starts if the file has eight more bytes.                                *)
StandsAtChunk ==
  /\ parsed_signature => /\ read_offset >= SignatureEnd
                         /\ read_offset + 8 <= file.size
                              => read_offset \in DOMAIN file.chunk
  /\ size_available => parsed_signature
  /\ pc = "meta" => size_available

InputOK ==
  /\ IsFile(file)
  /\ received \in 0 .. file.size

FlagsOK ==
  /\ parsed_signature \in BOOLEAN
  /\ parsed_ihdr \in BOOLEAN
  /\ is_animated \in BOOLEAN
  /\ ignore_animation \in BOOLEAN
  /\ idat_is_part_of_animation \in BOOLEAN
  /\ fctl_needs_dat_chunk \in BOOLEAN
  /\ expect_idats \in BOOLEAN
  /\ parse_completed \in BOOLEAN
  /\ failed \in BOOLEAN
  /\ size_available \in BOOLEAN
  /\ decode_to_half_float \in BOOLEAN

ScalarsOK ==
  /\ pc \in {"idle", "size", "sized", "meta"}
  /\ query \in {"kSize", "kMetaData"}
  /\ read_offset \in Nat
  /\ ihdr_offset \in Nat
  /\ idat_offset \in Nat
  /\ reported_frame_count \in Nat
  /\ next_sequence_number \in Nat
  /\ repetition_count \in Int
  /\ bit_depth \in Nat

RecordsOK ==
  /\ ihdr \in [width : Nat, height : Nat, bit_depth : Nat]
  /\ new_frame \in FrameInfo
  /\ frame_info \in Seq(FrameInfo)

(* Every variable has its type, and read_offset is at a chunk boundary:    *)
(* Parse never interprets the inside of a chunk as a header.               *)
TypeOK ==
  /\ InputOK
  /\ FlagsOK
  /\ ScalarsOK
  /\ RecordsOK
  /\ StandsAtChunk

(* An animation whose frames are being registered.                         *)
Animating == ~failed /\ size_available /\ is_animated

(* The chunks the metadata loop has left behind.                           *)
Passed == {o \in DOMAIN file.chunk : o < read_offset}

IsFrameData(o) ==
  \/ file.chunk[o].type = "fdAT"
  \/ file.chunk[o].type = "IDAT" /\ idat_is_part_of_animation

FirstFrameIsOpen ==
  frame_info # <<>> /\ frame_info[1].byte_length = kFirstFrameIndicator

FrameStart(i) == frame_info[i].start_offset

FrameEnd(i) ==
  IF i = 1 /\ FirstFrameIsOpen THEN read_offset
                                 ELSE FrameStart(i) + frame_info[i].byte_length

InFrame(i, o) == FrameStart(i) <= o /\ o < FrameEnd(i)

(* The frame under construction is not a reported one.                     *)
Unreported == new_frame.start_offset # 0 /\ ~FirstFrameIsOpen

(* No image data is lost or shared: every data chunk of the animation the  *)
(* parser has passed lies in exactly one reported frame, or in the frame   *)
(* under construction, however the calls of Parse were cut by missing data *)
(* (Parse, the fdAT/IDAT and fcTL/IEND branches).                          *)
EveryDataChunkInOneFrame ==
  Animating =>
    \A o \in Passed :
      IsFrameData(o) =>
        IF Unreported /\ new_frame.start_offset <= o
          THEN \A i \in DOMAIN frame_info : ~InFrame(i, o)
          ELSE /\ \E i \in DOMAIN frame_info : InFrame(i, o)
               /\ \A i, j \in DOMAIN frame_info :
                    InFrame(i, o) /\ InFrame(j, o) => i = j

(* A reported frame is the run of chunks from its first data chunk to the  *)
(* next fcTL or IEND, and it carries the rectangle, duration and           *)
(* operations of the fcTL before it and not those of another frame.        *)
FramesMatchTheirControl ==
  Animating =>
    \A i \in DOMAIN frame_info :
      /\ \A o \in Passed :
           InFrame(i, o) => file.chunk[o].type \notin {"fcTL", "IEND"}
      /\ \E o \in Passed :
           /\ file.chunk[o].type = "fcTL"
           /\ o < FrameStart(i)
           /\ \A p \in Passed : o < p /\ p < FrameStart(i)
                                  => file.chunk[p].type # "fcTL"
           /\ frame_info[i] = WithControl(frame_info[i], file.chunk[o])

(* Every fcTL and fdAT is counted once, in file order, although a call     *)
(* that lacks data leaves read_offset on a chunk it has partly handled     *)
(* (CheckSequenceNumber and its callers).                                  *)
SequenceNumbersInOrder ==
  ~failed /\ ~ignore_animation =>
    LET Numbered == {o \in Passed : file.chunk[o].type \in {"fcTL", "fdAT"}}
    IN /\ next_sequence_number = Cardinality(Numbered)
       /\ \A o \in Numbered :
            file.chunk[o].seq = Cardinality({p \in Numbered : p < o})

(* The parser never reports more frames than acTL announced, and with more *)
(* than one frame it completes with exactly that many unless the last fcTL *)
(* was left without data (the frame count checks of Parse).                *)
FrameCountWithinActl ==
  Animating =>
    /\ Len(frame_info) <= reported_frame_count
    /\ parse_completed /\ Len(frame_info) > 1 /\ ~fctl_needs_dat_chunk
         => Len(frame_info) = reported_frame_count

(* A completed animation has no frame of unknown length and no frame under *)
(* construction: kFirstFrameIndicator does not outlive the parse.          *)
CompletedFramesAreClosed ==
  Animating /\ parse_completed =>
    ~FirstFrameIsOpen /\ new_frame.start_offset = 0

(* All IDATs precede the first fdAT, and an fcTL separates them            *)
(* (expect_idats_), in what the parser has accepted: no frame mixes them.  *)
NoFrameMixesDataKinds ==
  Animating =>
    \A i \in DOMAIN frame_info : \A o, p \in Passed :
      InFrame(i, o) /\ InFrame(i, p) =>
        ~(file.chunk[o].type = "IDAT" /\ file.chunk[p].type = "fdAT")

(* The inductive strengthening of the two properties above.                *)

(* A call runs only while there is something left to parse.                *)
CallInv ==
  /\ pc # "idle" => ~failed /\ ~parse_completed
  /\ pc = "meta" => is_animated
  /\ ~parse_completed /\ ~(size_available /\ is_animated) => frame_info = <<>>
  /\ is_animated => reported_frame_count > 0

(* The frame under construction: it has a chunk behind it already, or it   *)
(* begins with the fdAT at read_offset whose sequence number is awaited.   *)
ConstructionInv ==
  /\ new_frame.start_offset # 0 =>
       /\ size_available /\ is_animated
       /\ ~parse_completed
       /\ frame_info # <<>>
       /\ \/ new_frame.start_offset + 12 <= read_offset
          \/ /\ new_frame.start_offset = read_offset
             /\ file.chunk[read_offset].type = "fdAT"
  /\ FirstFrameIsOpen /\ is_animated =>
       /\ new_frame.start_offset # 0
       /\ frame_info[1].start_offset = new_frame.start_offset
       /\ Len(frame_info) = 1

(* The closed frames lie behind each other, before the one under           *)
(* construction, and are long enough for a chunk: no length is mistaken    *)
(* for kFirstFrameIndicator.                                               *)
ClosedInv ==
  \A i \in DOMAIN frame_info :
    LET f == frame_info[i]
        end == f.start_offset + f.byte_length
    IN f.byte_length # kFirstFrameIndicator =>
         /\ f.byte_length >= 12
         /\ end <= read_offset
         /\ \A j \in DOMAIN frame_info : i < j => end <= frame_info[j].start_offset
         /\ Unreported => end <= new_frame.start_offset

(* After a frame has been closed the parser waits for the rest of the      *)
(* chunk that closed it, or for the data of the next one.                  *)
CountInv ==
  is_animated =>
    /\ Len(frame_info) <= reported_frame_count
    /\ Len(frame_info) > 1 /\ new_frame.start_offset = 0
         /\ ~fctl_needs_dat_chunk =>
         \/ ~parse_completed /\ file.chunk[read_offset].type = "fcTL"
         \/ /\ file.chunk[read_offset].type = "IEND"
            /\ Len(frame_info) = reported_frame_count

(* Only the first frame may be open.                                       *)
LaterFramesClosed ==
  \A i \in DOMAIN frame_info :
    i > 1 => frame_info[i].byte_length # kFirstFrameIndicator

ReaderInv ==
  CallInv /\ ConstructionInv /\ ClosedInv /\ CountInv /\ LaterFramesClosed

(* Half-float decoding is chosen for 16-bit single images only, by the     *)
(* final repetition count, although SetBitDepth decides once and the       *)
(* client may make it decide while the count is still that of a file whose *)
(* acTL is to come (ImageIsHighBitDepth).  The converse is false: asked    *)
(* between the IHDR and the first IDAT, a single image stays 8-bit.        *)
HalfFloatOnlyForOneImage ==
  decode_to_half_float =>
    /\ size_available
    /\ HalfFloatOption
    /\ bit_depth = 16
    /\ repetition_count = kAnimationNone

(* Every call of Parse returns, whatever the file.                         *)
ParseReturns == (pc # "idle") ~> (pc = "idle")

(* RowAvailable: a half-float frame is never blended with the previous one *)
(* ("we expect the blending mode always be kBlendAtopBgcolor").            *)
HalfFloatFramesReplace ==
  ~failed /\ decode_to_half_float =>
    \A i \in DOMAIN frame_info :
      frame_info[i].alpha_blend = "kBlendAtopBgcolor"

-----------------------------------------------------------------------------
(* The promise to the decoder: FrameCatalogue.                             *)
Catalogue ==
  INSTANCE FrameCatalogue WITH
    frames   <- frame_info,
    complete <- parse_completed,
    Frame    <- FrameInfo,
    Open     <- kFirstFrameIndicator

(* Parse refines FrameCatalogue: a registered frame stays as it is but for *)
(* the one-time closing of the first.                                      *)
ImplementsCatalogue == Catalogue!Spec

=============================================================================
