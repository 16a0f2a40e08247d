----------------------------- MODULE PngDecoder -----------------------------
(***************************************************************************)
(* PngImageDecoder and the decoding half of PNGImageReader, composed with  *)
(* the parser of module PngReader.                                         *)
(*                                                                         *)
(* Clients of the decoder ask for frames while the file arrives.  A call   *)
(* for a frame parses what is here, grows the cache of frame buffers,      *)
(* decodes the frames the asked one depends on and then the frame itself.  *)
(* Pixels come from libpng, which is fed chunk by chunk and calls back     *)
(* with one row at a time.  The first frame may be decoded while it is     *)
(* still arriving: libpng then keeps its state between the calls.          *)
(*                                                                         *)
(* A byte of image data stands for one row of one pass: what a row of a    *)
(* buffer shows is a stack of layers, each the set of the file offsets     *)
(* its pixels came from, the last one on top.                              *)
(*                                                                         *)
(* Frames are numbered from 1 (the code: from 0); 0 is kNotFound.          *)
(***************************************************************************)
EXTENDS PngReader, SequencesExt

CONSTANTS
  MaxFrames,      \* frames are asked for up to this number
  Passes          \* the passes of an interlaced image (libpng: 7)

(* What the header of a file says of its rows: Adam7 or not, RGBA or RGB   *)
(* once libpng has expanded them, and the bytes that stand for a row with  *)
(* a translucent pixel.  Chunks begin within the limit for files.          *)
ASSUME DecoderAssumption ==
  /\ MaxFrames \in Nat
  /\ Passes \in Nat \ {0}
  /\ \A f \in Files : /\ f.interlaced \in BOOLEAN
                      /\ f.alpha \in BOOLEAN
                      /\ f.translucent \subseteq Nat
                      /\ \A o \in DOMAIN f.chunk : o <= SizeMax

kNotFound == 0

VARIABLES
  all_data,                  \* IsAllDataReceived
  step, index,               \* where the running call is, the frame it wants
  todo,                      \* frames_to_decode not decoded yet, in order
  incomplete_parse,
  purge_aggressively,
  current_frame, offset,     \* the frame and chunk being decoded
  png,                       \* the libpng session, see NoPng
  progressive_decode_offset,
  interlace_buffer,          \* NoBuffer, or the bytes combined in each row
  frame_buffer_cache,
  current_buffer_saw_alpha

reader  == vars
call    == <<step, index, todo, incomplete_parse, purge_aggressively>>
loop    == <<current_frame, offset>>
session == <<png, progressive_decode_offset, interlace_buffer>>
cache   == <<frame_buffer_cache, current_buffer_saw_alpha>>
allvars == <<reader, all_data, call, loop, session, cache>>

(***************************************************************************)
(* A libpng session: the frame whose size its IHDR has (0: the size of the *)
(* image) and the offsets of the data it has been given, in order.         *)
(***************************************************************************)
NewPng(frame) == [exists |-> TRUE, ihdr_of |-> frame, data |-> <<>>]
NoPng == [exists |-> FALSE, ihdr_of |-> 0, data |-> <<>>]
NoBuffer == <<>>

DecoderInit ==
  /\ Init
  /\ all_data = FALSE
  /\ step = "idle"
  /\ index = 1
  /\ todo = <<>>
  /\ incomplete_parse = FALSE
  /\ purge_aggressively = FALSE
  /\ current_frame = 1
  /\ offset = 0
  /\ png = NewPng(0)
  /\ progressive_decode_offset = 0
  /\ interlace_buffer = NoBuffer
  /\ frame_buffer_cache = <<>>
  /\ current_buffer_saw_alpha = FALSE

-----------------------------------------------------------------------------
(* Data, and calls for the size and for frames.                            *)

SetData ==
  /\ step = "idle"
  /\ ~all_data
  /\ \/ Receive /\ all_data' \in {FALSE, received' = file.size}
     \/ received = file.size /\ all_data' = TRUE /\ UNCHANGED reader
  /\ UNCHANGED <<call, loop, session, cache>>

(* The call begins with Parse, which does nothing after the end.           *)
CallParse(q) ==
  IF failed \/ parse_completed THEN UNCHANGED reader ELSE BeginParse(q)

AskSize ==
  /\ step = "idle"
  /\ ~size_available
  /\ ~failed
  /\ CallParse("kSize")
  /\ step' = "sizing"
  /\ UNCHANGED <<all_data, index, todo, incomplete_parse, purge_aggressively,
                 loop, session, cache>>

(* ImageIsHighBitDepth may fix the bit depth at any time between calls.    *)
AskHighBitDepth ==
  /\ step = "idle"
  /\ ImageIsHighBitDepth
  /\ UNCHANGED <<all_data, call, loop, session, cache>>

(* DecodeFrameBufferAtIndex: FrameCount first.                             *)
AskFrame(i) ==
  /\ step = "idle"
  /\ index' = i
  /\ CallParse("kMetaData")
  /\ step' = "counting"
  /\ UNCHANGED <<all_data, todo, incomplete_parse, purge_aggressively, loop,
                 session, cache>>

Parsing ==
  /\ step \in {"sizing", "counting", "parsing"}
  /\ ParseStep
  /\ UNCHANGED <<all_data, call, loop, session, cache>>

Parsed(s) == step = s /\ pc = "idle"

SizeAnswered ==
  /\ Parsed("sizing")
  /\ step' = "idle"
  /\ UNCHANGED <<reader, all_data, index, todo, incomplete_parse,
                 purge_aggressively, loop, session, cache>>

Known == Len(frame_buffer_cache)
Blank == [y \in 1 .. ihdr.height |-> <<>>]

(* FindRequiredPreviousFrame of the base class: the frame whose picture    *)
(* this one starts from; buffers are those of the frames before it.        *)
CoversImage(b) == b.rect = ImageRect

RequiredPreviousFrame(b, buffers) ==
  LET Keeping == {k \in DOMAIN buffers :
                    buffers[k].disposal # "kDisposeOverwritePrevious"}
      prev == IF Keeping = {} THEN kNotFound ELSE Max(Keeping)
  IN IF \/ CoversImage(b) /\ b.blend = "kBlendAtopBgcolor"
        \/ prev = kNotFound
        \/ /\ buffers[prev].disposal = "kDisposeOverwriteBgcolor"
           /\ CoversImage(buffers[prev]) \/ buffers[prev].required = kNotFound
       THEN kNotFound ELSE prev

(* A mutant of InitializeNewFrame: it reads the frame under construction.  *)
InitializeNewFrameUnfinished(buffers, i) ==
  LET b == [status   |-> "kFrameEmpty",
            rect     |-> new_frame.frame_rect,
            disposal |-> new_frame.disposal_method,
            blend    |-> new_frame.alpha_blend,
            required |-> kNotFound,
            opaque   |-> FALSE,
            rows     |-> Blank]
  IN Append(buffers, [b EXCEPT !.required = RequiredPreviousFrame(b, buffers)])

(* InitializeNewFrame.                                                     *)
InitializeNewFrame(buffers, i) ==
  LET b == [status   |-> "kFrameEmpty",
            rect     |-> frame_info[i].frame_rect,
            disposal |-> frame_info[i].disposal_method,
            blend    |-> frame_info[i].alpha_blend,
            required |-> kNotFound,
            opaque   |-> FALSE,
            rows     |-> Blank]
  IN Append(buffers, [b EXCEPT !.required = RequiredPreviousFrame(b, buffers)])

(* FrameCount; a frame that is complete or unknown ends the call.          *)
GrowCache ==
  /\ Parsed("counting")
  /\ LET count == IF failed THEN Known ELSE Len(frame_info)
     IN /\ frame_buffer_cache' =
             FoldLeft(InitializeNewFrame, frame_buffer_cache,
                      [n \in 1 .. count - Known |-> Known + n])
        /\ IF \/ index > count
              \/ frame_buffer_cache'[index].status = "kFrameComplete"
             THEN step' = "idle" /\ UNCHANGED reader
             ELSE step' = "parsing" /\ CallParse("kMetaData")
  /\ UNCHANGED <<all_data, index, todo, incomplete_parse, purge_aggressively,
                 loop, session, current_buffer_saw_alpha>>

-----------------------------------------------------------------------------
(* Decode of the decoder: the frames that lead to the one asked for.       *)

(* FindFramesToDecode of the base class, the order reversed as in Decode.  *)
FramesToDecode(i) ==
  LET upTo[k \in 1 .. Known] ==
        LET r == frame_buffer_cache[k].required
        IN IF \/ r = kNotFound
              \/ frame_buffer_cache[r].status = "kFrameComplete"
             THEN <<k>> ELSE Append(upTo[r], k)
  IN upTo[i]

(* A mutant of Decode: the order is not reversed.                          *)
DecodeUnreversed ==
  /\ Parsed("parsing")
  /\ IF failed
       THEN step' = "idle" /\ UNCHANGED <<todo, incomplete_parse,
                                          purge_aggressively>>
       ELSE /\ step' = "frames"
            /\ todo' = Reverse(FramesToDecode(index))
            /\ incomplete_parse' = FALSE
            /\ purge_aggressively' \in {purge_aggressively, TRUE}
  /\ UNCHANGED <<reader, all_data, index, loop, session, cache>>

Decode ==
  /\ Parsed("parsing")
  /\ IF failed
       THEN step' = "idle" /\ UNCHANGED <<todo, incomplete_parse,
                                          purge_aggressively>>
       ELSE /\ step' = "frames"
            /\ todo' = FramesToDecode(index)
            /\ incomplete_parse' = FALSE
            /\ purge_aggressively' \in {purge_aggressively, TRUE}
  /\ UNCHANGED <<reader, all_data, index, loop, session, cache>>

FirstFrameFullyReceived ==
  frame_info # <<>> /\ frame_info[1].byte_length # kFirstFrameIndicator

(* A mutant of ShouldDecodeWithNewPNG: a decoding in progress is not given *)
(* up for another frame.                                                   *)
ShouldDecodeWithNewPNGBySize(i) ==
  \/ ~png.exists
  \/ progressive_decode_offset = 0 /\ frame_info[i].frame_rect # ImageRect

ShouldDecodeWithNewPNG(i) ==
  LET in_progress == progressive_decode_offset # 0
      matches == frame_info[i].frame_rect = ImageRect
  IN \/ ~png.exists
     \/ i > 1 /\ (in_progress \/ ~matches)
     \/ i = 1 /\ ~in_progress /\ ~matches

(* StartFrameDecoding: the IHDR is rewritten for a smaller frame.          *)
StartedPng(i) == NewPng(IF frame_info[i].frame_rect = ImageRect THEN 0 ELSE i)

(* Decode of the reader, for an animation, up to its loops.                *)
BeginFrame ==
  /\ step = "frames"
  /\ todo # <<>>
  /\ is_animated
  /\ LET i == Head(todo)
         new == ShouldDecodeWithNewPNG(i)
         progress == IF new THEN 0 ELSE progressive_decode_offset
     IN /\ current_frame' = i
        /\ offset' = frame_info[i].start_offset
        /\ png' = IF new THEN StartedPng(i) ELSE png
        /\ progressive_decode_offset' = progress
        /\ step' = IF i = 1 /\ (~FirstFrameFullyReceived \/ progress # 0)
                     THEN "progressive" ELSE "whole"
  /\ UNCHANGED <<reader, all_data, index, todo, incomplete_parse,
                 purge_aggressively, interlace_buffer, cache>>

-----------------------------------------------------------------------------
(* libpng: it turns data into rows.                                        *)

SessionHeight ==
  IF png.ihdr_of = 0 THEN ihdr.height
                     ELSE frame_info[png.ihdr_of].frame_rect.height

Needed == SessionHeight * (IF file.interlaced THEN Passes ELSE 1)

(* The data in the chunk at o, without the sequence number of an fdAT.     *)
Payload(o) ==
  LET c == file.chunk[o]
  IN CASE c.type = "IDAT" -> o + 8 .. o + 7 + c.length
       [] c.type = "fdAT" -> o + 12 .. o + 7 + c.length
       [] OTHER -> {}

(* libpng gives up behind an IDAT with a wrong CRC.  That of an fdAT is    *)
(* wrong anyway and ignored.                                               *)
Corrupt(o) == file.chunk[o].type = "IDAT" /\ ~file.chunk[o].valid

(* What the row callbacks read and write.                                  *)
RowState ==
  [data |-> png.data, interlaced |-> interlace_buffer,
   buffers |-> frame_buffer_cache, saw_alpha |-> current_buffer_saw_alpha]

CanReusePreviousFrameBuffer(f) ==
  frame_buffer_cache[f].disposal # "kDisposeOverwritePrevious"

(* The picture frame f starts from: that of the required frame, disposed.  *)
StartingRows(f, buffers) ==
  LET r == buffers[f].required
      Cleared == buffers[r].rect.y + 1
                   .. buffers[r].rect.y + buffers[r].rect.height
  IN IF r = kNotFound THEN Blank
     ELSE IF buffers[r].disposal = "kDisposeOverwriteBgcolor"
       THEN [y \in DOMAIN Blank |-> IF y \in Cleared THEN <<>>
                                     ELSE buffers[r].rows[y]]
       ELSE buffers[r].rows

(* InitFrameBuffer of the base class; writable: the memory of the required *)
(* frame has not been handed out, so it is taken over if it may be.        *)
InitFrameBuffer(f, buffers, writable) ==
  LET r == buffers[f].required
      ready == [buffers EXCEPT ![f].rows = StartingRows(f, buffers),
                               ![f].status = "kFramePartial"]
  IN IF r # kNotFound /\ writable /\ CanReusePreviousFrameBuffer(f)
       THEN [ready EXCEPT ![r].status = "kFrameEmpty", ![r].rows = Blank]
       ELSE ready

(* The first row for an empty buffer.                                      *)
WithBuffer(f, s, writable) ==
  IF s.buffers[f].status # "kFrameEmpty" THEN s
  ELSE [s EXCEPT !.buffers = InitFrameBuffer(f, s.buffers, writable),
                 !.saw_alpha = FALSE,
                 !.interlaced = IF file.interlaced
                                  THEN [y \in 1 .. ihdr.height |-> {}]
                                  ELSE @]

BlendsOverPrevious(f) ==
  /\ file.alpha
  /\ ~decode_to_half_float
  /\ frame_buffer_cache[f].blend = "kBlendAtopPreviousFrame"

(* A mutant of RowAvailable: the last row decides about alpha.             *)
RowAvailableLastAlpha(f, s, row, byte) ==
  LET b == s.buffers[f]
      combining == s.interlaced # NoBuffer
      drawn == (IF combining THEN s.interlaced[row] ELSE {}) \cup {byte}
  IN IF row > b.rect.height THEN s
     ELSE [s EXCEPT
             !.interlaced = IF combining THEN [@ EXCEPT ![row] = drawn] ELSE @,
             !.buffers[f].rows[b.rect.y + row] =
                IF BlendsOverPrevious(f) THEN Append(@, drawn) ELSE <<drawn>>,
             !.saw_alpha = file.alpha /\ drawn \cap file.translucent # {}]

(* Row number row of frame f, from the data at byte.                       *)
RowAvailable(f, s, row, byte) ==
  LET b == s.buffers[f]
      combining == s.interlaced # NoBuffer
      drawn == (IF combining THEN s.interlaced[row] ELSE {}) \cup {byte}
  IN IF row > b.rect.height THEN s
     ELSE [s EXCEPT
             !.interlaced = IF combining THEN [@ EXCEPT ![row] = drawn] ELSE @,
             !.buffers[f].rows[b.rect.y + row] =
                IF BlendsOverPrevious(f) THEN Append(@, drawn) ELSE <<drawn>>,
             !.saw_alpha =
                IF decode_to_half_float THEN file.alpha
                ELSE @ \/ (file.alpha /\ drawn \cap file.translucent # {})]

(* One byte of data: a row, unless there are more bytes than rows.         *)
Scan(f, s, byte, writable) ==
  LET k == Len(s.data)
      fed == [s EXCEPT !.data = Append(@, byte)]
  IN IF k >= Needed THEN fed
     ELSE RowAvailable(f, WithBuffer(f, fed, writable),
                       (k % SessionHeight) + 1, byte)

(* libpng is given the data in bytes, the first one first.  (The choice    *)
(* from a singleton makes TLC evaluate each state of the rows once.)       *)
RowStateAfter(f, bytes, writable) ==
  MapThenFoldSet(LAMBDA byte, s :
                   CHOOSE t \in {Scan(f, u, byte, writable) : u \in {s}} : TRUE,
                 RowState, LAMBDA byte : byte, Max, bytes)

Feed(s) ==
  /\ png' = [png EXCEPT !.data = s.data]
  /\ interlace_buffer' = s.interlaced
  /\ frame_buffer_cache' = s.buffers
  /\ current_buffer_saw_alpha' = s.saw_alpha

-----------------------------------------------------------------------------
(* The loops of the reader.                                                *)

(* An error: SetFailed drops the reader and all it holds.                  *)
LoseReader ==
  /\ Fail
  /\ step' = "idle"
  /\ png' = NoPng
  /\ progressive_decode_offset' = 0
  /\ interlace_buffer' = NoBuffer
  /\ UNCHANGED <<all_data, index, todo, incomplete_parse, purge_aggressively>>

DecodeFails == LoseReader /\ UNCHANGED <<loop, cache>>

(* libpng fails behind the data it was given last.                         *)
FeedFails(s) ==
  /\ LoseReader
  /\ frame_buffer_cache' = s.buffers
  /\ current_buffer_saw_alpha' = s.saw_alpha

(* What FrameComplete does to the buffer.                                  *)
Completed(buffers, f, saw_alpha) ==
  [buffers EXCEPT ![f].status = "kFrameComplete", ![f].opaque = ~saw_alpha]

(* The frame has ended: libpng is given an IEND and destroyed.  It fails   *)
(* if rows are missing.                                                    *)
EndFrame ==
  IF Len(png.data) < Needed
    THEN DecodeFails
    ELSE /\ interlace_buffer' = NoBuffer
         /\ frame_buffer_cache' = Completed(frame_buffer_cache, current_frame,
                                            current_buffer_saw_alpha)
         /\ png' = NoPng
         /\ progressive_decode_offset' =
              IF step = "progressive" THEN 0 ELSE progressive_decode_offset
         /\ step' = "decoded"
         /\ UNCHANGED <<reader, all_data, index, todo, incomplete_parse,
                        purge_aggressively, loop, current_buffer_saw_alpha>>

here == file.chunk[offset]
here_end == offset + here.length + 12

(* ProgressivelyDecodeFirstFrame.  Its sums with eight are not checked, but *)
(* Parse has checked them for every chunk that is here, and failed.        *)
FirstFrameEnds ==
  /\ step = "progressive"
  /\ received >= offset + 8
  /\ here.type \in {"fcTL", "IEND"}
  /\ EndFrame

(* A mutant of SkipDecodedChunk: the offset does not advance.              *)
SkipDecodedChunkForever ==
  /\ step = "progressive"
  /\ received >= offset + 8
  /\ here.type \notin {"fcTL", "IEND"}
  /\ progressive_decode_offset >= here_end
  /\ UNCHANGED allvars

SkipDecodedChunk ==
  /\ step = "progressive"
  /\ received >= offset + 8
  /\ here.type \notin {"fcTL", "IEND"}
  /\ progressive_decode_offset >= here_end
  /\ offset' = here_end
  /\ UNCHANGED <<reader, all_data, call, current_frame, session, cache>>

(* A mutant of ResumeAt: the data of a chunk starts again.                 *)
ResumeAtChunk ==
  IF here.type = "fdAT" THEN offset + 12 ELSE offset + 8

(* Where in the chunk the data goes on.                                    *)
ResumeAt ==
  IF progressive_decode_offset >= offset + 8 THEN progressive_decode_offset
  ELSE IF here.type = "fdAT" THEN offset + 12
  ELSE offset + 8

(* Up to where ProcessData comes from there.                               *)
FedUpTo(start, end) ==
  IF received <= start THEN start
  ELSE IF received < end THEN received ELSE end

ProgressiveChunk ==
  /\ step = "progressive"
  /\ received >= offset + 8
  /\ here.type \notin {"fcTL", "IEND"}
  /\ progressive_decode_offset < here_end
  /\ \E writable \in BOOLEAN :
       LET end == FedUpTo(ResumeAt, here_end)
           s == RowStateAfter(current_frame,
                              {o \in Payload(offset) :
                                 ResumeAt <= o /\ o < end},
                              writable)
       IN IF end = here_end /\ Corrupt(offset)
            THEN FeedFails(s) /\ UNCHANGED loop
            ELSE /\ Feed(s)
                 /\ progressive_decode_offset' = end
                 /\ IF end < here_end
                      THEN step' = "decoded" /\ UNCHANGED offset
                      ELSE offset' = here_end /\ UNCHANGED step
                 /\ UNCHANGED <<reader, all_data, index, todo,
                                incomplete_parse, purge_aggressively,
                                current_frame>>

AwaitFrameData ==
  /\ step = "progressive"
  /\ received < offset + 8
  /\ step' = "decoded"
  /\ UNCHANGED <<reader, all_data, index, todo, incomplete_parse,
                 purge_aggressively, loop, session, cache>>

(* DecodeFrame: a frame that is here in full.                              *)
WholeChunk ==
  /\ step = "whole"
  /\ offset < frame_info[current_frame].start_offset
                + frame_info[current_frame].byte_length
  /\ \E writable \in BOOLEAN :
       LET s == RowStateAfter(current_frame, Payload(offset), writable)
       IN IF Corrupt(offset)
            THEN FeedFails(s) /\ UNCHANGED loop
            ELSE /\ Feed(s)
                 /\ offset' = here_end
                 /\ UNCHANGED <<reader, all_data, call, current_frame,
                                progressive_decode_offset>>

WholeFrameEnds ==
  /\ step = "whole"
  /\ offset >= frame_info[current_frame].start_offset
                 + frame_info[current_frame].byte_length
  /\ EndFrame

(* A still image: libpng is given everything from where the last call      *)
(* stopped, whatever the chunks; it draws the IDATs up to the IEND.        *)
StillChunks ==
  {o \in DOMAIN file.chunk :
     /\ idat_offset <= o
     /\ \A p \in DOMAIN file.chunk :
          idat_offset <= p /\ p < o => file.chunk[p].type # "IEND"}

StillImage ==
  /\ step = "frames"
  /\ todo # <<>>
  /\ ~is_animated
  /\ current_frame' = Head(todo)
  /\ LET start == frame_info[1].start_offset + progressive_decode_offset
         end == IF received > start THEN received ELSE start
         Ended == {o \in StillChunks :
                     LET e == o + 12 + file.chunk[o].length
                     IN start < e /\ e <= end}
         Data == {o \in StillChunks : file.chunk[o].type = "IDAT"}
         s == RowStateAfter(Head(todo),
                            {b \in UNION {Payload(o) : o \in Data} :
                               start <= b /\ b < end},
                            FALSE)
         ended == \E o \in Ended : file.chunk[o].type = "IEND"
     IN IF \/ \E o \in Ended : Corrupt(o)
           \/ ended /\ Len(s.data) < Needed
          THEN FeedFails(s) /\ UNCHANGED offset
          ELSE /\ Feed(IF ended
                         THEN [s EXCEPT !.interlaced = NoBuffer,
                                        !.buffers = Completed(@, Head(todo),
                                                              s.saw_alpha)]
                         ELSE s)
               /\ progressive_decode_offset' =
                    progressive_decode_offset + end - start
               /\ step' = "decoded"
               /\ UNCHANGED <<reader, all_data, index, todo,
                              incomplete_parse, purge_aggressively, offset>>

-----------------------------------------------------------------------------
(* After a frame.                                                          *)

(* ClearFrameBuffer for each frame of a set.                               *)
ClearFrameBuffers(S) ==
  /\ frame_buffer_cache' =
       [i \in 1 .. Known |->
          IF i \in S
            THEN [frame_buffer_cache[i] EXCEPT !.status = "kFrameEmpty",
                                               !.rows = Blank]
            ELSE frame_buffer_cache[i]]
  /\ IF 1 \in S /\ ~failed
       THEN png' = NoPng /\ progressive_decode_offset' = 0
       ELSE UNCHANGED <<png, progressive_decode_offset>>

(* ClearCacheExceptFrame of the base class: one frame is kept, and the     *)
(* nearest complete frame it needs if it will be needed again.             *)
Kept(keep) ==
  LET b == frame_buffer_cache[keep]
      complete[k \in 0 .. Known] ==
        IF \/ k = kNotFound
           \/ frame_buffer_cache[k].status = "kFrameComplete"
          THEN k ELSE complete[frame_buffer_cache[k].required]
  IN IF keep \notin 1 .. Known THEN {}
     ELSE IF \/ b.status # "kFrameComplete"
             \/ b.disposal = "kDisposeOverwritePrevious"
       THEN {keep, complete[b.required]} ELSE {keep}

Clearable(keep) ==
  {i \in 1 .. Known \ Kept(keep) :
     Known > 1 /\ frame_buffer_cache[i].status # "kFrameEmpty"}

PostDecodeProcessing ==
  /\ step = "decoded"
  /\ step' = "frames"
  /\ IF frame_buffer_cache[current_frame].status # "kFrameComplete"
       THEN /\ incomplete_parse' = TRUE
            /\ todo' = <<>>
            /\ UNCHANGED <<png, progressive_decode_offset, frame_buffer_cache>>
       ELSE /\ todo' = Tail(todo)
            /\ IF purge_aggressively
                 THEN ClearFrameBuffers(Clearable(current_frame))
                 ELSE UNCHANGED <<png, progressive_decode_offset,
                                  frame_buffer_cache>>
            /\ UNCHANGED incomplete_parse
  /\ UNCHANGED <<reader, all_data, index, purge_aggressively, loop,
                 interlace_buffer, current_buffer_saw_alpha>>

(* A mutant of FinishDecode: only an unfinished parse is an error.         *)
FinishDecodeLenient ==
  /\ step = "frames"
  /\ todo = <<>>
  /\ IF index >= Known /\ all_data /\ ~parse_completed
       THEN DecodeFails
       ELSE /\ step' = "idle"
            /\ UNCHANGED <<reader, all_data, index, todo, incomplete_parse,
                           purge_aggressively, loop, session, cache>>

(* The end of Decode: a truncated file is an error once all of it is here. *)
FinishDecode ==
  /\ step = "frames"
  /\ todo = <<>>
  /\ IF /\ index >= Known
        /\ all_data
        /\ incomplete_parse \/ ~parse_completed
       THEN DecodeFails
       ELSE /\ step' = "idle"
            /\ UNCHANGED <<reader, all_data, index, todo, incomplete_parse,
                           purge_aggressively, loop, session, cache>>

(* Between calls the clients may clear the cache except one frame.         *)
Purge(keep) ==
  /\ step = "idle"
  /\ Clearable(keep) # {}
  /\ ClearFrameBuffers(Clearable(keep))
  /\ UNCHANGED <<reader, all_data, call, loop, interlace_buffer,
                 current_buffer_saw_alpha>>

CallStep ==
  \/ Parsing
  \/ SizeAnswered
  \/ GrowCache
  \/ Decode
  \/ BeginFrame
  \/ StillImage
  \/ FirstFrameEnds
  \/ SkipDecodedChunk
  \/ ProgressiveChunk
  \/ AwaitFrameData
  \/ WholeChunk
  \/ WholeFrameEnds
  \/ PostDecodeProcessing
  \/ FinishDecode

DecoderNext ==
  \/ SetData
  \/ AskSize
  \/ AskHighBitDepth
  \/ \E i \in 1 .. MaxFrames : AskFrame(i)
  \/ CallStep
  \/ \E keep \in 0 .. MaxFrames : Purge(keep)

(* A call runs to its end.                                                 *)
DecoderSpec ==
  DecoderInit /\ [][DecoderNext]_allvars /\ WF_allvars(CallStep)

-----------------------------------------------------------------------------
(* What a frame should show, from the file alone.                          *)

(* The chunks of a frame and the data in them, in order.                   *)
OwnChunks(i) ==
  IF ~is_animated THEN {o \in StillChunks : file.chunk[o].type = "IDAT"}
  ELSE LET start == frame_info[i].start_offset
       IN {o \in DOMAIN file.chunk :
             /\ start <= o
             /\ \A p \in DOMAIN file.chunk :
                  start <= p /\ p <= o
                    => file.chunk[p].type \notin {"fcTL", "IEND"}}

OwnData(i) == UNION {Payload(o) : o \in OwnChunks(i)}

(* Offsets in the order of the file.                                       *)
InOrder(S) ==
  MapThenFoldSet(LAMBDA o, before : Append(before, o), <<>>, LAMBDA o : o,
                 Max, S)

OwnDataBefore(i, o) == InOrder({b \in OwnData(i) : b < o})

(* The data that makes up one row of a frame, in all passes.               *)
RowData(i, row) ==
  LET height == frame_info[i].frame_rect.height
      data == InOrder(OwnData(i))
      passes == IF file.interlaced THEN Passes ELSE 1
  IN {data[k] : k \in {n \in 1 .. height * passes :
                         n <= Len(data) /\ (n - 1) % height = row - 1}}

InRect(i, y) ==
  /\ frame_info[i].frame_rect.y < y
  /\ y <= frame_info[i].frame_rect.y + frame_info[i].frame_rect.height

(* A frame may blend over the canvas it is drawn on.                       *)
Blends(i) ==
  frame_info[i].alpha_blend = "kBlendAtopPreviousFrame" /\ file.alpha

DrawnOn(i, canvas) ==
  [y \in 1 .. ihdr.height |->
     LET own == RowData(i, y - frame_info[i].frame_rect.y)
     IN IF ~InRect(i, y) THEN canvas[y]
        ELSE IF Blends(i) THEN Append(canvas[y], own) ELSE <<own>>]

LeftBehind(i, canvas) ==
  CASE frame_info[i].disposal_method = "kDisposeKeep" -> DrawnOn(i, canvas)
    [] frame_info[i].disposal_method = "kDisposeOverwriteBgcolor" ->
         [y \in 1 .. ihdr.height |-> IF InRect(i, y) THEN <<>> ELSE canvas[y]]
    [] OTHER -> canvas

(* The canvas, as an APNG is shown from its first frame on: what a frame   *)
(* shows is built on what the frames before it leave behind.               *)
Canvas[i \in DOMAIN frame_info] ==
  IF i = 1 THEN Blank ELSE LeftBehind(i - 1, Canvas[i - 1])

Animation == [i \in 1 .. Known |-> DrawnOn(i, Canvas[i])]

CompleteFrames ==
  {i \in 1 .. Known : frame_buffer_cache[i].status = "kFrameComplete"}

(* A layer that is drawn twice in a row counts once.                       *)
WithoutRepeats(layers) ==
  FoldLeft(LAMBDA done, l : IF done # <<>> /\ Last(done) = l THEN done
                            ELSE Append(done, l),
           <<>>, layers)

-----------------------------------------------------------------------------
(* Properties.                                                             *)

(* The cache has no frame the parser has not registered, and each buffer   *)
(* was set up with the final rectangle and operations of its frame, even   *)
(* the first, which is registered while its data still arrives.            *)
DecoderTypeOK ==
  /\ step \in {"idle", "sizing", "counting", "parsing", "frames",
               "progressive", "whole", "decoded"}
  /\ all_data => received = file.size
  /\ Known <= Len(frame_info)
  /\ \A i \in 1 .. Known :
       LET b == frame_buffer_cache[i]
       IN /\ b.status \in {"kFrameEmpty", "kFramePartial", "kFrameComplete"}
          /\ b.required \in 0 .. i - 1
          /\ b.rect = frame_info[i].frame_rect
          /\ b.disposal = frame_info[i].disposal_method
          /\ b.blend = frame_info[i].alpha_blend
          /\ DOMAIN b.rows = 1 .. ihdr.height

(* libpng sees one frame at a time: while a frame is decoded its session   *)
(* has the size of that frame and has been given exactly that frame's      *)
(* data, in order, each byte once; between the calls it holds what the     *)
(* first frame had up to progressive_decode_offset, or nothing             *)
(* (ShouldDecodeWithNewPNG, ProgressivelyDecodeFirstFrame, DecodeFrame).   *)
LibpngSeesOneFrame ==
  ~failed /\ frame_info # <<>> =>
    CASE step = "whole" ->
           /\ png.exists
           /\ SessionHeight = frame_info[current_frame].frame_rect.height
           /\ png.data = OwnDataBefore(current_frame, offset)
      [] progressive_decode_offset # 0 ->
           /\ png.exists
           /\ SessionHeight = frame_info[1].frame_rect.height
           /\ png.data = OwnDataBefore(1,
                (IF is_animated THEN 0 ELSE frame_info[1].start_offset)
                  + progressive_decode_offset)
      [] OTHER -> png.data = <<>>

(* Frames asked for in any order, while the file arrives in pieces, the    *)
(* cache is cleared, buffers are reused and the decoding of the first      *)
(* frame is given up and taken up again: a complete frame shows what the   *)
(* animation shows when played from the start (Decode, InitFrameBuffer,    *)
(* RowAvailable, FrameComplete).                                           *)
CompleteFramesShowTheAnimation ==
  \A i \in CompleteFrames : \A y \in 1 .. ihdr.height :
    WithoutRepeats(frame_buffer_cache[i].rows[y]) = Animation[i][y]

(* A frame is marked opaque only if none of its pixels is translucent,     *)
(* although the flag is shared by all the frames being decoded             *)
(* (current_buffer_saw_alpha_ in RowAvailable and FrameComplete).  Data    *)
(* behind the last row has no pixels.                                      *)
OpaqueFramesAreOpaque ==
  \A i \in CompleteFrames :
    frame_buffer_cache[i].opaque /\ file.alpha
      => \A row \in 1 .. frame_info[i].frame_rect.height :
           RowData(i, row) \cap file.translucent = {}

(* A buffer is set up from a complete frame: nothing in the same call      *)
(* clears or takes over a frame that the rest of the call needs (the       *)
(* order of frames_to_decode, PostDecodeProcessing).                       *)
RequiredFrameIsComplete ==
  step \in {"progressive", "whole"}
    /\ frame_buffer_cache[current_frame].status = "kFrameEmpty"
    => \/ frame_buffer_cache[current_frame].required = kNotFound
       \/ frame_buffer_cache[current_frame].required \in CompleteFrames

(* FrameIsReceivedAtIndex.                                                 *)
FrameIsReceivedAtIndex(i) ==
  IF parse_completed /\ Len(frame_info) = 1 THEN all_data
  ELSE /\ i <= Len(frame_info)
       /\ i = 1 => FirstFrameFullyReceived

(* A frame that is reported as received is complete when the call for it   *)
(* returns, or the image has failed: clients do not ask again.  So is the  *)
(* last frame known when no more data comes: a file that is truncated,     *)
(* inside that frame or behind it, fails (Decode).                         *)
ReceivedFramesAreAnswered ==
  [][step = "frames" /\ step' = "idle"
       => LET last == all_data /\ index = Known
              answered == index \in CompleteFrames'
          IN FrameIsReceivedAtIndex(index) \/ last =>
               failed' \/ (answered /\ (last => parse_completed))]_allvars

(* Every call returns.                                                     *)
RequestsReturn == (step # "idle") ~> (step = "idle")

(* "We can blend the pixel of this frame over the previous pixel": no      *)
(* pixel of a frame is blended with the frame's own pixels (RowAvailable). *)
BlendedOnce ==
  \A i \in CompleteFrames : frame_buffer_cache[i].rows = Animation[i]

(* "After the first pass you will have to pass the current row, and the    *)
(* function will combine the old row and the new row": a complete row of   *)
(* an interlaced frame has the pixels of all its passes (RowAvailable).    *)
PassesAreCombined ==
  \A i \in CompleteFrames : \A y \in 1 .. ihdr.height :
    InRect(i, y) =>
      Last(frame_buffer_cache[i].rows[y])
        = RowData(i, y - frame_info[i].frame_rect.y)

=============================================================================
