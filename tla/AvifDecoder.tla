---------------------------- MODULE AvifDecoder ----------------------------
(***************************************************************************)
(* AVIFImageDecoder of avif_image_decoder.cc: an image whose bytes arrive  *)
(* while it is shown.                                                      *)
(*                                                                         *)
(* A still image is rendered row by row as libavif decodes it, a layered   *)
(* one ("progressive") once for every layer that has arrived, and the      *)
(* frames of an animation are rendered whole; or a still image is copied   *)
(* to the YUV planes of a client that asks for these, which is never the   *)
(* one that asks for frames.  libavif is external: the rows it has         *)
(* decoded, and which of its images it has.                                *)
(*                                                                         *)
(* A pixel row is what it was computed from: an image of the file, the     *)
(* rows of its chroma planes, and how often it was colour corrected.  A    *)
(* byte of the file is its offset.                                         *)
(***************************************************************************)
EXTENDS Integers, FiniteSets, Sequences

CONSTANT Images   \* the files that may arrive

(* size, and the size of the file up to its metadata; readable: libavif    *)
(* can parse it and it has the image asked for, with its sizes; extents:   *)
(* where the data of each image ends, which libavif needs to decode it,    *)
(* beyond the size if the file is truncated; layered: a still image in     *)
(* layers; width, rows: of the whole image, and those of its clean         *)
(* aperture; colours: the chroma format, or "400" for gray; transform: the *)
(* colours are corrected, sk_yuv: Skia knows them as YUV.                  *)
IsImage(f) ==
  /\ {f.size, f.metadata, f.width, f.rows, f.clap_width, f.clap_rows, f.images,
      f.depth} \subseteq Nat \ {0}
  /\ f.clap_width <= f.width /\ f.clap_rows <= f.rows /\ f.depth <= 16
  /\ f.clap \in {"none", "invalid", "nonzero origin", "zero origin"}
  /\ DOMAIN f.extents = 0 .. f.images - 1
  /\ \A n \in DOMAIN f.extents : f.extents[n] \in Nat
  /\ \A n \in 1 .. f.images - 1 : f.extents[n - 1] <= f.extents[n]
  /\ {f.readable, f.layered, f.alpha, f.half_float_option, f.transform, f.sk_yuv,
      f.ignores_color_space} \subseteq BOOLEAN
  /\ f.colours \in {"400", "420", "422", "444"}
  /\ f.icc \in {"none", "unreadable", "gray", "rgb", "other"}
  /\ f.cicp \in {"unspecified", "supported", "unsupported"}
  /\ f.irot \in 0 .. 3 /\ f.imir \in -1 .. 1

ASSUME AvifAssumption == \A f \in Images : IsImage(f)

VARIABLES
  file,
  client,           \* what it asks for: "frames" or "planes"
  received, all_data_received,
  segments,         \* where the segments end in which the data is kept
  failed,
  size_available, have_parsed_current_data,
  progressive,
  ignore_clap, orientation, allow_decode_to_yuv,
  imageIndex,       \* libavif: the image decoded last
  decoded_rows,     \* libavif: the rows of a still image decoded so far
  frame_buffer_cache,
  incrementally_displayed_height,
  image_planes

data == <<received, all_data_received, segments>>
parse == <<size_available, have_parsed_current_data, progressive, ignore_clap,
           orientation, allow_decode_to_yuv>>
frames == <<imageIndex, decoded_rows, frame_buffer_cache,
            incrementally_displayed_height>>
vars == <<file, client, data, failed, parse, frames, image_planes>>

(* SetHasCompleteScan.                                                     *)
HasCompleteScan == DOMAIN image_planes # {}


(* decoder_->imageCount: the layers are images only while they are decoded *)
(* progressively.                                                          *)
imageCount == IF file.layered /\ ~progressive THEN 1 ELSE file.images
decoded_frame_count == IF progressive THEN 1 ELSE imageCount
allowIncremental == imageCount = 1

decode_to_half_float == file.depth > 8 /\ file.half_float_option

(* The bilinear upsampling of libyuv, for which rows are decoded in pairs. *)
subsampled == file.colours = "420" /\ ~decode_to_half_float

(* Size(), and with it the rows of a frame: the clean aperture if it is    *)
(* used.                                                                   *)
Cropped == file.clap # "none" /\ ~ignore_clap
SizeWidth == IF Cropped THEN file.clap_width ELSE file.width
SizeHeight == IF Cropped THEN file.clap_rows ELSE file.rows

(* Where the data ends that libavif needs for an image.                    *)
Extent(n) ==
  IF imageCount = 1 THEN file.extents[file.images - 1] ELSE file.extents[n]

NoRow == [image |-> -1, uv |-> {}, corrected |-> 0]
EmptyFrame == [status |-> "kFrameEmpty", alpha |-> TRUE,
               rows |-> [r \in 0 .. SizeHeight - 1 |-> NoRow]]

Init ==
  /\ file \in Images
  /\ client \in {"frames", "planes"}
  /\ received = 0
  /\ all_data_received = FALSE
  /\ segments = {}
  /\ failed = FALSE
  /\ size_available = FALSE
  /\ have_parsed_current_data = FALSE
  /\ progressive = FALSE
  /\ ignore_clap = FALSE
  /\ orientation = <<"top", "left">>
  /\ allow_decode_to_yuv = FALSE
  /\ imageIndex = -1
  /\ decoded_rows = 0
  /\ frame_buffer_cache = <<>>
  /\ incrementally_displayed_height = 0
  /\ image_planes = <<>>

-----------------------------------------------------------------------------
(* Data and metadata.                                                      *)

(* The bytes from position to the end of their segment.                    *)
GetSomeData(position) ==
  LET end == CHOOSE e \in segments :
               e > position /\ \A d \in segments : d > position => e <= d
  IN IF position = received THEN <<>>
     ELSE [k \in 1 .. end - position |-> position + k - 1]

(* The loop appends whole segments, so the last one may be more than asked *)
(* for.                                                                    *)
Joined(from, end) ==
  LET Rest[position \in from .. end] ==
        IF position = end THEN <<>>
        ELSE LET some == GetSomeData(position)
                 next == IF position + Len(some) <= end THEN position + Len(some)
                                                        ELSE end
             IN some \o Rest[next]
  IN Rest[from]

(* A mutant of ReadFromSegmentReader: a request is cut to what is here.    *)
ReadAvailable(offset, size) ==
  IF offset > received
    THEN [result |-> IF all_data_received THEN "AVIF_RESULT_IO_ERROR"
                                          ELSE "AVIF_RESULT_WAITING_ON_IO"]
    ELSE LET available == IF size <= received - offset THEN size
                                                       ELSE received - offset
         IN [result |-> "AVIF_RESULT_OK", size |-> available,
             bytes |-> Joined(offset, offset + available)]

(* libavif reads: from the segment itself if it has all that is asked for, *)
(* or from a copy.                                                         *)
ReadFromSegmentReader(offset, size) ==
  IF offset > received
    THEN [result |-> IF all_data_received THEN "AVIF_RESULT_IO_ERROR"
                                          ELSE "AVIF_RESULT_WAITING_ON_IO"]
  ELSE IF size > received - offset /\ ~all_data_received
    THEN [result |-> "AVIF_RESULT_WAITING_ON_IO"]
  ELSE LET available == IF size <= received - offset THEN size
                                                     ELSE received - offset
           some == GetSomeData(offset)
       IN [result |-> "AVIF_RESULT_OK", size |-> available,
           bytes |-> IF Len(some) >= available THEN some
                     ELSE Joined(offset, offset + available)]

(* An ICC profile, which has to fit the planes, before the CICP one.       *)
ProfileIsUsable ==
  \/ file.ignores_color_space
  \/ file.icc = "none" /\ file.cicp # "unsupported"
  \/ file.icc = "rgb"
  \/ file.icc = "gray" /\ file.colours = "400"

(* Where the first row and the first column of the image are to be seen:   *)
(* kOriginLeftBottom is <<"left", "bottom">>.                              *)
kAxisAngleToOrientation ==
  <<<< <<"top", "left">>, <<"left", "bottom">>, <<"bottom", "right">>,
       <<"right", "top">> >>,
    << <<"bottom", "left">>, <<"left", "top">>, <<"top", "right">>,
       <<"right", "bottom">> >>,
    << <<"top", "right">>, <<"right", "bottom">>, <<"bottom", "left">>,
       <<"left", "top">> >> >>

(* A mutant of Orientation: the mirror is applied before the rotation.     *)
OrientationMirroredFirst ==
  LET angle == IF file.imir = -1 THEN file.irot ELSE (4 - file.irot) % 4
  IN kAxisAngleToOrientation[file.imir + 2][angle + 1]

Orientation == kAxisAngleToOrientation[file.imir + 2][file.irot + 1]

(* What the metadata say, when they can be used.                           *)
ReadMetadata ==
  /\ size_available' = TRUE
  /\ orientation' = Orientation
  /\ allow_decode_to_yuv' = (/\ file.colours # "400" /\ ~file.alpha
                             /\ decoded_frame_count' = 1
                             /\ file.sk_yuv /\ ~file.transform)
  /\ ignore_clap' = (file.clap \in {"invalid", "nonzero origin"})

(* ParseMetadata, when the data at hand has not been parsed.               *)
UpdateDemuxer(size, all) ==
  /\ have_parsed_current_data' = TRUE
  /\ IF size < file.metadata
       THEN /\ failed' = all
            /\ UNCHANGED <<size_available, progressive, ignore_clap, orientation,
                           allow_decode_to_yuv>>
       ELSE /\ failed' = ~(file.readable /\ ProfileIsUsable)
            /\ progressive' = (file.layered /\ file.images > 1 /\ ~all)
            /\ IF failed' THEN UNCHANGED <<size_available, ignore_clap, orientation,
                                           allow_decode_to_yuv>>
                          ELSE ReadMetadata

(* ImageDecoder::SetData and OnSetData.                                    *)
OnSetData(size, all) ==
  /\ ~failed /\ ~all_data_received
  /\ size > received \/ (size = received /\ all)
  /\ all => size = file.size
  /\ UNCHANGED <<file, client, frames, image_planes>>
  /\ received' = size
  /\ all_data_received' = all
  /\ segments' = segments \cup {size}
  /\ IF all /\ ~size_available THEN UpdateDemuxer(size, all)
     ELSE /\ have_parsed_current_data' = FALSE
          /\ UNCHANGED <<failed, size_available, progressive, ignore_clap,
                         orientation, allow_decode_to_yuv>>

DecodeSize ==
  /\ ~failed /\ ~size_available /\ ~have_parsed_current_data
  /\ UNCHANGED <<file, client, data, frames, image_planes>>
  /\ UpdateDemuxer(received, all_data_received)

(* ImageDecoder::FrameCount: DecodeFrameCount, and InitializeNewFrame for  *)
(* the frames that are new.                                                *)
DecodeFrameCount ==
  /\ client = "frames"
  /\ ~failed /\ DOMAIN frame_buffer_cache = {}
  /\ UNCHANGED <<file, client, data, imageIndex, decoded_rows,
                 incrementally_displayed_height, image_planes>>
  /\ \/ size_available /\ UNCHANGED <<failed, parse>>
     \/ /\ ~size_available /\ ~have_parsed_current_data
        /\ UpdateDemuxer(received, all_data_received)
  /\ frame_buffer_cache' =
       IF size_available'
         THEN [n \in 0 .. decoded_frame_count' - 1 |-> EmptyFrame']
         ELSE frame_buffer_cache

FrameIsReceivedAtIndex(index) ==
  IF decoded_frame_count = 1 \/ all_data_received THEN all_data_received
  ELSE Extent(index) <= received

-----------------------------------------------------------------------------
(* RenderImage.                                                            *)

(* libyuv's conversion of rows from .. to - 1 of a 4:2:0 image, from even: *)
(* the rows of the chroma planes that go into a row.  The first row, and   *)
(* a last one that is odd, use one of them, the others two.                *)
ChromaRows(from, to, row) ==
  LET half == row \div 2
  IN IF row = from \/ (row = to - 1 /\ row % 2 = 1) THEN {half}
     ELSE IF row % 2 = 1 THEN {half, half + 1} ELSE {half - 1, half}

Row(n, from, to, row) ==
  [image |-> n, corrected |-> 0,
   uv |-> IF subsampled THEN ChromaRows(from, to, row) ELSE {row}]

(* A mutant of RenderedTo: it forgets the clean aperture.                 *)
RenderedToUncropped(to_row) ==
  IF subsampled /\ to_row < file.rows THEN to_row - 1 ELSE to_row

(* The row up to which it renders: the bottom row waits for its pair.      *)
RenderedTo(to_row) ==
  IF subsampled /\ to_row < SizeHeight THEN to_row - 1 ELSE to_row

(* A mutant of Rendered: the top row is not put back.                      *)
RenderedOverTop(rows, n, from_row, to_row) ==
  LET from == IF subsampled /\ from_row > 0 THEN from_row - 1 ELSE from_row
  IN [r \in DOMAIN rows |->
        IF r \in from .. to_row - 1 THEN Row(n, from, to_row, r) ELSE rows[r]]

(* The rows after it; the row above an odd from_row is converted again and *)
(* put back.                                                               *)
Rendered(rows, n, from_row, to_row) ==
  LET from == IF subsampled /\ from_row > 0 THEN from_row - 1 ELSE from_row
  IN [r \in DOMAIN rows |->
        IF r \in from_row .. to_row - 1 THEN Row(n, from, to_row, r)
                                        ELSE rows[r]]

(* The transform of the new rows, which is not repeated.                   *)
ColorCorrectImage(rows, from_row, to_row) ==
  [r \in DOMAIN rows |->
     IF file.transform /\ r \in from_row .. to_row - 1
       THEN [rows[r] EXCEPT !.corrected = @ + 1] ELSE rows[r]]

-----------------------------------------------------------------------------
(* Decode.                                                                 *)

(* A mutant of FrameIndex: one layer at a time.                            *)
NextLayer(index) == IF progressive THEN imageIndex + 1 ELSE index

(* The image to decode: the highest layer that has arrived.                *)
FrameIndex(index) ==
  IF ~progressive THEN index
  ELSE CHOOSE n \in imageIndex + 1 .. imageCount - 1 :
         /\ \A l \in imageIndex + 2 .. n : Extent(l) <= received
         /\ n + 1 < imageCount => Extent(n + 1) > received

(* DecodeImage: what libavif answers, and the rows it has then.            *)
DecodeImage(n, incremental, result, rows) ==
  IF Extent(n) <= received THEN result = "AVIF_RESULT_OK" /\ rows = file.rows
  ELSE IF all_data_received
    THEN result = "AVIF_RESULT_TRUNCATED_DATA" /\ rows = 0
  ELSE /\ result = "AVIF_RESULT_WAITING_ON_IO"
       /\ IF ~incremental THEN rows = 0
          ELSE /\ rows \in decoded_rows .. file.rows - 1
               /\ file.colours = "420" => rows % 2 = 0

(* A mutant of DisplayableHeight: the rows of the whole image.             *)
DecodedHeight(rows) == rows

(* The rows of the clean aperture among the decoded ones.                  *)
DisplayableHeight(rows) ==
  IF rows < SizeHeight THEN rows ELSE SizeHeight

(* A mutant of IsLastLayer: the index is not that of the next layer.       *)
IsPastLastLayer(n) == ~progressive \/ n = imageCount

(* No layer is to come that would be shown instead.                        *)
IsLastLayer(n) == ~progressive \/ n + 1 = imageCount

(* A mutant of last_displayed_height: the height is kept for a new buffer. *)
KeptDisplayedHeight(index) ==
  IF allowIncremental THEN incrementally_displayed_height ELSE 0

(* The height shown in this buffer: none if it is new.                     *)
last_displayed_height(index) ==
  IF allowIncremental /\ frame_buffer_cache[index].status # "kFrameEmpty"
    THEN incrementally_displayed_height ELSE 0

(* Decode has rows to show, and renders those that are new.                *)
Show(index, n, displayable) ==
  LET buffer == frame_buffer_cache[index]
      last == last_displayed_height(index)
      to_row == IF displayable = last THEN last ELSE RenderedTo(displayable)
      complete == to_row > last /\ to_row = SizeHeight /\ IsLastLayer(n)
  IN /\ frame_buffer_cache' = [frame_buffer_cache EXCEPT ![index] =
          [status |-> IF complete THEN "kFrameComplete" ELSE "kFramePartial",
           alpha |-> IF complete THEN file.alpha ELSE TRUE,
           rows |-> IF to_row = last THEN buffer.rows
                    ELSE ColorCorrectImage(
                           Rendered(buffer.rows, n, last, to_row), last, to_row)]]
     /\ incrementally_displayed_height' =
          IF allowIncremental THEN to_row ELSE incrementally_displayed_height

Decode(index) ==
  /\ ~failed
  /\ frame_buffer_cache[index].status # "kFrameComplete"
  /\ UNCHANGED <<file, client, data, parse, image_planes>>
  /\ \E result \in {"AVIF_RESULT_OK", "AVIF_RESULT_WAITING_ON_IO",
                    "AVIF_RESULT_TRUNCATED_DATA"}, rows \in 0 .. file.rows :
       LET n == FrameIndex(index)
           displayable == DisplayableHeight(rows)
       IN /\ DecodeImage(n, allowIncremental, result, rows)
          /\ failed' = (result = "AVIF_RESULT_TRUNCATED_DATA")
          /\ imageIndex' = IF result = "AVIF_RESULT_OK" THEN n ELSE imageIndex
          /\ decoded_rows' = IF allowIncremental THEN rows ELSE decoded_rows
          /\ IF displayable = 0
               THEN UNCHANGED <<frame_buffer_cache,
                                incrementally_displayed_height>>
               ELSE Show(index, n, displayable)

(* Decode cannot go on: libavif fails to decode or to convert the image,   *)
(* or there is no memory for the frame.                                    *)
DecodeFails(index) ==
  /\ ~failed
  /\ frame_buffer_cache[index].status # "kFrameComplete"
  /\ failed' = TRUE
  /\ UNCHANGED <<file, client, data, parse, frames, image_planes>>

(* A buffer is disposed of: that of a frame of an animation, or of a still *)
(* image decoded incrementally, for which Decode provides (line 611).      *)
Purge(index) ==
  /\ decoded_frame_count > 1 \/ allowIncremental
  /\ frame_buffer_cache[index].status # "kFrameEmpty"
  /\ frame_buffer_cache' = [frame_buffer_cache EXCEPT ![index] = EmptyFrame]
  /\ UNCHANGED <<file, client, data, failed, parse, imageIndex, decoded_rows,
                 incrementally_displayed_height, image_planes>>

-----------------------------------------------------------------------------
(* DecodeToYUV.                                                            *)

ChromaShiftX == IF file.colours = "444" THEN 0 ELSE 1
ChromaShiftY == IF file.colours \in {"444", "422"} THEN 0 ELSE 1

UVSize(y_size, chroma_shift) ==
  IF chroma_shift = 1 THEN (y_size + 1) \div 2 ELSE y_size

YUVIndex == {"kY", "kU", "kV"}

DecodedYUVSize(plane) ==
  IF plane = "kY" THEN [width |-> SizeWidth, height |-> SizeHeight]
  ELSE [width |-> UVSize(SizeWidth, ChromaShiftX),
        height |-> UVSize(SizeHeight, ChromaShiftY)]

AlignUp(n, alignment) == ((n + alignment - 1) \div alignment) * alignment

(* A mutant of DecodedYUVWidthBytes: the width is not aligned first.       *)
UnalignedYUVWidthBytes(plane) ==
  LET wide == IF plane # "kY" /\ ChromaShiftX = 1 THEN SizeWidth \div 2
                                                 ELSE SizeWidth
      padded == IF wide % 1024 = 0 THEN wide + 64 ELSE wide
  IN IF file.depth > 8 THEN 2 * padded ELSE padded

(* From one row of a plane to the next.                                    *)
DecodedYUVWidthBytes(plane) ==
  LET aligned == AlignUp(SizeWidth, 128)
      wide == IF plane # "kY" /\ ChromaShiftX = 1 THEN aligned \div 2 ELSE aligned
      padded == IF wide % 1024 = 0 THEN wide + 64 ELSE wide
  IN IF file.depth > 8 THEN 2 * padded ELSE padded

(* The samples of an image, copied to planes that the client laid out as   *)
(* it was told.                                                            *)
CopiedPlanes(n) ==
  [plane \in YUVIndex |->
     [image |-> n, bytes |-> IF file.depth > 8 THEN 2 ELSE 1,
      width |-> IF plane = "kY" THEN SizeWidth ELSE UVSize(SizeWidth, ChromaShiftX),
      height |-> IF plane = "kY" THEN SizeHeight ELSE UVSize(SizeHeight, ChromaShiftY),
      row_bytes |-> DecodedYUVWidthBytes(plane)]]

(* The planes get the last layer, all of it, or nothing yet.  libavif goes *)
(* through the layers before.                                              *)
DecodeToYUV ==
  /\ client = "planes" /\ size_available /\ allow_decode_to_yuv
  /\ ~failed
  /\ \E result \in {"AVIF_RESULT_OK", "AVIF_RESULT_WAITING_ON_IO",
                    "AVIF_RESULT_TRUNCATED_DATA", "AVIF_RESULT_UNKNOWN_ERROR"} :
       LET n == IF progressive THEN imageCount - 1 ELSE 0
       IN /\ \/ \E rows \in {0, file.rows} : DecodeImage(n, FALSE, result, rows)
             \/ result = "AVIF_RESULT_UNKNOWN_ERROR"
          /\ failed' = (result \in {"AVIF_RESULT_TRUNCATED_DATA",
                                   "AVIF_RESULT_UNKNOWN_ERROR"})
          /\ IF result = "AVIF_RESULT_OK"
               THEN imageIndex' = n /\ image_planes' = CopiedPlanes(n)
               ELSE /\ imageIndex' \in
                         {imageIndex} \cup {l \in imageIndex + 1 .. n - 1 :
                                              Extent(l) <= received}
                    /\ UNCHANGED image_planes
  /\ UNCHANGED <<file, client, data, parse, decoded_rows, frame_buffer_cache,
                 incrementally_displayed_height>>

-----------------------------------------------------------------------------
Next ==
  \/ \E size \in 1 .. file.size, all \in BOOLEAN : OnSetData(size, all)
  \/ DecodeSize
  \/ DecodeFrameCount
  \/ \E index \in DOMAIN frame_buffer_cache :
       Decode(index) \/ DecodeFails(index) \/ Purge(index)
  \/ DecodeToYUV

(* An image on the page is painted: its frames are counted, and a frame    *)
(* that is not complete is decoded again, as are planes without a complete *)
(* scan.  Nothing makes data arrive.                                       *)
Frames == UNION {DOMAIN f.extents : f \in Images}

Spec ==
  /\ Init /\ [][Next]_vars
  /\ WF_vars(DecodeFrameCount)
  /\ \A index \in Frames :
       WF_vars(index \in DOMAIN frame_buffer_cache /\ Decode(index))
  /\ WF_vars(DecodeToYUV)

-----------------------------------------------------------------------------
(* Correctness.                                                            *)

AvifTypeOK ==
  /\ received \in 0 .. file.size
  /\ segments \subseteq 1 .. received
  /\ {all_data_received, failed, size_available, have_parsed_current_data,
      progressive, ignore_clap, allow_decode_to_yuv} \subseteq BOOLEAN
  /\ imageIndex \in -1 .. file.images - 1
  /\ decoded_rows \in 0 .. file.rows
  /\ incrementally_displayed_height \in 0 .. SizeHeight
  /\ DOMAIN frame_buffer_cache \in {{}, 0 .. decoded_frame_count - 1}
  /\ \A index \in DOMAIN frame_buffer_cache :
       LET buffer == frame_buffer_cache[index]
       IN /\ buffer.status \in {"kFrameEmpty", "kFramePartial", "kFrameComplete"}
          /\ buffer.alpha \in BOOLEAN
          /\ DOMAIN buffer.rows = 0 .. SizeHeight - 1

(* The rows of a frame that are shown.                                     *)
ShownRows(index) ==
  LET status == frame_buffer_cache[index].status
  IN IF status = "kFrameEmpty" THEN 0
     ELSE IF allowIncremental THEN incrementally_displayed_height
     ELSE SizeHeight

(* Every row shown, of a frame rendered in pieces as its data arrived, is  *)
(* what the conversion of the whole image gives, colour corrected exactly  *)
(* once, of the layer decoded last; the other rows are transparent; and a  *)
(* complete frame has all its rows, of its own image or the last layer,    *)
(* and the alpha of the image (RenderImage, ColorCorrectImage, Decode).    *)
ShownRowsAreExact ==
  \A index \in DOMAIN frame_buffer_cache :
    LET buffer == frame_buffer_cache[index]
        image == IF progressive THEN imageIndex ELSE index
    IN /\ \A r \in DOMAIN buffer.rows :
            buffer.rows[r] =
              IF r < ShownRows(index)
                THEN [Row(image, 0, SizeHeight, r)
                        EXCEPT !.corrected = IF file.transform THEN 1 ELSE 0]
                ELSE NoRow
       /\ buffer.status = "kFrameComplete" =>
            /\ ShownRows(index) = SizeHeight
            /\ progressive => image = imageCount - 1
            /\ buffer.alpha = file.alpha
       /\ buffer.status # "kFrameComplete" => buffer.alpha

(* Decode's assertion of line 550: a frame in layers that is still to be   *)
(* decoded has a layer that was not decoded.                               *)
LayerLeftToDecode ==
  \A index \in DOMAIN frame_buffer_cache :
    progressive /\ ~failed /\ frame_buffer_cache[index].status # "kFrameComplete"
      => imageIndex + 1 < imageCount

(* A decoding that advances shows the highest layer that has arrived: no   *)
(* layer above it has (Decode, lines 542-568).                             *)
HighestLayerIsShown ==
  [][client = "frames" /\ progressive /\ imageIndex' # imageIndex
       => \A n \in imageIndex' + 1 .. imageCount - 1 : Extent(n) > received]_vars

(* A frame that has been received whole, with its last layer, is complete  *)
(* after any decoding of it that does not fail.  Of a layered file that is *)
(* truncated the frame counts as received, and the first decoding still    *)
(* shows the layers that are there (FrameIsReceivedAtIndex, Decode).       *)
ReceivedFramesComplete ==
  [][\A index \in DOMAIN frame_buffer_cache :
       /\ Decode(index)
       /\ FrameIsReceivedAtIndex(index)
       /\ progressive => Extent(imageCount - 1) <= received
       => failed' \/ frame_buffer_cache'[index].status = "kFrameComplete"]_vars

(* libavif waits for more data exactly as long as there is more to come    *)
(* and it asked for some of that; and what it reads are the bytes of the   *)
(* file, as many as it asked for or as there are, however they arrived     *)
(* (ReadFromSegmentReader).                                                *)
ReadsAreExact ==
  \A offset \in 0 .. file.size + 1, size \in 0 .. file.size + 1 :
    LET read == ReadFromSegmentReader(offset, size)
    IN /\ read.result = "AVIF_RESULT_WAITING_ON_IO"
            <=> ~all_data_received /\ offset + size > received
       /\ read.result = "AVIF_RESULT_OK" =>
            /\ \/ read.size = size /\ offset + size <= received
               \/ all_data_received /\ offset + read.size = received
            /\ read.size <= Len(read.bytes)
            /\ \A k \in 1 .. read.size : read.bytes[k] = offset + k - 1

(* The sides of an image in the direction in which it is rotated.          *)
Anticlockwise == <<"top", "left", "bottom", "right">>

Opposite == [top |-> "bottom", bottom |-> "top", left |-> "right", right |-> "left"]

Mirrored(side) ==
  IF \/ file.imir = 0 /\ side \in {"top", "bottom"}
     \/ file.imir = 1 /\ side \in {"left", "right"}
    THEN Opposite[side] ELSE side

(* The table of orientations is what turning the image by irot quarters    *)
(* anticlockwise and then mirroring it does to its first row and its first *)
(* column: "rotation, then mirror" (UpdateDemuxer, lines 899-930).         *)
OrientationIsGeometry ==
  size_available =>
    orientation = <<Mirrored(Anticlockwise[file.irot + 1]),
                    Mirrored(Anticlockwise[((file.irot + 1) % 4) + 1])>>

(* Planes with a complete scan, which is never updated, are those of the   *)
(* last layer; they have every sample of the image, cropped if it is, in   *)
(* the size the client was told, and a row ends before the next begins     *)
(* (DecodeToYUV, DecodedYUVSize, DecodedYUVWidthBytes).                    *)
PlanesAreExact ==
  HasCompleteScan =>
    \A plane \in YUVIndex :
      LET p == image_planes[plane]
      IN /\ p.image = IF progressive THEN file.images - 1 ELSE 0
         /\ p.width = DecodedYUVSize(plane).width
         /\ p.height = DecodedYUVSize(plane).height
         /\ p.row_bytes >= p.width * p.bytes
         /\ plane # "kY" /\ file.colours = "420" =>
              /\ 2 * p.width >= SizeWidth
              /\ 2 * p.height >= SizeHeight

(* When all data has arrived, every frame of the image is complete some    *)
(* time, or the planes are, unless the decoder fails: none waits for rows  *)
(* that were rendered or for a layer that was passed over (Decode,         *)
(* RenderImage, DecodeToYUV).                                              *)
FramesAreShown ==
  /\ \A index \in Frames :
       (client = "frames" /\ all_data_received /\ index < decoded_frame_count)
         ~> \/ failed
            \/ /\ index \in DOMAIN frame_buffer_cache
               /\ frame_buffer_cache[index].status = "kFrameComplete"
  /\ (client = "planes" /\ all_data_received /\ allow_decode_to_yuv)
       ~> (failed \/ HasCompleteScan)

=============================================================================
