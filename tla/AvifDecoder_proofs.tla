------------------------- MODULE AvifDecoder_proofs -------------------------
(***************************************************************************)
(* What AvifDecoder promises, for every set of files: images of every      *)
(* height, width and chroma format, with any number of layers or frames,   *)
(* however their bytes arrive.                                             *)
(*                                                                         *)
(* HeightInv ties the row up to which a still image was rendered to the    *)
(* rows that libavif has decoded, with its parity; BufferInv says what     *)
(* every row of a frame holds.                                             *)
(***************************************************************************)
EXTENDS AvifDecoder, SequenceTheorems, InductionLemmas

-----------------------------------------------------------------------------
(* Numbers and extents.                                                    *)

(* What is known of a file.                                                *)
LEMMA FileFacts ==
  ASSUME file \in Images
  PROVE  /\ file.size \in Nat \ {0} /\ file.metadata \in Nat \ {0}
         /\ file.width \in Nat \ {0} /\ file.rows \in Nat \ {0}
         /\ file.clap_width \in Nat \ {0} /\ file.clap_rows \in Nat \ {0}
         /\ file.images \in Nat \ {0} /\ file.depth \in Nat \ {0}
         /\ file.clap_width <= file.width /\ file.clap_rows <= file.rows
         /\ \A n \in 0 .. file.images - 1 : file.extents[n] \in Nat
         /\ \A n \in 1 .. file.images - 1 : file.extents[n - 1] <= file.extents[n]
         /\ file.layered \in BOOLEAN /\ file.alpha \in BOOLEAN
         /\ file.transform \in BOOLEAN
         /\ file.colours \in {"400", "420", "422", "444"}
         /\ file.irot \in 0 .. 3 /\ file.imir \in -1 .. 1
  BY AvifAssumption DEF IsImage

LEMMA ExtentsGrow ==
  ASSUME file \in Images,
         NEW m \in 0 .. file.images - 1, NEW n \in 0 .. file.images - 1, m <= n
  PROVE  file.extents[m] <= file.extents[n]
<1> DEFINE T == {k \in 0 .. file.images - 1 :
                   m <= k /\ file.extents[k] < file.extents[m]}
<1>1. SUFFICES ASSUME T # {} PROVE FALSE
  BY FileFacts
<1>2. T \subseteq Nat
  OBVIOUS
<1>3. PICK k \in T : \A l \in T : k <= l
  <2> HIDE DEF T
  <2> QED
    BY <1>1, <1>2, LeastNatural
<1>4. k \in 0 .. file.images - 1 /\ m <= k /\ file.extents[k] < file.extents[m]
  OBVIOUS
<1>5. k # m /\ k - 1 \in 0 .. file.images - 1 /\ m <= k - 1 /\ ~(k <= k - 1)
  BY <1>4, FileFacts
<1>6. k - 1 \notin T
  <2> HIDE DEF T
  <2> QED
    BY <1>5, <1>3
<1>7. file.extents[k - 1] <= file.extents[k]
  BY <1>4, <1>5, FileFacts
<1>8. ~(file.extents[k - 1] < file.extents[m])
  BY <1>5, <1>6
<1> QED
  BY <1>4, <1>5, <1>7, <1>8, FileFacts

LEMMA ImageCount ==
  ASSUME file \in Images, progressive \in BOOLEAN
  PROVE  /\ imageCount \in 1 .. file.images
         /\ decoded_frame_count \in 1 .. file.images
         /\ progressive => imageCount = file.images /\ decoded_frame_count = 1
         /\ ~progressive => imageCount = decoded_frame_count
  BY FileFacts DEF imageCount, decoded_frame_count

LEMMA ExtentIsNatural ==
  ASSUME file \in Images, progressive \in BOOLEAN, NEW n \in 0 .. imageCount - 1
  PROVE  Extent(n) \in Nat
<1>1. n \in 0 .. file.images - 1 /\ file.images - 1 \in 0 .. file.images - 1
  BY ImageCount, FileFacts
<1> QED
  BY <1>1, FileFacts DEF Extent

(* What arrived last arrived with all that is before it.                   *)
LEMMA ExtentGrows ==
  ASSUME file \in Images, progressive \in BOOLEAN,
         NEW m \in 0 .. imageCount - 1, NEW n \in 0 .. imageCount - 1, m <= n
  PROVE  Extent(m) <= Extent(n)
<1>1. m \in 0 .. file.images - 1 /\ n \in 0 .. file.images - 1
  BY ImageCount, FileFacts
<1>2. file.extents[m] <= file.extents[n]
  BY <1>1, ExtentsGrow
<1>3. file.images - 1 \in 0 .. file.images - 1
  BY FileFacts
<1> QED
  BY <1>2, <1>3, FileFacts DEF Extent

(* There is a highest layer that has arrived, or the next one, and it is   *)
(* what FrameIndex finds.                                                  *)
LEMMA LayerIsFound ==
  ASSUME file \in Images, progressive = TRUE, received \in Nat,
         imageIndex \in Int, -1 <= imageIndex, imageIndex + 1 < imageCount,
         NEW index
  PROVE  /\ FrameIndex(index) \in imageIndex + 1 .. imageCount - 1
         /\ FrameIndex(index) + 1 < imageCount
              => Extent(FrameIndex(index) + 1) > received
<1> DEFINE T == {k \in 0 .. imageCount : /\ imageIndex + 2 <= k
                                         /\ \/ k = imageCount
                                            \/ Extent(k) > received}
           Found(n) == /\ \A l \in imageIndex + 2 .. n : Extent(l) <= received
                       /\ n + 1 < imageCount => Extent(n + 1) > received
<1>1. imageCount \in Nat /\ imageCount \in T
  BY ImageCount
<1>2. PICK k \in T : \A l \in T : k <= l
  <2>1. T \subseteq Nat /\ T # {}
    BY <1>1
  <2> HIDE DEF T
  <2> QED
    BY <2>1, LeastNatural
<1>3. /\ k \in 0 .. imageCount /\ imageIndex + 2 <= k
      /\ k = imageCount \/ Extent(k) > received
  OBVIOUS
<1>4. k - 1 \in imageIndex + 1 .. imageCount - 1 /\ (k - 1) + 1 = k
  BY <1>1, <1>3
<1>5. ASSUME NEW l \in imageIndex + 2 .. k - 1 PROVE Extent(l) <= received
  <2>1. l \in 0 .. imageCount - 1 /\ ~(k <= l) /\ l # imageCount
        /\ imageIndex + 2 <= l /\ l \in 0 .. imageCount
    BY <1>1, <1>3
  <2>2. l \notin T
    <3> HIDE DEF T
    <3> QED
      BY <2>1, <1>2
  <2>3. ~(Extent(l) > received)
    BY <2>1, <2>2
  <2> QED
    BY <2>1, <2>3, ExtentIsNatural
<1>6. Found(k - 1)
  BY <1>3, <1>4, <1>5
<1>7. \E n \in imageIndex + 1 .. imageCount - 1 : Found(n)
  BY <1>4, <1>6
<1>8. FrameIndex(index) = CHOOSE n \in imageIndex + 1 .. imageCount - 1 : Found(n)
  BY DEF FrameIndex
<1>9. FrameIndex(index) \in imageIndex + 1 .. imageCount - 1 /\ Found(FrameIndex(index))
  <2> HIDE DEF Found
  <2> QED
    BY <1>7, <1>8
<1> QED
  BY <1>9

-----------------------------------------------------------------------------
(* Rows and planes.                                                        *)

LEMMA Sizes ==
  ASSUME file \in Images
  PROVE  /\ SizeWidth \in Nat \ {0} /\ SizeHeight \in Nat \ {0}
         /\ SizeHeight <= file.rows
  BY FileFacts DEF SizeWidth, SizeHeight

(* A piece whose ends are odd, or the ends of the image, has the rows of   *)
(* the whole image.                                                        *)
LEMMA PiecesAgree ==
  ASSUME NEW H \in Nat, NEW last \in Nat, NEW to \in Nat, to <= H,
         last = 0 \/ last % 2 = 1, to = H \/ to % 2 = 1,
         NEW r \in last .. to - 1
  PROVE  ChromaRows(IF last > 0 THEN last - 1 ELSE last, to, r)
           = ChromaRows(0, H, r)
<1>1. r \in Nat /\ last <= r /\ r < to
  OBVIOUS
<1>2. (r = IF last > 0 THEN last - 1 ELSE last) <=> r = 0
  BY <1>1
<1>3. (r = to - 1 /\ r % 2 = 1) <=> (r = H - 1 /\ r % 2 = 1)
  BY <1>1
<1> QED
  BY <1>2, <1>3 DEF ChromaRows

(* What RenderImage and ColorCorrectImage leave of the rows of a frame.    *)
ExactRow(n, r) ==
  [image |-> n, corrected |-> IF file.transform THEN 1 ELSE 0,
   uv |-> IF subsampled THEN ChromaRows(0, SizeHeight, r) ELSE {r}]

LEMMA Corrected ==
  ASSUME NEW n, NEW uv, NEW c
  PROVE  [[image |-> n, corrected |-> 0, uv |-> uv] EXCEPT !.corrected = c]
           = [image |-> n, corrected |-> c, uv |-> uv]
  OBVIOUS

LEMMA ExactRowIsRow ==
  ASSUME NEW n, NEW r
  PROVE  [Row(n, 0, SizeHeight, r)
            EXCEPT !.corrected = IF file.transform THEN 1 ELSE 0] = ExactRow(n, r)
<1> DEFINE uv == IF subsampled THEN ChromaRows(0, SizeHeight, r) ELSE {r}
           c == IF file.transform THEN 1 ELSE 0
<1>1. Row(n, 0, SizeHeight, r) = [image |-> n, corrected |-> 0, uv |-> uv]
  BY DEF Row
<1>2. ExactRow(n, r) = [image |-> n, corrected |-> c, uv |-> uv]
  BY DEF ExactRow
<1> HIDE DEF uv, c
<1>3. [Row(n, 0, SizeHeight, r) EXCEPT !.corrected = c] = ExactRow(n, r)
  BY <1>1, <1>2, Corrected
<1> QED
  BY <1>3 DEF c

(* A piece of the rows of an image, from the row last to the one before to. *)
IsPiece(rows, last, to) ==
  /\ DOMAIN rows = 0 .. SizeHeight - 1
  /\ last \in Nat /\ to \in Nat /\ last <= to /\ to <= SizeHeight
  /\ subsampled => last = 0 \/ last % 2 = 1
  /\ subsampled => to = SizeHeight \/ to % 2 = 1

WithPiece(rows, n, last, to) ==
  ColorCorrectImage(Rendered(rows, n, last, to), last, to)

LEMMA RenderedRows ==
  ASSUME file \in Images, NEW n, NEW rows, NEW last \in Nat, NEW to \in Nat,
         IsPiece(rows, last, to)
  PROVE  /\ DOMAIN WithPiece(rows, n, last, to) = DOMAIN rows
         /\ \A r \in 0 .. SizeHeight - 1 :
              WithPiece(rows, n, last, to)[r] =
                IF r \in last .. to - 1 THEN ExactRow(n, r) ELSE rows[r]
<1> DEFINE shown == WithPiece(rows, n, last, to)
<1> USE DEF IsPiece
<1> DEFINE from == IF subsampled /\ last > 0 THEN last - 1 ELSE last
           rendered == Rendered(rows, n, last, to)
<1>1. rendered = [r \in DOMAIN rows |->
                    IF r \in last .. to - 1 THEN Row(n, from, to, r) ELSE rows[r]]
  BY DEF Rendered
<1>2. DOMAIN rendered = DOMAIN rows
  BY <1>1
<1>3. shown = [r \in DOMAIN rendered |->
                 IF file.transform /\ r \in last .. to - 1
                   THEN [rendered[r] EXCEPT !.corrected = @ + 1] ELSE rendered[r]]
  BY DEF WithPiece, ColorCorrectImage
<1>4. DOMAIN shown = DOMAIN rows
  BY <1>2, <1>3
<1>5. ASSUME NEW r \in DOMAIN rows, r \in last .. to - 1
      PROVE  shown[r] = ExactRow(n, r)
  <2>1. rendered[r] = Row(n, from, to, r)
    BY <1>1, <1>5
  <2>2. subsampled => ChromaRows(from, to, r) = ChromaRows(0, SizeHeight, r)
    BY <1>5, Sizes, PiecesAgree
  <2>3. rendered[r] = [image |-> n, corrected |-> 0,
                       uv |-> IF subsampled THEN ChromaRows(0, SizeHeight, r)
                                            ELSE {r}]
    BY <2>1, <2>2 DEF Row
  <2>4. shown[r] = IF file.transform
                     THEN [rendered[r] EXCEPT !.corrected = @ + 1] ELSE rendered[r]
    <3> HIDE DEF rendered, shown
    <3> QED
      BY <1>2, <1>3, <1>5
  <2> DEFINE uv == IF subsampled THEN ChromaRows(0, SizeHeight, r) ELSE {r}
  <2>5. rendered[r] = [image |-> n, corrected |-> 0, uv |-> uv]
    BY <2>3
  <2>6. ExactRow(n, r) = [image |-> n, uv |-> uv,
                          corrected |-> IF file.transform THEN 1 ELSE 0]
    BY DEF ExactRow
  <2> HIDE DEF rendered, shown, uv
  <2>7. [rendered[r] EXCEPT !.corrected = @ + 1]
          = [image |-> n, corrected |-> 1, uv |-> uv]
    BY <2>5
  <2> QED
    BY <2>4, <2>5, <2>6, <2>7
<1>6. ASSUME NEW r \in DOMAIN rows, r \notin last .. to - 1
      PROVE  shown[r] = rows[r]
  <2>1. rendered[r] = rows[r]
    BY <1>1, <1>6
  <2> HIDE DEF rendered, shown
  <2> QED
    BY <2>1, <1>2, <1>3, <1>6
<1> QED
  BY <1>4, <1>5, <1>6

LEMMA Aligned ==
  ASSUME NEW n \in Nat
  PROVE  AlignUp(n, 128) \in Nat /\ AlignUp(n, 128) >= n /\ AlignUp(n, 128) % 2 = 0
<1> DEFINE q == (n + 127) \div 128
<1>1. q \in Nat /\ 128 * q >= n
  BY SMTT(30)
<1>2. AlignUp(n, 128) = q * 128
  BY DEF AlignUp
<1> HIDE DEF q
<1> QED
  BY <1>1, <1>2, SMTT(30)

(* A row of a plane ends before the next one begins, for every width, and  *)
(* the chroma planes cover the image.                                      *)
LEMMA PlanesFit ==
  ASSUME file \in Images, NEW plane \in YUVIndex, NEW n
  PROVE  LET p == CopiedPlanes(n)[plane]
         IN /\ p.image = n
            /\ p.width = DecodedYUVSize(plane).width
            /\ p.height = DecodedYUVSize(plane).height
            /\ p.row_bytes >= p.width * p.bytes
            /\ plane # "kY" /\ file.colours = "420" =>
                 2 * p.width >= SizeWidth /\ 2 * p.height >= SizeHeight
<1> DEFINE p == CopiedPlanes(n)[plane]
           aligned == AlignUp(SizeWidth, 128)
           wide == IF plane # "kY" /\ ChromaShiftX = 1 THEN aligned \div 2
                                                      ELSE aligned
           padded == IF wide % 1024 = 0 THEN wide + 64 ELSE wide
           width == IF plane = "kY" THEN SizeWidth ELSE UVSize(SizeWidth, ChromaShiftX)
           height == IF plane = "kY" THEN SizeHeight
                                    ELSE UVSize(SizeHeight, ChromaShiftY)
           bytes == IF file.depth > 8 THEN 2 ELSE 1
<1>1. p = [image |-> n, bytes |-> bytes, width |-> width, height |-> height,
           row_bytes |-> DecodedYUVWidthBytes(plane)]
  BY DEF CopiedPlanes
<1>2. width \in Nat /\ height \in Nat
  BY Sizes DEF UVSize
<1>3. wide \in Nat /\ wide >= width
  <2>1. aligned \in Nat /\ aligned >= SizeWidth /\ aligned % 2 = 0
    BY Sizes, Aligned
  <2> HIDE DEF aligned
  <2> QED
    BY <2>1, Sizes, SMTT(30) DEF UVSize
<1>4. padded \in Nat /\ padded >= width
  <2> HIDE DEF wide, width
  <2> QED
    BY <1>2, <1>3
<1>5. DecodedYUVWidthBytes(plane) = IF file.depth > 8 THEN 2 * padded ELSE padded
  BY DEF DecodedYUVWidthBytes
<1>6. DecodedYUVWidthBytes(plane) >= width * bytes
  <2> HIDE DEF padded, width
  <2> QED
    BY <1>2, <1>4, <1>5
<1>7. DecodedYUVSize(plane) = [width |-> width, height |-> height]
  BY DEF DecodedYUVSize
<1>8. plane # "kY" /\ file.colours = "420" =>
        2 * width >= SizeWidth /\ 2 * height >= SizeHeight
  BY Sizes, SMTT(30) DEF UVSize, ChromaShiftX, ChromaShiftY
<1> HIDE DEF width, height, bytes
<1> QED
  BY <1>1, <1>6, <1>7, <1>8

LEMMA MirroredSides ==
  /\ file.imir = -1 => \A side : Mirrored(side) = side
  /\ file.imir = 0 => /\ Mirrored("top") = "bottom" /\ Mirrored("bottom") = "top"
                      /\ Mirrored("left") = "left" /\ Mirrored("right") = "right"
  /\ file.imir = 1 => /\ Mirrored("top") = "top" /\ Mirrored("bottom") = "bottom"
                      /\ Mirrored("left") = "right" /\ Mirrored("right") = "left"
  BY DEF Mirrored, Opposite

LEMMA TurnedSides ==
  /\ Anticlockwise[1] = "top" /\ Anticlockwise[2] = "left"
  /\ Anticlockwise[3] = "bottom" /\ Anticlockwise[4] = "right"
  BY DEF Anticlockwise

LEMMA OrientationTable ==
  LET t == kAxisAngleToOrientation
  IN /\ t[1][1] = <<"top", "left">> /\ t[1][2] = <<"left", "bottom">>
     /\ t[1][3] = <<"bottom", "right">> /\ t[1][4] = <<"right", "top">>
     /\ t[2][1] = <<"bottom", "left">> /\ t[2][2] = <<"left", "top">>
     /\ t[2][3] = <<"top", "right">> /\ t[2][4] = <<"right", "bottom">>
     /\ t[3][1] = <<"top", "right">> /\ t[3][2] = <<"right", "bottom">>
     /\ t[3][3] = <<"bottom", "left">> /\ t[3][4] = <<"left", "top">>
  BY DEF kAxisAngleToOrientation

LEMMA OrientationOfSides ==
  ASSUME file \in Images
  PROVE  Orientation = <<Mirrored(Anticlockwise[file.irot + 1]),
                         Mirrored(Anticlockwise[((file.irot + 1) % 4) + 1])>>
<1> DEFINE row == file.irot + 1
           column == ((file.irot + 1) % 4) + 1
           m == file.imir + 2
<1>1. /\ \/ row = 1 /\ column = 2
         \/ row = 2 /\ column = 3
         \/ row = 3 /\ column = 4
         \/ row = 4 /\ column = 1
      /\ \/ m = 1 /\ file.imir = -1
         \/ m = 2 /\ file.imir = 0
         \/ m = 3 /\ file.imir = 1
  <2>1. file.irot \in {0, 1, 2, 3} /\ file.imir \in {-1, 0, 1}
    BY FileFacts
  <2> QED
    BY <2>1
<1>2. Orientation = kAxisAngleToOrientation[m][row]
  BY DEF Orientation
<1> HIDE DEF row, column, m
<1>3. kAxisAngleToOrientation[m][row]
        = <<Mirrored(Anticlockwise[row]), Mirrored(Anticlockwise[column])>>
  BY <1>1, MirroredSides, TurnedSides, OrientationTable
<1> QED
  BY <1>2, <1>3 DEF row, column

-----------------------------------------------------------------------------
(* The inductive invariant.                                                *)

DataInv ==
  /\ file \in Images
  /\ client \in {"frames", "planes"}
  /\ received \in 0 .. file.size
  /\ segments \subseteq 1 .. received
  /\ all_data_received \in BOOLEAN
  /\ failed \in BOOLEAN

ParseInv ==
  /\ size_available \in BOOLEAN
  /\ have_parsed_current_data \in BOOLEAN
  /\ progressive \in BOOLEAN
  /\ ignore_clap \in BOOLEAN
  /\ allow_decode_to_yuv \in BOOLEAN
  /\ progressive => file.layered /\ file.images > 1
  /\ size_available => orientation = Orientation

(* A client has frames or planes, and neither before the size is known.    *)
ClientInv ==
  /\ DOMAIN frame_buffer_cache # {} => client = "frames" /\ size_available
  /\ HasCompleteScan => client = "planes" /\ size_available
  /\ DOMAIN frame_buffer_cache = {} =>
       /\ decoded_rows = 0 /\ incrementally_displayed_height = 0
       /\ client = "frames" => imageIndex = -1

LayerInv ==
  /\ imageIndex \in -1 .. file.images - 1
  /\ LayerLeftToDecode

(* The row up to which it has rendered the rows of a still image.          *)
RenderedRow(rows) ==
  IF rows = 0 THEN 0 ELSE RenderedTo(DisplayableHeight(rows))

HeightInv ==
  /\ decoded_rows \in 0 .. file.rows
  /\ file.colours = "420" /\ decoded_rows < file.rows => decoded_rows % 2 = 0
  /\ incrementally_displayed_height \in 0 .. SizeHeight
  /\ allowIncremental =>
       \A index \in DOMAIN frame_buffer_cache :
         /\ frame_buffer_cache[index].status = "kFrameComplete"
              => incrementally_displayed_height = SizeHeight
         /\ frame_buffer_cache[index].status # "kFrameEmpty" =>
              /\ incrementally_displayed_height # 0
              /\ incrementally_displayed_height = SizeHeight
                   => frame_buffer_cache[index].status = "kFrameComplete"
              /\ ~failed =>
                   incrementally_displayed_height = RenderedRow(decoded_rows)

ImageOf(index) == IF progressive THEN imageIndex ELSE index

BufferInv(index) ==
  LET buffer == frame_buffer_cache[index]
  IN /\ buffer.status \in {"kFrameEmpty", "kFramePartial", "kFrameComplete"}
     /\ buffer.alpha = (IF buffer.status = "kFrameComplete" THEN file.alpha ELSE TRUE)
     /\ DOMAIN buffer.rows = 0 .. SizeHeight - 1
     /\ \A r \in DOMAIN buffer.rows :
          buffer.rows[r] = IF r < ShownRows(index) THEN ExactRow(ImageOf(index), r)
                                                   ELSE NoRow
     /\ buffer.status = "kFrameComplete" /\ progressive
          => imageIndex = imageCount - 1

FramesInv ==
  /\ DOMAIN frame_buffer_cache \in {{}, 0 .. decoded_frame_count - 1}
  /\ \A index \in DOMAIN frame_buffer_cache : BufferInv(index)

PlanesInv ==
  HasCompleteScan => image_planes = CopiedPlanes(IF progressive THEN imageCount - 1 ELSE 0)

IInv ==
  DataInv /\ ParseInv /\ ClientInv /\ LayerInv /\ HeightInv /\ FramesInv /\ PlanesInv

-----------------------------------------------------------------------------
(* What does not change, and what changes before there are frames.         *)

LEMMA SameSizes ==
  ASSUME file' = file, ignore_clap' = ignore_clap
  PROVE  /\ SizeHeight' = SizeHeight /\ SizeWidth' = SizeWidth
         /\ subsampled' = subsampled
         /\ \A n, r : ExactRow(n, r)' = ExactRow(n, r)
         /\ \A rows : RenderedRow(rows)' = RenderedRow(rows)
         /\ \A n : CopiedPlanes(n)' = CopiedPlanes(n)
<1>1. SizeHeight' = SizeHeight /\ SizeWidth' = SizeWidth /\ subsampled' = subsampled
  BY DEF SizeHeight, SizeWidth, Cropped, subsampled, decode_to_half_float
<1>2. ASSUME NEW n, NEW r PROVE ExactRow(n, r)' = ExactRow(n, r)
  BY <1>1 DEF ExactRow, ChromaRows
<1>3. ASSUME NEW rows PROVE RenderedRow(rows)' = RenderedRow(rows)
  BY <1>1 DEF RenderedRow, RenderedTo, DisplayableHeight
<1>4. ASSUME NEW n PROVE CopiedPlanes(n)' = CopiedPlanes(n)
  <2>1. ChromaShiftX' = ChromaShiftX /\ ChromaShiftY' = ChromaShiftY
    BY DEF ChromaShiftX, ChromaShiftY
  <2>2. \A plane : DecodedYUVWidthBytes(plane)' = DecodedYUVWidthBytes(plane)
    BY <1>1, <2>1 DEF DecodedYUVWidthBytes, AlignUp
  <2> QED
    BY <1>1, <2>1, <2>2 DEF CopiedPlanes, UVSize, YUVIndex
<1> QED
  BY <1>1, <1>2, <1>3, <1>4

LEMMA SameCounts ==
  ASSUME file' = file, progressive' = progressive
  PROVE  /\ imageCount' = imageCount
         /\ decoded_frame_count' = decoded_frame_count
         /\ allowIncremental' = allowIncremental
  BY DEF imageCount, decoded_frame_count, allowIncremental

LEMMA CountsNext ==
  ASSUME file' \in Images, progressive' \in BOOLEAN,
         progressive' => file'.layered /\ file'.images > 1
  PROVE  /\ imageCount' \in Nat \ {0} /\ decoded_frame_count' \in Nat \ {0}
         /\ SizeHeight' \in Nat \ {0}
         /\ progressive' => imageCount' > 1
<1>1. file'.images \in Nat \ {0} /\ file'.rows \in Nat \ {0}
      /\ file'.clap_rows \in Nat \ {0}
  BY AvifAssumption DEF IsImage
<1>2. SizeHeight' \in Nat \ {0}
  BY <1>1 DEF SizeHeight
<1>3. imageCount' = (IF file'.layered /\ ~progressive' THEN 1 ELSE file'.images)
  BY DEF imageCount
<1>4. decoded_frame_count' = (IF progressive' THEN 1 ELSE imageCount')
  BY DEF decoded_frame_count
<1> QED
  BY <1>1, <1>2, <1>3, <1>4

LEMMA FramesUntouched ==
  ASSUME IInv, UNCHANGED <<file, client, size_available, progressive, ignore_clap,
                           frames, image_planes>>,
         failed' \in BOOLEAN, failed => failed'
  PROVE  ClientInv' /\ LayerInv' /\ HeightInv' /\ FramesInv' /\ PlanesInv'
<1> USE DEF IInv, frames
<1>1. /\ SizeHeight' = SizeHeight /\ \A n, r : ExactRow(n, r)' = ExactRow(n, r)
      /\ \A rows : RenderedRow(rows)' = RenderedRow(rows)
      /\ \A n : CopiedPlanes(n)' = CopiedPlanes(n)
  BY SameSizes
<1>2. /\ imageCount' = imageCount /\ decoded_frame_count' = decoded_frame_count
      /\ allowIncremental' = allowIncremental
  BY SameCounts
<1>3. ClientInv'
  BY DEF ClientInv, HasCompleteScan
<1>4. LayerInv'
  BY <1>2 DEF LayerInv, LayerLeftToDecode
<1>5. HeightInv'
  BY <1>1, <1>2 DEF HeightInv
<1>6. FramesInv'
  <2>1. ASSUME NEW index \in DOMAIN frame_buffer_cache PROVE BufferInv(index)'
    <3>1. BufferInv(index)
      BY DEF FramesInv
    <3>2. ShownRows(index)' = ShownRows(index) /\ ImageOf(index)' = ImageOf(index)
      BY <1>1, <1>2 DEF ShownRows, ImageOf
    <3> QED
      BY <1>1, <1>2, <3>1, <3>2 DEF BufferInv
  <2> QED
    BY <1>2, <2>1 DEF FramesInv
<1>7. PlanesInv'
  BY <1>1, <1>2 DEF PlanesInv, HasCompleteScan
<1> QED
  BY <1>3, <1>4, <1>5, <1>6, <1>7

LEMMA FramesStay ==
  ASSUME IInv, UNCHANGED <<file, client, parse, frames, image_planes>>,
         failed' \in BOOLEAN, failed => failed'
  PROVE  ParseInv' /\ ClientInv' /\ LayerInv' /\ HeightInv' /\ FramesInv' /\ PlanesInv'
<1>1. ParseInv'
  BY DEF IInv, parse, ParseInv, Orientation
<1>2. ClientInv' /\ LayerInv' /\ HeightInv' /\ FramesInv' /\ PlanesInv'
  BY FramesUntouched DEF parse
<1> QED
  BY <1>1, <1>2

(* The metadata are read once, before there is a frame or a plane.         *)
LEMMA MetadataRead ==
  ASSUME IInv, ~size_available, file' = file,
         NEW size, NEW all \in BOOLEAN, UpdateDemuxer(size, all)
  PROVE  ParseInv' /\ failed' \in BOOLEAN
<1> USE DEF IInv, DataInv, ParseInv
<1>1. file.layered \in BOOLEAN /\ file.alpha \in BOOLEAN
  BY FileFacts
<1>2. Orientation' = Orientation
  BY DEF Orientation
<1>3. CASE size < file.metadata
  BY <1>2, <1>3 DEF UpdateDemuxer
<1>4. CASE ~(size < file.metadata)
  <2>1. /\ have_parsed_current_data' = TRUE
        /\ failed' = ~(file.readable /\ ProfileIsUsable)
        /\ progressive' = (file.layered /\ file.images > 1 /\ ~all)
    BY <1>4 DEF UpdateDemuxer
  <2>2. \/ UNCHANGED <<size_available, ignore_clap, orientation, allow_decode_to_yuv>>
        \/ ReadMetadata
    BY <1>4 DEF UpdateDemuxer
  <2>3. failed' \in BOOLEAN /\ progressive' \in BOOLEAN
    BY <2>1, <1>1
  <2>4. progressive' => file'.layered /\ file'.images > 1
    BY <2>1
  <2>5. CASE UNCHANGED <<size_available, ignore_clap, orientation, allow_decode_to_yuv>>
    BY <2>1, <2>3, <2>4, <2>5
  <2>6. CASE ReadMetadata
    <3>1. /\ size_available' = TRUE /\ orientation' = Orientation'
      BY <1>2, <2>6 DEF ReadMetadata
    <3>2. ignore_clap' \in BOOLEAN
      <4> DEFINE ignored == file.clap \in {"invalid", "nonzero origin"}
      <4>1. ignore_clap' = ignored
        BY <2>6 DEF ReadMetadata
      <4>2. ignored \in BOOLEAN
        OBVIOUS
      <4> HIDE DEF ignored
      <4> QED
        BY <4>1, <4>2
    <3>3. allow_decode_to_yuv' \in BOOLEAN
      <4> DEFINE yuv == /\ file.colours # "400" /\ ~file.alpha
                        /\ decoded_frame_count' = 1
                        /\ file.sk_yuv /\ ~file.transform
      <4>1. allow_decode_to_yuv' = yuv
        BY <2>6 DEF ReadMetadata
      <4>2. yuv \in BOOLEAN
        OBVIOUS
      <4> HIDE DEF yuv
      <4> QED
        BY <4>1, <4>2
    <3> QED
      BY <2>1, <2>3, <2>4, <3>1, <3>2, <3>3
  <2> QED
    BY <2>2, <2>5, <2>6
<1> QED
  BY <1>3, <1>4

LEMMA NothingYet ==
  ASSUME IInv, ~size_available, ParseInv',
         UNCHANGED <<file, client, frames, image_planes>>
  PROVE  ClientInv' /\ LayerInv' /\ HeightInv' /\ FramesInv' /\ PlanesInv'
<1> USE DEF IInv, frames
<1>1. DOMAIN frame_buffer_cache = {} /\ ~HasCompleteScan
  BY DEF ClientInv
<1>2. DOMAIN frame_buffer_cache' = {} /\ ~HasCompleteScan'
  BY <1>1 DEF HasCompleteScan
<1>3. ClientInv'
  BY <1>1, <1>2 DEF ClientInv
<1>4. LayerInv'
  BY <1>2 DEF LayerInv, LayerLeftToDecode
<1>5. SizeHeight' \in Nat \ {0}
  BY CountsNext DEF DataInv, ParseInv
<1>6. HeightInv'
  BY <1>1, <1>2, <1>5 DEF HeightInv, ClientInv
<1>7. FramesInv' /\ PlanesInv'
  BY <1>2 DEF FramesInv, PlanesInv
<1> QED
  BY <1>3, <1>4, <1>6, <1>7

LEMMA FramesAppear ==
  ASSUME IInv, ParseInv', failed' \in BOOLEAN, client = "frames", size_available',
         DOMAIN frame_buffer_cache = {},
         frame_buffer_cache' = [n \in 0 .. decoded_frame_count' - 1 |-> EmptyFrame'],
         UNCHANGED <<file, client, imageIndex, decoded_rows,
                     incrementally_displayed_height, image_planes>>
  PROVE  ClientInv' /\ LayerInv' /\ HeightInv' /\ FramesInv' /\ PlanesInv'
<1> USE DEF IInv
<1>1. /\ imageCount' \in Nat \ {0} /\ decoded_frame_count' \in Nat \ {0}
      /\ SizeHeight' \in Nat \ {0}
      /\ progressive' => imageCount' > 1
  BY CountsNext DEF DataInv, ParseInv
<1>2. /\ imageIndex' = -1 /\ decoded_rows' = 0 /\ incrementally_displayed_height' = 0
      /\ ~HasCompleteScan'
  BY DEF ClientInv, HasCompleteScan
<1>3. /\ DOMAIN frame_buffer_cache' = 0 .. decoded_frame_count' - 1
      /\ \A n \in DOMAIN frame_buffer_cache' : frame_buffer_cache'[n] = EmptyFrame'
  OBVIOUS
<1>4. /\ EmptyFrame'.status = "kFrameEmpty" /\ EmptyFrame'.alpha = TRUE
      /\ EmptyFrame'.rows = [r \in 0 .. SizeHeight' - 1 |-> NoRow]
  BY DEF EmptyFrame, NoRow
<1> HIDE DEF IInv
<1>5. ClientInv'
  BY <1>1, <1>2, <1>3 DEF ClientInv, HasCompleteScan
<1>6. LayerInv'
  BY <1>1, <1>2, FileFacts DEF IInv, DataInv, LayerInv, LayerLeftToDecode
<1>7. RenderedRow(0)' = 0
  BY DEF RenderedRow
<1>8. HeightInv'
  <2>1. file'.rows \in Nat \ {0}
    <3>1. file \in Images
      BY DEF IInv, DataInv
    <3> QED
      BY <3>1, FileFacts
  <2>2. decoded_rows' \in 0 .. file'.rows
    BY <1>2, <2>1
  <2>3. incrementally_displayed_height' \in 0 .. SizeHeight'
    BY <1>1, <1>2
  <2>4. decoded_rows' % 2 = 0 /\ RenderedRow(decoded_rows)' = 0
    BY <1>2 DEF RenderedRow
  <2>5. SizeHeight' # 0
    BY <1>1
  <2>6. \A index \in DOMAIN frame_buffer_cache' :
          frame_buffer_cache'[index].status = "kFrameEmpty"
    BY <1>3, <1>4
  <2> QED
    BY <1>2, <2>2, <2>3, <2>4, <2>5, <2>6 DEF HeightInv
<1>9. FramesInv'
  <2>1. ASSUME NEW index \in DOMAIN frame_buffer_cache' PROVE BufferInv(index)'
    <3>1. ShownRows(index)' = 0
      BY <1>3, <1>4 DEF ShownRows
    <3>2. frame_buffer_cache'[index] = EmptyFrame'
      BY <1>3
    <3>3. DOMAIN EmptyFrame'.rows = 0 .. SizeHeight' - 1
          /\ \A r \in DOMAIN EmptyFrame'.rows : EmptyFrame'.rows[r] = NoRow /\ ~(r < 0)
      BY <1>1, <1>4
    <3>4. NoRow' = NoRow
      BY DEF NoRow
    <3> HIDE DEF NoRow
    <3> QED
      BY <1>4, <3>1, <3>2, <3>3, <3>4 DEF BufferInv
  <2> QED
    BY <1>3, <2>1 DEF FramesInv
<1>10. PlanesInv'
  BY <1>2 DEF PlanesInv
<1> QED
  BY <1>5, <1>6, <1>8, <1>9, <1>10

-----------------------------------------------------------------------------
(* A decoding.                                                             *)

(* The row up to which Show renders.                                       *)
ToOf(index, rows) ==
  IF DisplayableHeight(rows) = last_displayed_height(index)
    THEN last_displayed_height(index)
  ELSE RenderedTo(DisplayableHeight(rows))

CompleteOf(index, n, rows) ==
  /\ ToOf(index, rows) > last_displayed_height(index)
  /\ ToOf(index, rows) = SizeHeight
  /\ IsLastLayer(n)

LEMMA ImageToDecode ==
  ASSUME IInv, ~failed, NEW index \in DOMAIN frame_buffer_cache,
         frame_buffer_cache[index].status # "kFrameComplete"
  PROVE  /\ FrameIndex(index) \in 0 .. imageCount - 1
         /\ ~progressive => FrameIndex(index) = index
         /\ progressive => /\ imageIndex < FrameIndex(index)
                           /\ FrameIndex(index) + 1 < imageCount
                                => Extent(FrameIndex(index) + 1) > received
<1> USE DEF IInv, DataInv, ParseInv
<1>1. file.size \in Nat /\ file.images \in Nat \ {0}
  BY FileFacts
<1>2. CASE progressive
  <2>1. imageIndex + 1 < imageCount /\ imageIndex \in Int /\ -1 <= imageIndex
    BY <1>1, <1>2 DEF LayerInv, LayerLeftToDecode
  <2>2. received \in Nat /\ imageCount \in Nat
    BY <1>1, ImageCount
  <2>3. /\ FrameIndex(index) \in imageIndex + 1 .. imageCount - 1
        /\ FrameIndex(index) + 1 < imageCount
              => Extent(FrameIndex(index) + 1) > received
    BY <1>2, <2>1, <2>2, LayerIsFound
  <2> QED
    BY <1>2, <2>1, <2>2, <2>3
<1>3. CASE ~progressive
  <2>1. FrameIndex(index) = index
    BY <1>3 DEF FrameIndex
  <2>2. index \in 0 .. decoded_frame_count - 1
    BY DEF FramesInv
  <2> QED
    BY <1>3, <2>1, <2>2, ImageCount
<1> QED
  BY <1>2, <1>3

(* The rows that libavif may have after a decoding.                        *)
LEMMA RowsDecoded ==
  ASSUME file \in Images, decoded_rows \in 0 .. file.rows,
         NEW n, NEW result, NEW rows \in 0 .. file.rows,
         DecodeImage(n, allowIncremental, result, rows)
  PROVE  /\ result = "AVIF_RESULT_OK" => rows = file.rows
         /\ result = "AVIF_RESULT_OK" <=> Extent(n) <= received
         /\ rows # 0 => result # "AVIF_RESULT_TRUNCATED_DATA"
         /\ ~allowIncremental => rows = 0 \/ result = "AVIF_RESULT_OK"
         /\ allowIncremental /\ result # "AVIF_RESULT_TRUNCATED_DATA"
              => decoded_rows <= rows
         /\ file.colours = "420" /\ rows < file.rows => rows % 2 = 0
<1>1. file.rows \in Nat \ {0}
  BY FileFacts
<1>2. CASE Extent(n) <= received
  BY <1>1, <1>2 DEF DecodeImage
<1>3. CASE ~(Extent(n) <= received) /\ all_data_received
  BY <1>1, <1>3 DEF DecodeImage
<1>4. CASE ~(Extent(n) <= received) /\ ~all_data_received
  BY <1>1, <1>4 DEF DecodeImage
<1> QED
  BY <1>2, <1>3, <1>4

(* The piece that a decoding renders begins where the last one ended, and  *)
(* both ends have the parity that their chroma rows need.                  *)
LEMMA PieceToRender ==
  ASSUME IInv, ~failed, NEW index \in DOMAIN frame_buffer_cache,
         frame_buffer_cache[index].status # "kFrameComplete",
         NEW n, NEW result, NEW rows \in 0 .. file.rows, rows # 0,
         DecodeImage(n, allowIncremental, result, rows)
  PROVE  /\ last_displayed_height(index) \in 0 .. SizeHeight - 1
         /\ ToOf(index, rows) \in 1 .. SizeHeight
         /\ last_displayed_height(index) <= ToOf(index, rows)
         /\ subsampled => \/ last_displayed_height(index) = 0
                          \/ last_displayed_height(index) % 2 = 1
         /\ subsampled => \/ ToOf(index, rows) = SizeHeight
                          \/ ToOf(index, rows) % 2 = 1
         /\ allowIncremental => /\ last_displayed_height(index) = ShownRows(index)
                                /\ ToOf(index, rows) = RenderedRow(rows)
         /\ ~allowIncremental => /\ last_displayed_height(index) = 0
                                 /\ ToOf(index, rows) = SizeHeight
<1> USE DEF IInv, DataInv
<1>1. SizeHeight \in Nat \ {0} /\ SizeHeight <= file.rows /\ file.rows \in Nat
  BY Sizes, FileFacts
<1>2. DisplayableHeight(rows) \in 1 .. SizeHeight
  BY <1>1 DEF DisplayableHeight
<1>3. decoded_rows \in 0 .. file.rows
  BY DEF HeightInv
<1>4. CASE ~allowIncremental
  <2>1. rows = file.rows
    BY <1>3, <1>4, RowsDecoded
  <2>2. DisplayableHeight(rows) = SizeHeight
    BY <1>1, <2>1 DEF DisplayableHeight
  <2>3. last_displayed_height(index) = 0
    BY <1>4 DEF last_displayed_height
  <2>4. ToOf(index, rows) = SizeHeight
    BY <1>1, <2>2, <2>3 DEF ToOf, RenderedTo
  <2> QED
    BY <1>1, <1>4, <2>3, <2>4
<1>5. CASE allowIncremental
  <2> DEFINE new == frame_buffer_cache[index].status = "kFrameEmpty"
             d == IF new THEN 0 ELSE incrementally_displayed_height
             shown == DisplayableHeight(rows)
             before == IF new THEN 0 ELSE DisplayableHeight(decoded_rows)
  <2>1. /\ d \in 0 .. SizeHeight
        /\ d # SizeHeight
        /\ d = IF new THEN 0 ELSE RenderedRow(decoded_rows)
    BY <1>1, <1>5 DEF HeightInv
  <2>2. last_displayed_height(index) = d /\ ShownRows(index) = d
    BY <1>5 DEF last_displayed_height, ShownRows
  <2>3. decoded_rows <= rows
    BY <1>3, <1>5, RowsDecoded
  <2>4. subsampled => file.colours = "420"
    BY DEF subsampled
  <2>5. subsampled /\ shown < SizeHeight => shown % 2 = 0 /\ shown = rows
    BY <1>1, <1>3, <2>4, RowsDecoded DEF DisplayableHeight
  <2>6. subsampled /\ before < SizeHeight => before % 2 = 0
    <3>1. CASE new
      BY <3>1
    <3>2. CASE ~new
      BY <1>1, <1>3, <2>4, <3>2 DEF DisplayableHeight, HeightInv
    <3> QED
      BY <3>1, <3>2
  <2>7. shown \in 1 .. SizeHeight /\ before \in 0 .. SizeHeight /\ before <= shown
        /\ (before = 0 <=> new \/ decoded_rows = 0)
    BY <1>1, <1>2, <1>3, <2>3 DEF DisplayableHeight
  <2>8. /\ RenderedRow(rows) = RenderedTo(shown)
        /\ d = IF before = 0 THEN 0 ELSE RenderedTo(before)
    BY <2>1, <2>7 DEF RenderedRow
  <2>9. ToOf(index, rows) = IF shown = d THEN d ELSE RenderedTo(shown)
    BY <2>2 DEF ToOf
  <2> HIDE DEF shown, before, d
  <2>10. \A row \in 1 .. SizeHeight :
           RenderedTo(row) = IF subsampled /\ row < SizeHeight THEN row - 1 ELSE row
    BY DEF RenderedTo
  <2>11. subsampled => d = 0 \/ d % 2 = 1
    BY <1>1, <2>1, <2>6, <2>7, <2>8, <2>10
  <2>12. shown = d => RenderedTo(shown) = d
    BY <1>1, <2>1, <2>5, <2>7, <2>10, <2>11
  <2>13. ToOf(index, rows) = RenderedTo(shown)
    BY <2>9, <2>12
  <2>14. RenderedTo(shown) \in 1 .. SizeHeight
    BY <1>1, <2>5, <2>7, <2>10
  <2>15. d <= RenderedTo(shown)
    BY <1>1, <2>7, <2>8, <2>10, <2>14
  <2>16. subsampled => RenderedTo(shown) = SizeHeight \/ RenderedTo(shown) % 2 = 1
    BY <1>1, <2>5, <2>7, <2>10
  <2>17. d \in 0 .. SizeHeight - 1
    BY <1>1, <2>1
  <2> QED
    BY <1>5, <2>2, <2>8, <2>11, <2>13, <2>14, <2>15, <2>16, <2>17
<1> QED
  BY <1>4, <1>5

(* What Show does to the cache, in the terms of the lemmas.                *)
LEMMA ShowFacts ==
  ASSUME IInv, ~failed, NEW index \in DOMAIN frame_buffer_cache,
         frame_buffer_cache[index].status # "kFrameComplete",
         NEW n, NEW result, NEW rows \in 0 .. file.rows, rows # 0,
         DecodeImage(n, allowIncremental, result, rows),
         Show(index, n, DisplayableHeight(rows))
  PROVE  /\ DOMAIN frame_buffer_cache' = DOMAIN frame_buffer_cache
         /\ \A other \in DOMAIN frame_buffer_cache :
              other # index => frame_buffer_cache'[other] = frame_buffer_cache[other]
         /\ frame_buffer_cache'[index].status =
              IF CompleteOf(index, n, rows) THEN "kFrameComplete" ELSE "kFramePartial"
         /\ frame_buffer_cache'[index].alpha =
              IF CompleteOf(index, n, rows) THEN file.alpha ELSE TRUE
         /\ DOMAIN frame_buffer_cache'[index].rows
              = DOMAIN frame_buffer_cache[index].rows
         /\ \A r \in DOMAIN frame_buffer_cache[index].rows :
              frame_buffer_cache'[index].rows[r] =
                IF r \in last_displayed_height(index) .. ToOf(index, rows) - 1
                  THEN ExactRow(n, r) ELSE frame_buffer_cache[index].rows[r]
         /\ incrementally_displayed_height' =
              IF allowIncremental THEN ToOf(index, rows)
                                  ELSE incrementally_displayed_height
<1> DEFINE buffer == frame_buffer_cache[index]
           last == last_displayed_height(index)
           to == ToOf(index, rows)
           complete == CompleteOf(index, n, rows)
           shown == IF to = last THEN buffer.rows
                    ELSE WithPiece(buffer.rows, n, last, to)
<1>1. frame_buffer_cache' =
        [frame_buffer_cache EXCEPT ![index] =
           [status |-> IF complete THEN "kFrameComplete" ELSE "kFramePartial",
            alpha |-> IF complete THEN file.alpha ELSE TRUE, rows |-> shown]]
  BY DEF Show, ToOf, CompleteOf, WithPiece
<1>2. incrementally_displayed_height' =
        IF allowIncremental THEN to ELSE incrementally_displayed_height
  BY DEF Show, ToOf
<1>3. /\ DOMAIN shown = DOMAIN buffer.rows
      /\ \A r \in DOMAIN buffer.rows :
           shown[r] = IF r \in last .. to - 1 THEN ExactRow(n, r) ELSE buffer.rows[r]
  <2>1. /\ last \in 0 .. SizeHeight - 1 /\ to \in 1 .. SizeHeight /\ last <= to
        /\ subsampled => last = 0 \/ last % 2 = 1
        /\ subsampled => to = SizeHeight \/ to % 2 = 1
    BY PieceToRender
  <2>2. file \in Images /\ DOMAIN buffer.rows = 0 .. SizeHeight - 1
    BY DEF IInv, DataInv, FramesInv, BufferInv
  <2>3. last \in Nat /\ to \in Nat /\ to <= SizeHeight
    BY <2>1, <2>2, Sizes
  <2>4. IsPiece(buffer.rows, last, to)
    BY <2>1, <2>2, <2>3 DEF IsPiece
  <2> HIDE DEF buffer, last, to
  <2>5. CASE to = last
    BY <2>3, <2>5
  <2>6. CASE to # last
    <3>1. shown = WithPiece(buffer.rows, n, last, to)
      BY <2>6
    <3> HIDE DEF shown
    <3>2. DOMAIN shown = DOMAIN buffer.rows
      BY <2>2, <2>3, <2>4, <3>1, RenderedRows
    <3>3. ASSUME NEW r \in 0 .. SizeHeight - 1
          PROVE  shown[r] = IF r \in last .. to - 1 THEN ExactRow(n, r)
                                                   ELSE buffer.rows[r]
      BY <2>2, <2>3, <2>4, <3>1, RenderedRows
    <3> QED
      BY <2>2, <3>2, <3>3
  <2> QED
    BY <2>5, <2>6
<1>4. DOMAIN frame_buffer_cache' = DOMAIN frame_buffer_cache
  BY <1>1
<1>5. \A other \in DOMAIN frame_buffer_cache :
        other # index => frame_buffer_cache'[other] = frame_buffer_cache[other]
  BY <1>1
<1>6. frame_buffer_cache'[index] =
        [status |-> IF complete THEN "kFrameComplete" ELSE "kFramePartial",
         alpha |-> IF complete THEN file.alpha ELSE TRUE, rows |-> shown]
  BY <1>1
<1> HIDE DEF shown, last, to, complete
<1>7. /\ frame_buffer_cache'[index].status
           = IF complete THEN "kFrameComplete" ELSE "kFramePartial"
      /\ frame_buffer_cache'[index].alpha = IF complete THEN file.alpha ELSE TRUE
      /\ frame_buffer_cache'[index].rows = shown
  BY <1>6
<1> QED
  BY <1>2, <1>3, <1>4, <1>5, <1>7 DEF last, to, complete

LEMMA NotShown ==
  ASSUME IInv, ~failed, NEW index \in DOMAIN frame_buffer_cache,
         frame_buffer_cache[index].status # "kFrameComplete",
         NEW n, NEW result, NEW rows \in 0 .. file.rows, rows = 0,
         DecodeImage(n, allowIncremental, result, rows),
         failed' = (result = "AVIF_RESULT_TRUNCATED_DATA"),
         imageIndex' = IF result = "AVIF_RESULT_OK" THEN n ELSE imageIndex,
         decoded_rows' = IF allowIncremental THEN rows ELSE decoded_rows,
         UNCHANGED <<file, client, data, parse, image_planes, frame_buffer_cache,
                     incrementally_displayed_height>>
  PROVE  IInv'
<1> USE DEF IInv, data, parse
<1>1. file \in Images /\ file.rows \in Nat \ {0} /\ decoded_rows \in 0 .. file.rows
  BY FileFacts DEF DataInv, HeightInv
<1>2. result # "AVIF_RESULT_OK" /\ imageIndex' = imageIndex
  BY <1>1, RowsDecoded
<1>3. ASSUME ~failed', allowIncremental PROVE decoded_rows = 0 /\ decoded_rows' = 0
  <2>1. result # "AVIF_RESULT_TRUNCATED_DATA"
    BY <1>3
  <2>2. decoded_rows <= rows
    BY <1>1, <1>3, <2>1, RowsDecoded
  <2> QED
    BY <1>1, <1>3, <2>2
<1>4. decoded_rows' \in {0, decoded_rows}
  OBVIOUS
<1>5. CASE decoded_rows' = decoded_rows
  <2>1. UNCHANGED frames
    BY <1>2, <1>5 DEF frames
  <2>2. failed' \in BOOLEAN
    OBVIOUS
  <2>3. DataInv'
    BY <2>2 DEF DataInv
  <2> QED
    BY <2>1, <2>2, <2>3, FramesStay
<1>6. CASE decoded_rows' # decoded_rows
  <2>1. allowIncremental /\ failed' /\ decoded_rows' = 0
    <3>1. failed' \in BOOLEAN
      OBVIOUS
    <3> QED
      BY <1>3, <1>4, <1>6, <3>1
  <2>2. /\ SizeHeight' = SizeHeight /\ \A m, r : ExactRow(m, r)' = ExactRow(m, r)
        /\ \A m : CopiedPlanes(m)' = CopiedPlanes(m)
    BY SameSizes
  <2>3. /\ imageCount' = imageCount /\ decoded_frame_count' = decoded_frame_count
        /\ allowIncremental' = allowIncremental
    BY SameCounts
  <2>4. DataInv'
    BY <2>1 DEF DataInv
  <2>5. ParseInv'
    BY DEF ParseInv, Orientation
  <2>6. ClientInv'
    BY <1>2 DEF ClientInv, HasCompleteScan
  <2>7. LayerInv'
    BY <1>2, <2>3 DEF LayerInv, LayerLeftToDecode
  <2>8. HeightInv'
    BY <1>1, <2>1, <2>2, <2>3 DEF HeightInv
  <2>9. FramesInv'
    <3>1. ASSUME NEW other \in DOMAIN frame_buffer_cache PROVE BufferInv(other)'
      <4>1. BufferInv(other)
        BY DEF FramesInv
      <4>2. ShownRows(other)' = ShownRows(other) /\ ImageOf(other)' = ImageOf(other)
        BY <1>2, <2>2, <2>3 DEF ShownRows, ImageOf
      <4> QED
        BY <1>2, <2>2, <2>3, <4>1, <4>2 DEF BufferInv
    <3> QED
      BY <2>3, <3>1 DEF FramesInv
  <2>10. PlanesInv'
    BY <2>2, <2>3 DEF PlanesInv, HasCompleteScan
  <2> QED
    BY <2>4, <2>5, <2>6, <2>7, <2>8, <2>9, <2>10
<1> QED
  BY <1>5, <1>6

LEMMA Shown ==
  ASSUME IInv, ~failed, NEW index \in DOMAIN frame_buffer_cache,
         frame_buffer_cache[index].status # "kFrameComplete",
         NEW result, NEW rows \in 0 .. file.rows, rows # 0,
         DecodeImage(FrameIndex(index), allowIncremental, result, rows),
         failed' = (result = "AVIF_RESULT_TRUNCATED_DATA"),
         imageIndex' = IF result = "AVIF_RESULT_OK" THEN FrameIndex(index)
                                                    ELSE imageIndex,
         decoded_rows' = IF allowIncremental THEN rows ELSE decoded_rows,
         Show(index, FrameIndex(index), DisplayableHeight(rows)),
         UNCHANGED <<file, client, data, parse, image_planes>>
  PROVE  IInv'
<1> DEFINE n == FrameIndex(index)
           last == last_displayed_height(index)
           to == ToOf(index, rows)
           complete == CompleteOf(index, n, rows)
<1> USE DEF IInv, data, parse
<1>1. /\ file \in Images /\ file.rows \in Nat \ {0} /\ file.images \in Nat \ {0}
      /\ decoded_rows \in 0 .. file.rows
      /\ SizeHeight \in Nat \ {0}
  BY FileFacts, Sizes DEF DataInv, HeightInv
<1>2. /\ imageCount \in 1 .. file.images
      /\ progressive => imageCount > 1 /\ decoded_frame_count = 1
      /\ ~progressive => imageCount = decoded_frame_count
      /\ progressive \in BOOLEAN
  BY <1>1, ImageCount DEF ParseInv
<1>3. /\ n \in 0 .. imageCount - 1
      /\ ~progressive => n = index
  BY ImageToDecode
<1>4. /\ last \in 0 .. SizeHeight - 1 /\ to \in 1 .. SizeHeight /\ last <= to
      /\ allowIncremental => last = ShownRows(index) /\ to = RenderedRow(rows)
      /\ ~allowIncremental => last = 0 /\ to = SizeHeight
  BY PieceToRender
<1>5. /\ result # "AVIF_RESULT_TRUNCATED_DATA"
      /\ ~allowIncremental => result = "AVIF_RESULT_OK"
      /\ file.colours = "420" /\ rows < file.rows => rows % 2 = 0
  BY <1>1, RowsDecoded
<1>6. failed' = FALSE
  BY <1>5
<1>7. /\ DOMAIN frame_buffer_cache' = DOMAIN frame_buffer_cache
      /\ \A other \in DOMAIN frame_buffer_cache :
           other # index => frame_buffer_cache'[other] = frame_buffer_cache[other]
      /\ frame_buffer_cache'[index].status =
           IF complete THEN "kFrameComplete" ELSE "kFramePartial"
      /\ frame_buffer_cache'[index].alpha = IF complete THEN file.alpha ELSE TRUE
      /\ DOMAIN frame_buffer_cache'[index].rows = DOMAIN frame_buffer_cache[index].rows
      /\ \A r \in DOMAIN frame_buffer_cache[index].rows :
           frame_buffer_cache'[index].rows[r] =
             IF r \in last .. to - 1 THEN ExactRow(n, r)
                                     ELSE frame_buffer_cache[index].rows[r]
      /\ incrementally_displayed_height' =
           IF allowIncremental THEN to ELSE incrementally_displayed_height
  BY ShowFacts
<1>8. complete <=> to = SizeHeight /\ (progressive => n + 1 = imageCount)
  <2>1. complete <=> to > last /\ to = SizeHeight /\ IsLastLayer(n)
    BY DEF CompleteOf
  <2>2. IsLastLayer(n) <=> (progressive => n + 1 = imageCount)
    BY DEF IsLastLayer
  <2>3. to = SizeHeight => to > last
    BY <1>1, <1>4
  <2> QED
    BY <2>1, <2>2, <2>3
<1>9. /\ SizeHeight' = SizeHeight /\ \A m, r : ExactRow(m, r)' = ExactRow(m, r)
      /\ \A m : RenderedRow(m)' = RenderedRow(m)
      /\ \A m : CopiedPlanes(m)' = CopiedPlanes(m)
  BY SameSizes
<1>10. /\ imageCount' = imageCount /\ decoded_frame_count' = decoded_frame_count
       /\ allowIncremental' = allowIncremental
  BY SameCounts
<1>11. allowIncremental <=> imageCount = 1
  BY DEF allowIncremental
<1>12. DOMAIN frame_buffer_cache = 0 .. decoded_frame_count - 1
  BY DEF FramesInv
<1>13. ASSUME progressive \/ allowIncremental, NEW other \in DOMAIN frame_buffer_cache
       PROVE  other = index
  BY <1>2, <1>11, <1>12, <1>13
<1>14. ~allowIncremental => imageIndex' = n
  BY <1>5
<1> HIDE DEF n, last, to, complete
<1>15. DataInv'
  BY <1>6 DEF DataInv
<1>16. ParseInv'
  BY DEF ParseInv, Orientation
<1>17. ClientInv'
  BY <1>7 DEF ClientInv, HasCompleteScan
<1>18. LayerInv'
  <2>1. imageIndex' \in -1 .. file.images - 1
    BY <1>1, <1>2, <1>3 DEF n, LayerInv
  <2>2. ASSUME NEW other \in DOMAIN frame_buffer_cache, progressive,
               frame_buffer_cache'[other].status # "kFrameComplete"
        PROVE  imageIndex' + 1 < imageCount
    <3>1. other = index /\ ~allowIncremental
      BY <1>2, <1>11, <1>13, <2>2
    <3>2. ~complete /\ to = SizeHeight
      BY <1>4, <1>7, <2>2, <3>1
    <3> QED
      BY <1>2, <1>3, <1>8, <1>14, <2>2, <3>1, <3>2
  <2> QED
    BY <1>7, <1>10, <2>1, <2>2 DEF LayerInv, LayerLeftToDecode
<1>19. HeightInv'
  <2>1. decoded_rows' \in 0 .. file'.rows
        /\ (file'.colours = "420" /\ decoded_rows' < file'.rows => decoded_rows' % 2 = 0)
    BY <1>1, <1>5 DEF HeightInv
  <2>2. incrementally_displayed_height' \in 0 .. SizeHeight
    BY <1>1, <1>4, <1>7 DEF HeightInv
  <2>3. ASSUME allowIncremental, NEW other \in DOMAIN frame_buffer_cache
        PROVE  /\ incrementally_displayed_height' # 0
               /\ (frame_buffer_cache'[other].status = "kFrameComplete")
                     <=> (incrementally_displayed_height' = SizeHeight)
               /\ incrementally_displayed_height' = RenderedRow(decoded_rows')
    <3>1. other = index /\ ~progressive
      BY <1>2, <1>11, <1>13, <2>3
    <3>2. incrementally_displayed_height' = to /\ decoded_rows' = rows
      BY <1>7, <2>3
    <3>3. complete <=> to = SizeHeight
      BY <1>8, <3>1
    <3> QED
      BY <1>1, <1>4, <1>7, <2>3, <3>1, <3>2, <3>3
  <2>4. RenderedRow(decoded_rows)' = RenderedRow(decoded_rows')
    BY <1>9 DEF RenderedRow, RenderedTo, DisplayableHeight, subsampled,
       decode_to_half_float
  <2> QED
    BY <1>7, <1>9, <1>10, <2>1, <2>2, <2>3, <2>4 DEF HeightInv
<1>20. FramesInv'
  <2>1. BufferInv(index)'
    <3>1. /\ frame_buffer_cache[index].status \in {"kFrameEmpty", "kFramePartial"}
          /\ DOMAIN frame_buffer_cache[index].rows = 0 .. SizeHeight - 1
          /\ \A r \in 0 .. SizeHeight - 1 :
               frame_buffer_cache[index].rows[r]
                 = IF r < ShownRows(index) THEN ExactRow(ImageOf(index), r) ELSE NoRow
      BY DEF FramesInv, BufferInv
    <3>2. ShownRows(index)' = to
      BY <1>4, <1>7, <1>9, <1>10 DEF ShownRows
    <3>3. ImageOf(index)' = n
      BY <1>2, <1>3, <1>11, <1>14 DEF ImageOf
    <3>4. ASSUME NEW r \in 0 .. SizeHeight - 1
          PROVE  frame_buffer_cache'[index].rows[r]
                   = IF r < to THEN ExactRow(n, r) ELSE NoRow
      <4>1. frame_buffer_cache'[index].rows[r] =
              IF r \in last .. to - 1 THEN ExactRow(n, r)
                                      ELSE frame_buffer_cache[index].rows[r]
        BY <1>7, <3>1
      <4>2. CASE r \in last .. to - 1
        BY <1>1, <1>4, <4>1, <4>2
      <4>3. CASE r \notin last .. to - 1
        <5>1. allowIncremental
          BY <1>1, <1>4, <4>3
        <5>2. ShownRows(index) = last /\ ImageOf(index) = n
          BY <1>2, <1>3, <1>4, <1>11, <5>1 DEF ImageOf
        <5>3. frame_buffer_cache'[index].rows[r]
                = IF r < last THEN ExactRow(n, r) ELSE NoRow
          BY <3>1, <4>1, <4>3, <5>2
        <5>4. r < last <=> r < to
          BY <1>1, <1>4, <4>3
        <5> QED
          BY <5>3, <5>4
      <4> QED
        BY <4>2, <4>3
    <3>5. complete /\ progressive => imageIndex' = imageCount - 1
      BY <1>2, <1>3, <1>8, <1>11, <1>14
    <3>6. NoRow' = NoRow
      BY DEF NoRow
    <3>7. /\ frame_buffer_cache'[index].status
               \in {"kFrameEmpty", "kFramePartial", "kFrameComplete"}
          /\ (frame_buffer_cache'[index].status = "kFrameComplete") <=> complete
          /\ frame_buffer_cache'[index].alpha
               = (IF complete THEN file.alpha ELSE TRUE)
          /\ DOMAIN frame_buffer_cache'[index].rows = 0 .. SizeHeight - 1
      BY <1>7, <3>1
    <3>8. ASSUME NEW r \in 0 .. SizeHeight - 1
          PROVE  ExactRow(ImageOf(index), r)' = ExactRow(n, r)
      BY <1>9, <3>3 DEF ExactRow, subsampled, decode_to_half_float, ChromaRows
    <3> HIDE DEF NoRow
    <3> QED
      BY <1>9, <1>10, <3>2, <3>4, <3>5, <3>6, <3>7, <3>8 DEF BufferInv
  <2>2. ASSUME NEW other \in DOMAIN frame_buffer_cache, other # index
        PROVE  BufferInv(other)'
    <3>1. ~progressive /\ ~allowIncremental
      BY <1>2, <1>13, <2>2
    <3>2. frame_buffer_cache'[other] = frame_buffer_cache[other] /\ BufferInv(other)
      BY <1>7, <2>2 DEF FramesInv
    <3>3. ShownRows(other)' = ShownRows(other) /\ ImageOf(other)' = ImageOf(other)
      BY <1>9, <1>10, <3>1, <3>2 DEF ShownRows, ImageOf
    <3> QED
      BY <1>9, <1>10, <3>1, <3>2, <3>3 DEF BufferInv
  <2> QED
    BY <1>7, <1>10, <1>12, <2>1, <2>2 DEF FramesInv
<1>21. PlanesInv'
  BY <1>9, <1>10 DEF PlanesInv, HasCompleteScan
<1> QED
  BY <1>15, <1>16, <1>17, <1>18, <1>19, <1>20, <1>21

-----------------------------------------------------------------------------
(* The invariant.                                                          *)

LEMMA InvariantHoldsInitially ==
  Init => IInv
<1> SUFFICES ASSUME Init PROVE IInv
  OBVIOUS
<1> USE DEF Init
<1>1. file \in Images /\ file.size \in Nat \ {0} /\ file.images \in Nat \ {0}
      /\ file.rows \in Nat \ {0} /\ SizeHeight \in Nat \ {0}
  BY FileFacts, Sizes
<1>2. DOMAIN frame_buffer_cache = {} /\ ~HasCompleteScan
  BY DEF HasCompleteScan
<1>3. DataInv /\ ParseInv
  <2>1. received \in 0 .. file.size /\ segments \subseteq 1 .. received
    BY <1>1
  <2>2. DataInv
    BY <1>1, <2>1 DEF DataInv
  <2>3. ParseInv
    BY DEF ParseInv
  <2> QED
    BY <2>2, <2>3
<1>4. ClientInv /\ LayerInv
  BY <1>1, <1>2 DEF ClientInv, LayerInv, LayerLeftToDecode
<1>5. HeightInv
  BY <1>1, <1>2 DEF HeightInv
<1>6. FramesInv /\ PlanesInv
  BY <1>2 DEF FramesInv, PlanesInv
<1> QED
  BY <1>3, <1>4, <1>5, <1>6 DEF IInv

LEMMA OnSetDataKeepsInvariant ==
  ASSUME IInv, NEW size \in 1 .. file.size, NEW all \in BOOLEAN, OnSetData(size, all)
  PROVE  IInv'
<1> USE DEF IInv
<1>1. /\ ~failed /\ UNCHANGED <<file, client, frames, image_planes>>
      /\ received' = size /\ all_data_received' = all
      /\ segments' = segments \cup {size} /\ size >= received
  BY FileFacts DEF OnSetData, DataInv
<1>2. failed' \in BOOLEAN => DataInv'
  <2>1. file.size \in Nat /\ received \in Nat
    BY FileFacts DEF DataInv
  <2>2. segments' \subseteq 1 .. received'
    BY <1>1, <2>1 DEF DataInv
  <2> QED
    BY <1>1, <2>1, <2>2 DEF DataInv
<1>3. CASE all /\ ~size_available
  <2>1. UpdateDemuxer(size, all)
    BY <1>3 DEF OnSetData
  <2>2. ParseInv' /\ failed' \in BOOLEAN
    BY <1>1, <1>3, <2>1, MetadataRead
  <2> QED
    BY <1>1, <1>2, <1>3, <2>2, NothingYet
<1>4. CASE ~(all /\ ~size_available)
  <2>1. /\ have_parsed_current_data' = FALSE
        /\ UNCHANGED <<failed, size_available, progressive, ignore_clap,
                       orientation, allow_decode_to_yuv>>
    BY <1>4 DEF OnSetData
  <2>2. ParseInv'
    BY <1>1, <2>1 DEF ParseInv, Orientation
  <2>3. failed' \in BOOLEAN
    BY <2>1 DEF DataInv
  <2>4. ClientInv' /\ LayerInv' /\ HeightInv' /\ FramesInv' /\ PlanesInv'
    BY <1>1, <2>1, <2>3, FramesUntouched
  <2> QED
    BY <1>2, <2>2, <2>3, <2>4
<1> QED
  BY <1>3, <1>4

LEMMA DecodeSizeKeepsInvariant ==
  ASSUME IInv, DecodeSize
  PROVE  IInv'
<1> USE DEF IInv
<1>1. /\ ~size_available /\ UpdateDemuxer(received, all_data_received)
      /\ UNCHANGED <<file, client, data, frames, image_planes>>
      /\ all_data_received \in BOOLEAN
  BY DEF DecodeSize, DataInv
<1>2. ParseInv' /\ failed' \in BOOLEAN
  BY <1>1, MetadataRead
<1>3. DataInv'
  BY <1>1, <1>2 DEF DataInv, data
<1> QED
  BY <1>1, <1>2, <1>3, NothingYet

LEMMA DecodeFrameCountKeepsInvariant ==
  ASSUME IInv, DecodeFrameCount
  PROVE  IInv'
<1> USE DEF IInv
<1>1. /\ client = "frames" /\ DOMAIN frame_buffer_cache = {}
      /\ UNCHANGED <<file, client, data, imageIndex, decoded_rows,
                     incrementally_displayed_height, image_planes>>
      /\ frame_buffer_cache' =
           IF size_available' THEN [n \in 0 .. decoded_frame_count' - 1 |-> EmptyFrame']
                              ELSE frame_buffer_cache
  BY DEF DecodeFrameCount
<1>2. ParseInv' /\ failed' \in BOOLEAN /\ (size_available => size_available')
  <2>1. CASE size_available /\ UNCHANGED <<failed, parse>>
    BY <1>1, <2>1 DEF parse, ParseInv, DataInv, Orientation
  <2>2. CASE ~size_available /\ UpdateDemuxer(received, all_data_received)
    BY <1>1, <2>2, MetadataRead DEF DataInv
  <2> QED
    BY <2>1, <2>2 DEF DecodeFrameCount
<1>3. DataInv'
  BY <1>1, <1>2 DEF DataInv, data
<1>4. CASE size_available'
  BY <1>1, <1>2, <1>3, <1>4, FramesAppear
<1>5. CASE ~size_available'
  <2>1. ~size_available /\ UNCHANGED <<file, client, frames, image_planes>>
    BY <1>1, <1>2, <1>5 DEF frames
  <2> QED
    BY <1>2, <1>3, <2>1, NothingYet
<1> QED
  BY <1>4, <1>5

LEMMA DecodeKeepsInvariant ==
  ASSUME IInv, NEW index \in DOMAIN frame_buffer_cache, Decode(index)
  PROVE  IInv'
<1>1. /\ ~failed /\ frame_buffer_cache[index].status # "kFrameComplete"
      /\ UNCHANGED <<file, client, data, parse, image_planes>>
  BY DEF Decode
<1>2. PICK result \in {"AVIF_RESULT_OK", "AVIF_RESULT_WAITING_ON_IO",
                       "AVIF_RESULT_TRUNCATED_DATA"}, rows \in 0 .. file.rows :
        /\ DecodeImage(FrameIndex(index), allowIncremental, result, rows)
        /\ failed' = (result = "AVIF_RESULT_TRUNCATED_DATA")
        /\ imageIndex' = IF result = "AVIF_RESULT_OK" THEN FrameIndex(index)
                                                      ELSE imageIndex
        /\ decoded_rows' = IF allowIncremental THEN rows ELSE decoded_rows
        /\ IF DisplayableHeight(rows) = 0
             THEN UNCHANGED <<frame_buffer_cache, incrementally_displayed_height>>
             ELSE Show(index, FrameIndex(index), DisplayableHeight(rows))
  BY DEF Decode
<1>3. DisplayableHeight(rows) = 0 <=> rows = 0
  BY Sizes, FileFacts DEF DisplayableHeight, IInv, DataInv
<1>4. CASE rows = 0
  BY <1>1, <1>2, <1>3, <1>4, NotShown
<1>5. CASE rows # 0
  BY <1>1, <1>2, <1>3, <1>5, Shown
<1> QED
  BY <1>4, <1>5

LEMMA PurgeKeepsInvariant ==
  ASSUME IInv, NEW index \in DOMAIN frame_buffer_cache, Purge(index)
  PROVE  IInv'
<1> USE DEF IInv
<1>1. /\ decoded_frame_count > 1 \/ allowIncremental
      /\ frame_buffer_cache' = [frame_buffer_cache EXCEPT ![index] = EmptyFrame]
      /\ UNCHANGED <<file, client, data, failed, parse, imageIndex, decoded_rows,
                     incrementally_displayed_height, image_planes>>
  BY DEF Purge
<1>2. ~progressive
  BY <1>1, ImageCount DEF DataInv, ParseInv, allowIncremental
<1>3. allowIncremental => \A other \in DOMAIN frame_buffer_cache : other = index
  <2>1. allowIncremental => decoded_frame_count = 1
    BY <1>2, ImageCount DEF DataInv, ParseInv, allowIncremental
  <2> QED
    BY <2>1 DEF FramesInv
<1>4. /\ SizeHeight' = SizeHeight /\ \A n, r : ExactRow(n, r)' = ExactRow(n, r)
      /\ \A n : CopiedPlanes(n)' = CopiedPlanes(n)
  BY <1>1, SameSizes DEF parse
<1>5. /\ imageCount' = imageCount /\ decoded_frame_count' = decoded_frame_count
      /\ allowIncremental' = allowIncremental
  BY <1>1, SameCounts DEF parse
<1>6. /\ DOMAIN frame_buffer_cache' = DOMAIN frame_buffer_cache
      /\ frame_buffer_cache'[index] = EmptyFrame
      /\ \A other \in DOMAIN frame_buffer_cache :
           other # index => frame_buffer_cache'[other] = frame_buffer_cache[other]
  BY <1>1
<1>7. DataInv' /\ ParseInv'
  BY <1>1 DEF DataInv, ParseInv, data, parse, Orientation
<1>8. ClientInv' /\ LayerInv'
  BY <1>1, <1>2, <1>5, <1>6
  DEF ClientInv, LayerInv, LayerLeftToDecode, HasCompleteScan, parse
<1>9. HeightInv'
  <2>1. EmptyFrame.status = "kFrameEmpty"
    BY DEF EmptyFrame
  <2>2. allowIncremental => \A other \in DOMAIN frame_buffer_cache' :
                              frame_buffer_cache'[other].status = "kFrameEmpty"
    BY <1>6, <1>3, <2>1
  <2> QED
    BY <1>1, <1>4, <1>5, <2>2 DEF HeightInv, parse
<1>10. FramesInv'
  <2>1. BufferInv(index)'
    <3>1. /\ EmptyFrame.status = "kFrameEmpty" /\ EmptyFrame.alpha = TRUE
          /\ EmptyFrame.rows = [r \in 0 .. SizeHeight - 1 |-> NoRow]
      BY DEF EmptyFrame, NoRow
    <3>2. ShownRows(index)' = 0
      BY <1>6, <3>1 DEF ShownRows
    <3>3. DOMAIN EmptyFrame.rows = 0 .. SizeHeight - 1
          /\ \A r \in 0 .. SizeHeight - 1 : EmptyFrame.rows[r] = NoRow /\ ~(r < 0)
      BY <3>1, Sizes DEF DataInv
    <3>4. NoRow' = NoRow
      BY DEF NoRow
    <3> HIDE DEF NoRow
    <3> QED
      BY <1>4, <1>6, <3>1, <3>2, <3>3, <3>4 DEF BufferInv
  <2>2. ASSUME NEW other \in DOMAIN frame_buffer_cache, other # index
        PROVE  BufferInv(other)'
    <3>1. frame_buffer_cache'[other] = frame_buffer_cache[other] /\ BufferInv(other)
      BY <1>6, <2>2 DEF FramesInv
    <3>2. ShownRows(other)' = ShownRows(other) /\ ImageOf(other)' = ImageOf(other)
      BY <1>1, <1>2, <1>4, <1>5, <3>1 DEF ShownRows, ImageOf, parse
    <3> QED
      BY <1>1, <1>2, <1>4, <1>5, <3>1, <3>2 DEF BufferInv, parse
  <2> QED
    BY <1>5, <1>6, <2>1, <2>2 DEF FramesInv
<1>11. PlanesInv'
  BY <1>1, <1>4, <1>5 DEF PlanesInv, HasCompleteScan, parse
<1> QED
  BY <1>7, <1>8, <1>9, <1>10, <1>11

LEMMA DecodeToYUVKeepsInvariant ==
  ASSUME IInv, DecodeToYUV
  PROVE  IInv'
<1> USE DEF IInv
<1> DEFINE n == IF progressive THEN imageCount - 1 ELSE 0
<1>1. /\ client = "planes" /\ size_available /\ failed' \in BOOLEAN
      /\ UNCHANGED <<file, client, data, parse, decoded_rows, frame_buffer_cache,
                     incrementally_displayed_height>>
      /\ \/ imageIndex' = n /\ image_planes' = CopiedPlanes(n)
         \/ /\ imageIndex' \in {imageIndex} \cup {l \in imageIndex + 1 .. n - 1 :
                                                   Extent(l) <= received}
            /\ UNCHANGED image_planes
  BY DEF DecodeToYUV
<1>2. n \in 0 .. file.images - 1 /\ file.images \in Nat \ {0}
  BY ImageCount, FileFacts DEF DataInv, ParseInv
<1>3. DOMAIN frame_buffer_cache = {} /\ DOMAIN frame_buffer_cache' = {}
  BY <1>1 DEF ClientInv
<1>4. /\ SizeHeight' = SizeHeight /\ \A m : CopiedPlanes(m)' = CopiedPlanes(m)
  BY <1>1, SameSizes DEF parse
<1>5. imageCount' = imageCount
  BY <1>1, SameCounts DEF parse
<1>6. DataInv' /\ ParseInv'
  BY <1>1 DEF DataInv, ParseInv, data, parse, Orientation
<1>7. ClientInv'
  BY <1>1, <1>3 DEF ClientInv, HasCompleteScan, parse
<1>8. LayerInv'
  <2>1. imageIndex' \in -1 .. file.images - 1
    <3> HIDE DEF n
    <3> QED
      BY <1>1, <1>2 DEF LayerInv
  <2> QED
    BY <1>1, <1>3, <2>1 DEF LayerInv, LayerLeftToDecode
<1>9. HeightInv' /\ FramesInv'
  BY <1>1, <1>3, <1>4 DEF HeightInv, FramesInv
<1>10. PlanesInv'
  <2>1. n' = n
    BY <1>1, <1>5 DEF parse
  <2>2. CASE image_planes' = CopiedPlanes(n)
    <3>1. CopiedPlanes(n)' = CopiedPlanes(n)
      BY <1>4, <2>1 DEF CopiedPlanes, UVSize, ChromaShiftX, ChromaShiftY
    <3> QED
      BY <2>2, <3>1 DEF PlanesInv
  <2>3. CASE UNCHANGED image_planes
    BY <1>1, <1>4, <1>5, <2>3 DEF PlanesInv, HasCompleteScan, parse
  <2> QED
    BY <1>1, <2>2, <2>3
<1> QED
  BY <1>6, <1>7, <1>8, <1>9, <1>10

(* What every state of the decoder satisfies, frames or planes.            *)
THEOREM AvifInvariant == Spec => []IInv
<1>1. Init => IInv
  BY InvariantHoldsInitially
<1>2. IInv /\ [Next]_vars => IInv'
  <2> SUFFICES ASSUME IInv, [Next]_vars PROVE IInv'
    OBVIOUS
  <2>1. ASSUME NEW size \in 1 .. file.size, NEW all \in BOOLEAN, OnSetData(size, all)
        PROVE  IInv'
    BY <2>1, OnSetDataKeepsInvariant
  <2>2. CASE DecodeSize
    BY <2>2, DecodeSizeKeepsInvariant
  <2>3. CASE DecodeFrameCount
    BY <2>3, DecodeFrameCountKeepsInvariant
  <2>4. ASSUME NEW index \in DOMAIN frame_buffer_cache, Decode(index)
        PROVE  IInv'
    BY <2>4, DecodeKeepsInvariant
  <2>5. ASSUME NEW index \in DOMAIN frame_buffer_cache, DecodeFails(index)
        PROVE  IInv'
    <3>1. /\ failed' = TRUE
          /\ UNCHANGED <<file, client, data, parse, frames, image_planes>>
      BY <2>5 DEF DecodeFails
    <3>2. DataInv'
      BY <3>1 DEF IInv, DataInv, data
    <3> QED
      BY <3>1, <3>2, FramesStay DEF IInv
  <2>6. ASSUME NEW index \in DOMAIN frame_buffer_cache, Purge(index)
        PROVE  IInv'
    BY <2>6, PurgeKeepsInvariant
  <2>7. CASE DecodeToYUV
    BY <2>7, DecodeToYUVKeepsInvariant
  <2>8. CASE UNCHANGED vars
    <3>1. UNCHANGED <<file, client, data, failed, parse, frames, image_planes>>
      BY <2>8 DEF vars
    <3>2. DataInv' /\ failed' \in BOOLEAN
      BY <3>1 DEF IInv, DataInv, data
    <3> QED
      BY <3>1, <3>2, FramesStay DEF IInv
  <2> QED
    BY <2>1, <2>2, <2>3, <2>4, <2>5, <2>6, <2>7, <2>8 DEF Next
<1> QED
  BY <1>1, <1>2, PTL DEF Spec

-----------------------------------------------------------------------------
(* What libavif reads.                                                     *)

(* Some segment ends with what was received last.                          *)
SegmentsInv ==
  /\ received \in Nat
  /\ segments \subseteq 1 .. received
  /\ received = 0 \/ received \in segments

(* The segment of the byte at a position ends there.                       *)
SegmentEnd(position) ==
  CHOOSE e \in segments :
    e > position /\ \A d \in segments : d > position => e <= d

Bytes(from, end) == [k \in 1 .. end - from |-> from + k - 1]

LEMMA SegmentEnds ==
  ASSUME SegmentsInv, NEW p \in Nat, p < received
  PROVE  /\ SegmentEnd(p) \in segments /\ SegmentEnd(p) \in p + 1 .. received
         /\ \A d \in segments : d > p => SegmentEnd(p) <= d
<1> DEFINE T == {e \in segments : e > p}
<1>1. T \subseteq Nat /\ received \in T
  <2>1. received \in Nat /\ segments \subseteq Nat /\ received # 0
    BY DEF SegmentsInv
  <2> QED
    BY <2>1 DEF SegmentsInv
<1>2. PICK e \in T : \A d \in T : e <= d
  <2> HIDE DEF T
  <2> QED
    BY <1>1, LeastNatural
<1>3. e \in segments /\ e > p /\ \A d \in segments : d > p => e <= d
  BY <1>2
<1>4. /\ SegmentEnd(p) \in segments /\ SegmentEnd(p) > p
      /\ \A d \in segments : d > p => SegmentEnd(p) <= d
  BY <1>3 DEF SegmentEnd
<1>5. SegmentEnd(p) \in 1 .. received
  BY <1>4 DEF SegmentsInv
<1> QED
  BY <1>4, <1>5 DEF SegmentsInv

LEMMA SomeData ==
  ASSUME SegmentsInv, NEW p \in 0 .. received
  PROVE  GetSomeData(p) = IF p = received THEN <<>> ELSE Bytes(p, SegmentEnd(p))
BY DEF GetSomeData, Bytes, SegmentEnd

LEMMA BytesFacts ==
  ASSUME NEW from \in Nat, NEW end \in Nat, from <= end
  PROVE  /\ Bytes(from, end) \in Seq(Nat)
         /\ Len(Bytes(from, end)) = end - from
         /\ \A k \in 1 .. end - from : Bytes(from, end)[k] = from + k - 1
<1>1. end - from \in Nat
  OBVIOUS
<1>2. Bytes(from, end) \in [1 .. end - from -> Nat]
  BY <1>1 DEF Bytes
<1>3. Bytes(from, end) \in Seq(Nat)
  BY <1>1, <1>2, SeqDef
<1>4. Len(Bytes(from, end)) = end - from
  BY <1>1, <1>2, <1>3, LenProperties DEF Bytes
<1> QED
  BY <1>3, <1>4 DEF Bytes

LEMMA BytesJoin ==
  ASSUME NEW a \in Nat, NEW b \in Nat, NEW c \in Nat, a <= b, b <= c
  PROVE  Bytes(a, b) \o Bytes(b, c) = Bytes(a, c)
<1> DEFINE s == Bytes(a, b)
           t == Bytes(b, c)
           u == Bytes(a, c)
<1>1. /\ s \in Seq(Nat) /\ Len(s) = b - a
      /\ t \in Seq(Nat) /\ Len(t) = c - b
      /\ u \in Seq(Nat) /\ Len(u) = c - a
  <2>1. a <= c
    OBVIOUS
  <2>2. s \in Seq(Nat) /\ Len(s) = b - a
    BY BytesFacts
  <2>3. t \in Seq(Nat) /\ Len(t) = c - b
    BY BytesFacts
  <2>4. u \in Seq(Nat) /\ Len(u) = c - a
    BY <2>1, BytesFacts
  <2> QED
    BY <2>2, <2>3, <2>4
<1>2. /\ \A k \in 1 .. b - a : s[k] = a + k - 1
      /\ \A k \in 1 .. c - b : t[k] = b + k - 1
      /\ \A k \in 1 .. c - a : u[k] = a + k - 1
  BY DEF Bytes
<1> HIDE DEF s, t, u
<1>3. /\ s \o t \in Seq(Nat) /\ Len(s \o t) = Len(s) + Len(t)
      /\ \A i \in 1 .. Len(s) + Len(t) :
           (s \o t)[i] = IF i <= Len(s) THEN s[i] ELSE t[i - Len(s)]
  BY <1>1, ConcatProperties
<1>4. Len(s \o t) = Len(u)
  BY <1>1, <1>3
<1>5. ASSUME NEW i \in 1 .. Len(u) PROVE (s \o t)[i] = u[i]
  <2>1. i \in 1 .. c - a /\ i \in 1 .. Len(s) + Len(t) /\ u[i] = a + i - 1
    BY <1>1, <1>2
  <2>2. CASE i <= b - a
    BY <2>1, <2>2, <1>1, <1>2, <1>3
  <2>3. CASE ~(i <= b - a)
    <3>1. i - (b - a) \in 1 .. c - b /\ b + (i - (b - a)) - 1 = a + i - 1
      BY <2>1, <2>3
    <3> QED
      BY <2>1, <2>3, <3>1, <1>1, <1>2, <1>3
  <2> QED
    BY <2>2, <2>3
<1>6. s \o t = u
  BY <1>1, <1>3, <1>4, <1>5, SeqEqual
<1> QED
  BY <1>6 DEF s, t, u

(* The copy holds all that was asked for, up to the end of a segment: a    *)
(* function of that form satisfies the recursion, and no other does.       *)
LEMMA JoinedBytes ==
  ASSUME SegmentsInv, NEW from \in Nat, NEW end \in Nat, from <= end, end <= received
  PROVE  Joined(from, end) = IF from = end THEN <<>>
                             ELSE Bytes(from, SegmentEnd(end - 1))
<1> DEFINE D == from .. end
           Whole(p) == IF p = end THEN <<>> ELSE Bytes(p, SegmentEnd(end - 1))
           next(p) == LET some == GetSomeData(p)
                      IN IF p + Len(some) <= end THEN p + Len(some) ELSE end
           Body(f, p) == IF p = end THEN <<>> ELSE GetSomeData(p) \o f[next(p)]
           W == [p \in D |-> Whole(p)]
<1>1. received \in Nat
  BY DEF SegmentsInv
<1>2. ASSUME NEW p \in D, p # end
      PROVE  /\ next(p) \in D /\ next(p) > p
             /\ GetSomeData(p) \o Whole(next(p)) = Whole(p)
  <2> DEFINE e == SegmentEnd(p)
             E == SegmentEnd(end - 1)
  <2>1. p \in Nat /\ p < received /\ end - 1 \in Nat /\ end - 1 < received /\ p <= end - 1
    BY <1>1, <1>2
  <2>2. /\ e \in segments /\ e \in p + 1 .. received
        /\ \A d \in segments : d > p => e <= d
    BY <2>1, SegmentEnds
  <2>3. /\ E \in segments /\ E \in end .. received
        /\ \A d \in segments : d > end - 1 => E <= d
    <3>1. /\ E \in segments /\ E \in (end - 1) + 1 .. received
          /\ \A d \in segments : d > end - 1 => E <= d
      BY <2>1, SegmentEnds
    <3> QED
      BY <3>1
  <2>4. GetSomeData(p) = Bytes(p, e) /\ Len(GetSomeData(p)) = e - p
    <3>1. p \in 0 .. received /\ p # received
      BY <1>1, <2>1
    <3>2. GetSomeData(p) = Bytes(p, e)
      BY <3>1, SomeData
    <3>3. e \in Nat /\ p <= e
      BY <1>1, <2>1, <2>2
    <3>4. Len(Bytes(p, e)) = e - p
      BY <2>1, <3>3, BytesFacts
    <3> QED
      BY <3>2, <3>4
  <2> HIDE DEF e, E
  <2>5. e <= E
    BY <2>1, <2>2, <2>3
  <2>6. next(p) = IF e <= end THEN e ELSE end
    BY <2>1, <2>2, <2>4
  <2>7. CASE e < end
    <3>1. next(p) = e /\ e \in D /\ Whole(e) = Bytes(e, E)
      BY <2>1, <2>2, <2>6, <2>7 DEF E
    <3>2. Bytes(p, e) \o Bytes(e, E) = Bytes(p, E)
      <4>1. e \in Nat /\ E \in Nat /\ p <= e
        BY <1>1, <2>1, <2>2, <2>3
      <4> QED
        BY <2>1, <2>5, <4>1, BytesJoin
    <3> QED
      BY <1>2, <2>1, <2>2, <2>4, <3>1, <3>2 DEF E
  <2>8. CASE ~(e < end)
    <3>1. E <= e
      BY <2>1, <2>2, <2>3, <2>8
    <3>2. e = E
      BY <2>2, <2>3, <2>5, <3>1
    <3>3. next(p) = end /\ Whole(end) = <<>>
      BY <2>1, <2>2, <2>6, <2>8
    <3>4. Bytes(p, e) \o <<>> = Bytes(p, e)
      <4>1. Bytes(p, e) \in Seq(Nat)
        BY <2>1, <2>2, BytesFacts
      <4> QED
        BY <4>1, ConcatEmptySeq
    <3> QED
      BY <1>2, <2>1, <2>4, <3>2, <3>3, <3>4 DEF E
  <2> QED
    BY <2>7, <2>8
<1> DEFINE Rest == CHOOSE f : f = [p \in D |-> Body(f, p)]
<1>3. Joined(from, end) = Rest[from]
  BY DEF Joined
<1> HIDE DEF next, Whole
<1>4. W = [p \in D |-> Body(W, p)]
  <2>1. ASSUME NEW p \in D PROVE Whole(p) = Body(W, p)
    <3>1. CASE p = end
      BY <3>1 DEF Whole
    <3>2. CASE p # end
      BY <3>2, <1>2
    <3> QED
      BY <3>1, <3>2
  <2> QED
    BY <2>1
<1>5. Rest = [p \in D |-> Body(Rest, p)]
  <2> HIDE DEF W, Body
  <2> QED
    BY <1>4
<1> HIDE DEF Rest
<1> DEFINE S == {n \in Nat : \A p \in D : end - p <= n => Rest[p] = Whole(p)}
<1>6. 0 \in S
  <2>1. ASSUME NEW p \in D, end - p <= 0 PROVE Rest[p] = Whole(p)
    <3>1. p = end
      BY <2>1
    <3> QED
      BY <3>1, <1>5 DEF Whole
  <2> QED
    BY <2>1
<1>7. ASSUME NEW n \in Nat, n \in S PROVE n + 1 \in S
  <2>1. ASSUME NEW p \in D, end - p <= n + 1 PROVE Rest[p] = Whole(p)
    <3>1. CASE p = end
      BY <3>1, <1>5 DEF Whole
    <3>2. CASE p # end
      <4>1. next(p) \in D /\ next(p) > p
            /\ GetSomeData(p) \o Whole(next(p)) = Whole(p)
        BY <3>2, <1>2
      <4>2. end - next(p) <= n
        BY <2>1, <4>1
      <4>3. Rest[next(p)] = Whole(next(p))
        BY <1>7, <4>1, <4>2
      <4> QED
        BY <1>5, <3>2, <4>1, <4>3
    <3> QED
      BY <3>1, <3>2
  <2> QED
    BY <2>1
<1>8. Nat \subseteq S
  <2> HIDE DEF S
  <2> QED
    BY <1>6, <1>7, SetInduction
<1>9. end - from \in S /\ from \in D
  BY <1>8
<1> QED
  BY <1>3, <1>9 DEF Whole

LEMMA ExactReads ==
  ASSUME SegmentsInv, all_data_received \in BOOLEAN, file.size \in Nat
  PROVE  ReadsAreExact
<1> SUFFICES ASSUME NEW offset \in 0 .. file.size + 1, NEW size \in 0 .. file.size + 1
             PROVE  LET read == ReadFromSegmentReader(offset, size)
                    IN /\ read.result = "AVIF_RESULT_WAITING_ON_IO"
                            <=> ~all_data_received /\ offset + size > received
                       /\ read.result = "AVIF_RESULT_OK" =>
                            /\ \/ read.size = size /\ offset + size <= received
                               \/ all_data_received /\ offset + read.size = received
                            /\ read.size <= Len(read.bytes)
                            /\ \A k \in 1 .. read.size : read.bytes[k] = offset + k - 1
  BY DEF ReadsAreExact
<1> DEFINE read == ReadFromSegmentReader(offset, size)
           available == IF size <= received - offset THEN size ELSE received - offset
           some == GetSomeData(offset)
           bytes == IF Len(some) >= available THEN some
                    ELSE Joined(offset, offset + available)
<1>1. received \in Nat /\ offset \in Nat /\ size \in Nat
  BY DEF SegmentsInv
<1>2. CASE offset > received
  <2>1. read.result = IF all_data_received THEN "AVIF_RESULT_IO_ERROR"
                                           ELSE "AVIF_RESULT_WAITING_ON_IO"
    BY <1>2 DEF ReadFromSegmentReader
  <2> QED
    BY <1>1, <1>2, <2>1
<1>3. CASE ~(offset > received) /\ size > received - offset /\ ~all_data_received
  <2>1. read.result = "AVIF_RESULT_WAITING_ON_IO"
    BY <1>3 DEF ReadFromSegmentReader
  <2> QED
    BY <1>1, <1>3, <2>1
<1>4. CASE ~(offset > received) /\ ~(size > received - offset /\ ~all_data_received)
  <2>1. read = [result |-> "AVIF_RESULT_OK", size |-> available, bytes |-> bytes]
    BY <1>4 DEF ReadFromSegmentReader
  <2>2. /\ available \in Nat /\ offset + available <= received
        /\ available = size \/ offset + available = received
        /\ available = size => offset + size <= received
        /\ offset \in 0 .. received
    BY <1>1, <1>4
  <2> HIDE DEF available
  <2>3. available <= Len(bytes) /\ \A k \in 1 .. available : bytes[k] = offset + k - 1
    <3>1. CASE available = 0
      <4>1. Len(some) \in Nat
        <5>1. CASE offset = received
          BY <2>2, <5>1, SomeData
        <5>2. CASE offset # received
          <6>1. offset < received
            BY <1>1, <2>2, <5>2
          <6>2. SegmentEnd(offset) \in offset + 1 .. received
            BY <1>1, <6>1, SegmentEnds
          <6> QED
            BY <1>1, <2>2, <5>2, <6>2, SomeData, BytesFacts
        <5> QED
          BY <5>1, <5>2
      <4> QED
        BY <3>1, <4>1
    <3>2. CASE available # 0
      <4>1. offset < received /\ offset # received
        BY <1>1, <2>2, <3>2
      <4>2. SegmentEnd(offset) \in offset + 1 .. received
        BY <1>1, <4>1, SegmentEnds
      <4>3. /\ some = Bytes(offset, SegmentEnd(offset))
            /\ Len(some) = SegmentEnd(offset) - offset
            /\ \A k \in 1 .. SegmentEnd(offset) - offset : some[k] = offset + k - 1
        <5>1. some = Bytes(offset, SegmentEnd(offset))
          BY <2>2, <4>1, SomeData
        <5>2. SegmentEnd(offset) \in Nat /\ offset <= SegmentEnd(offset)
          BY <1>1, <4>2
        <5> HIDE DEF some
        <5> QED
          BY <1>1, <5>1, <5>2, BytesFacts
      <4>4. CASE Len(some) >= available
        BY <1>1, <2>2, <4>2, <4>3, <4>4
      <4>5. CASE ~(Len(some) >= available)
        <5> DEFINE E == SegmentEnd((offset + available) - 1)
        <5>1. /\ (offset + available) - 1 \in Nat
              /\ (offset + available) - 1 < received
              /\ offset + available \in Nat /\ offset # offset + available
          BY <1>1, <2>2, <3>2
        <5>2. E \in ((offset + available) - 1) + 1 .. received
          BY <5>1, SegmentEnds
        <5> HIDE DEF E
        <5>3. E \in Nat /\ offset + available <= E /\ offset <= E
          BY <5>1, <5>2, <1>1, <2>2
        <5>4. bytes = Bytes(offset, E)
          BY <1>1, <2>2, <4>5, <5>1, JoinedBytes DEF E
        <5>5. /\ Len(bytes) = E - offset
              /\ \A k \in 1 .. E - offset : bytes[k] = offset + k - 1
          <6> HIDE DEF bytes
          <6> QED
            BY <1>1, <5>3, <5>4, BytesFacts
        <5> QED
          BY <1>1, <2>2, <5>3, <5>5
      <4> QED
        BY <4>4, <4>5
    <3> QED
      BY <3>1, <3>2
  <2> HIDE DEF bytes
  <2>4. available = size \/ all_data_received
    BY <1>1, <1>4 DEF available
  <2>5. offset + size > received => all_data_received
    BY <1>1, <1>4
  <2> QED
    BY <1>1, <2>1, <2>2, <2>3, <2>4, <2>5
<1> QED
  BY <1>2, <1>3, <1>4

LEMMA SegmentsStay ==
  ASSUME SegmentsInv, [Next]_vars
  PROVE  SegmentsInv'
<1>1. ASSUME NEW size \in 1 .. file.size, NEW all \in BOOLEAN, OnSetData(size, all)
      PROVE  SegmentsInv'
  <2>1. received' = size /\ segments' = segments \cup {size} /\ size >= received
    BY <1>1 DEF OnSetData, SegmentsInv
  <2> QED
    BY <2>1 DEF SegmentsInv
<1>2. CASE UNCHANGED data
  BY <1>2 DEF data, SegmentsInv
<1>3. ASSUME NEW index \in DOMAIN frame_buffer_cache,
             Decode(index) \/ DecodeFails(index) \/ Purge(index)
      PROVE  UNCHANGED data
  BY <1>3 DEF Decode, DecodeFails, Purge
<1>4. DecodeSize \/ DecodeFrameCount \/ DecodeToYUV \/ UNCHANGED vars => UNCHANGED data
  BY DEF DecodeSize, DecodeFrameCount, DecodeToYUV, vars
<1> QED
  BY <1>1, <1>2, <1>3, <1>4 DEF Next

-----------------------------------------------------------------------------
(* The properties.                                                         *)

(* Every variable keeps its type, for files of every size and shape.       *)
THEOREM AvifTypeCorrect == Spec => []AvifTypeOK
<1>1. IInv => AvifTypeOK
  <2> SUFFICES ASSUME IInv PROVE AvifTypeOK
    OBVIOUS
  <2> USE DEF IInv
  <2>1. /\ received \in 0 .. file.size /\ segments \subseteq 1 .. received
        /\ all_data_received \in BOOLEAN /\ failed \in BOOLEAN
    BY DEF DataInv
  <2>2. {all_data_received, failed, size_available, have_parsed_current_data,
         progressive, ignore_clap, allow_decode_to_yuv} \subseteq BOOLEAN
    BY <2>1 DEF ParseInv
  <2>3. /\ imageIndex \in -1 .. file.images - 1 /\ decoded_rows \in 0 .. file.rows
        /\ incrementally_displayed_height \in 0 .. SizeHeight
    BY DEF LayerInv, HeightInv
  <2>4. DOMAIN frame_buffer_cache \in {{}, 0 .. decoded_frame_count - 1}
    BY DEF FramesInv
  <2>5. ASSUME NEW index \in DOMAIN frame_buffer_cache
        PROVE  LET buffer == frame_buffer_cache[index]
               IN /\ buffer.status \in {"kFrameEmpty", "kFramePartial", "kFrameComplete"}
                  /\ buffer.alpha \in BOOLEAN
                  /\ DOMAIN buffer.rows = 0 .. SizeHeight - 1
    <3>1. file.alpha \in BOOLEAN
      BY FileFacts DEF DataInv
    <3> QED
      BY <3>1 DEF FramesInv, BufferInv
  <2> QED
    BY <2>1, <2>2, <2>3, <2>4, <2>5 DEF AvifTypeOK
<1> QED
  BY <1>1, AvifInvariant, PTL

(* A row shown is the row of the whole image, of every height, whatever    *)
(* pieces libavif decoded it in (RenderImage, ColorCorrectImage, Decode).  *)
THEOREM RowsShownAreExact == Spec => []ShownRowsAreExact
<1>1. IInv => ShownRowsAreExact
  <2> SUFFICES ASSUME IInv, NEW index \in DOMAIN frame_buffer_cache
               PROVE  LET buffer == frame_buffer_cache[index]
                          image == IF progressive THEN imageIndex ELSE index
                      IN /\ \A r \in DOMAIN buffer.rows :
                              buffer.rows[r] =
                                IF r < ShownRows(index)
                                  THEN [Row(image, 0, SizeHeight, r) EXCEPT
                                          !.corrected = IF file.transform THEN 1 ELSE 0]
                                  ELSE NoRow
                         /\ buffer.status = "kFrameComplete" =>
                              /\ ShownRows(index) = SizeHeight
                              /\ progressive => image = imageCount - 1
                              /\ buffer.alpha = file.alpha
                         /\ buffer.status # "kFrameComplete" => buffer.alpha
    BY DEF ShownRowsAreExact
  <2> DEFINE buffer == frame_buffer_cache[index]
  <2>1. BufferInv(index)
    BY DEF IInv, FramesInv
  <2>2. \A r \in DOMAIN buffer.rows :
          buffer.rows[r] = IF r < ShownRows(index)
                             THEN [Row(ImageOf(index), 0, SizeHeight, r) EXCEPT
                                     !.corrected = IF file.transform THEN 1 ELSE 0]
                             ELSE NoRow
    <3>1. \A r : [Row(ImageOf(index), 0, SizeHeight, r) EXCEPT
                    !.corrected = IF file.transform THEN 1 ELSE 0]
                   = ExactRow(ImageOf(index), r)
      BY ExactRowIsRow
    <3> QED
      BY <2>1, <3>1, Zenon DEF BufferInv
  <2>3. buffer.status = "kFrameComplete" => ShownRows(index) = SizeHeight
    BY DEF ShownRows, IInv, HeightInv
  <2>4. /\ buffer.alpha = (IF buffer.status = "kFrameComplete" THEN file.alpha ELSE TRUE)
        /\ buffer.status = "kFrameComplete" /\ progressive => imageIndex = imageCount - 1
    BY <2>1 DEF BufferInv
  <2> HIDE DEF buffer
  <2> QED
    BY <2>2, <2>3, <2>4, Zenon DEF ImageOf, buffer
<1> QED
  BY <1>1, AvifInvariant, PTL

(* Decode's assertion holds: a layer is left as long as one is needed      *)
(* (Decode, line 550).                                                     *)
THEOREM LayersAreLeft == Spec => []LayerLeftToDecode
<1>1. IInv => LayerLeftToDecode
  BY DEF IInv, LayerInv
<1> QED
  BY <1>1, AvifInvariant, PTL

(* The table of orientations is the geometry of irot and imir              *)
(* (UpdateDemuxer).                                                        *)
THEOREM OrientationsAreRight == Spec => []OrientationIsGeometry
<1>1. IInv => OrientationIsGeometry
  BY OrientationOfSides DEF IInv, DataInv, ParseInv, OrientationIsGeometry
<1> QED
  BY <1>1, AvifInvariant, PTL

(* The rows of a plane fit it, for every width, height, depth and chroma   *)
(* format (DecodeToYUV, DecodedYUVWidthBytes).                             *)
THEOREM PlanesHaveTheirSamples == Spec => []PlanesAreExact
<1>1. IInv => PlanesAreExact
  <2> SUFFICES ASSUME IInv, HasCompleteScan PROVE PlanesAreExact
    BY DEF PlanesAreExact
  <2> DEFINE n == IF progressive THEN imageCount - 1 ELSE 0
  <2>1. image_planes = CopiedPlanes(n) /\ file \in Images
    BY DEF IInv, PlanesInv, DataInv
  <2>2. n = IF progressive THEN file.images - 1 ELSE 0
    BY DEF imageCount
  <2> HIDE DEF n
  <2>3. ASSUME NEW plane \in YUVIndex
        PROVE  /\ image_planes[plane].image = n
               /\ image_planes[plane].width = DecodedYUVSize(plane).width
               /\ image_planes[plane].height = DecodedYUVSize(plane).height
               /\ image_planes[plane].row_bytes
                    >= image_planes[plane].width * image_planes[plane].bytes
               /\ plane # "kY" /\ file.colours = "420" =>
                    /\ 2 * image_planes[plane].width >= SizeWidth
                    /\ 2 * image_planes[plane].height >= SizeHeight
    BY <2>1, PlanesFit
  <2> QED
    BY <2>2, <2>3 DEF PlanesAreExact
<1> QED
  BY <1>1, AvifInvariant, PTL

(* libavif reads the bytes of the file that it asks for, however they came *)
(* in segments, and waits exactly while some are to come.                  *)
THEOREM ReadsAreOfTheFile == Spec => []ReadsAreExact
<1>1. Init => SegmentsInv
  BY DEF Init, SegmentsInv
<1>2. SegmentsInv /\ [Next]_vars => SegmentsInv'
  BY SegmentsStay
<1>3. IInv /\ SegmentsInv => ReadsAreExact
  BY FileFacts, ExactReads DEF IInv, DataInv
<1> QED
  BY <1>1, <1>2, <1>3, AvifInvariant, PTL DEF Spec

(* The layer that is shown is the highest that has arrived, however many   *)
(* there are (Decode).                                                     *)
THEOREM HighestLayerShown == Spec => HighestLayerIsShown
<1> DEFINE Highest == client = "frames" /\ progressive /\ imageIndex' # imageIndex
                        => \A n \in imageIndex' + 1 .. imageCount - 1 : Extent(n) > received
<1>1. ASSUME IInv, [Next]_vars, client = "frames", progressive,
             imageIndex' # imageIndex,
             NEW n \in imageIndex' + 1 .. imageCount - 1
      PROVE  Extent(n) > received
  <2>1. PICK index \in DOMAIN frame_buffer_cache : Decode(index)
    <3>1. \A size, all : OnSetData(size, all) => imageIndex' = imageIndex
      BY DEF OnSetData, frames
    <3>2. DecodeSize \/ DecodeFrameCount => imageIndex' = imageIndex
      BY DEF DecodeSize, DecodeFrameCount, frames
    <3>3. \A index : DecodeFails(index) \/ Purge(index) => imageIndex' = imageIndex
      BY DEF DecodeFails, Purge, frames
    <3>4. ~DecodeToYUV /\ ~UNCHANGED vars
      BY <1>1 DEF DecodeToYUV, vars, frames
    <3> QED
      BY <1>1, <3>1, <3>2, <3>3, <3>4 DEF Next
  <2>2. /\ ~failed /\ frame_buffer_cache[index].status # "kFrameComplete"
        /\ imageIndex' = FrameIndex(index)
    BY <1>1, <2>1 DEF Decode
  <2>3. /\ FrameIndex(index) \in 0 .. imageCount - 1
        /\ FrameIndex(index) + 1 < imageCount
             => Extent(FrameIndex(index) + 1) > received
    BY <1>1, <2>2, ImageToDecode
  <2>4. file \in Images /\ progressive \in BOOLEAN /\ imageCount \in Nat
    BY <1>1, ImageCount, FileFacts DEF IInv, DataInv, ParseInv
  <2>5. /\ imageIndex' + 1 \in 0 .. imageCount - 1 /\ n \in 0 .. imageCount - 1
        /\ imageIndex' + 1 <= n
    BY <2>2, <2>3, <2>4
  <2>6. Extent(imageIndex' + 1) > received
    BY <2>2, <2>3, <2>4, <2>5
  <2>7. Extent(imageIndex' + 1) <= Extent(n)
    BY <2>4, <2>5, ExtentGrows
  <2>8. Extent(imageIndex' + 1) \in Nat /\ Extent(n) \in Nat /\ received \in Nat
    BY <1>1, <2>4, <2>5, ExtentIsNatural, FileFacts DEF IInv, DataInv
  <2> QED
    BY <2>6, <2>7, <2>8
<1>2. IInv /\ [Next]_vars => [Highest]_vars
  BY <1>1
<1> QED
  BY <1>2, AvifInvariant, PTL DEF Spec, HighestLayerIsShown

(* A frame that was received is complete after a decoding that does not    *)
(* fail (FrameIsReceivedAtIndex, Decode).                                  *)
THEOREM ReceivedFramesAreComplete == Spec => ReceivedFramesComplete
<1>1. ASSUME IInv, NEW index \in DOMAIN frame_buffer_cache, Decode(index),
             FrameIsReceivedAtIndex(index),
             progressive => Extent(imageCount - 1) <= received, ~failed'
      PROVE  frame_buffer_cache'[index].status = "kFrameComplete"
  <2> DEFINE n == FrameIndex(index)
  <2>1. /\ ~failed /\ frame_buffer_cache[index].status # "kFrameComplete"
    BY <1>1 DEF Decode
  <2>2. PICK result \in {"AVIF_RESULT_OK", "AVIF_RESULT_WAITING_ON_IO",
                         "AVIF_RESULT_TRUNCATED_DATA"}, rows \in 0 .. file.rows :
          /\ DecodeImage(n, allowIncremental, result, rows)
          /\ failed' = (result = "AVIF_RESULT_TRUNCATED_DATA")
          /\ IF DisplayableHeight(rows) = 0
               THEN UNCHANGED <<frame_buffer_cache, incrementally_displayed_height>>
               ELSE Show(index, n, DisplayableHeight(rows))
    BY <1>1 DEF Decode
  <2>3. file \in Images /\ progressive \in BOOLEAN /\ received \in Nat
        /\ decoded_rows \in 0 .. file.rows
    BY <1>1, FileFacts DEF IInv, DataInv, ParseInv, HeightInv
  <2>4. /\ imageCount \in 1 .. file.images /\ file.images \in Nat
        /\ progressive => decoded_frame_count = 1
        /\ ~progressive => imageCount = decoded_frame_count
        /\ n \in 0 .. imageCount - 1
        /\ ~progressive => n = index
        /\ progressive => (n + 1 < imageCount => Extent(n + 1) > received)
    BY <1>1, <2>1, <2>3, ImageToDecode, ImageCount, FileFacts
  <2>5. progressive => n = imageCount - 1
    <3>1. ASSUME progressive, n + 1 < imageCount PROVE FALSE
      <4>1. n + 1 \in 0 .. imageCount - 1 /\ imageCount - 1 \in 0 .. imageCount - 1
        BY <2>4, <3>1
      <4>2. Extent(n + 1) <= Extent(imageCount - 1)
        BY <2>3, <2>4, <3>1, <4>1, ExtentGrows
      <4>3. Extent(n + 1) \in Nat /\ Extent(imageCount - 1) \in Nat
        BY <2>3, <4>1, ExtentIsNatural
      <4> QED
        BY <1>1, <2>3, <2>4, <3>1, <4>2, <4>3
    <3> QED
      BY <2>4, <3>1
  <2>6. result = "AVIF_RESULT_OK"
    <3>1. result # "AVIF_RESULT_TRUNCATED_DATA"
      BY <1>1, <2>2
    <3>2. all_data_received \/ Extent(n) <= received
      BY <1>1, <2>4, <2>5 DEF FrameIsReceivedAtIndex
    <3> QED
      BY <2>2, <3>1, <3>2 DEF DecodeImage
  <2>7. rows = file.rows /\ rows # 0
    BY <2>2, <2>3, <2>6, RowsDecoded, FileFacts
  <2>8. DisplayableHeight(rows) = SizeHeight /\ SizeHeight \in Nat \ {0}
    BY <2>3, <2>7, Sizes, FileFacts DEF DisplayableHeight
  <2>9. /\ frame_buffer_cache'[index].status =
             IF CompleteOf(index, n, rows) THEN "kFrameComplete" ELSE "kFramePartial"
        /\ last_displayed_height(index) \in 0 .. SizeHeight - 1
    <3>1. Show(index, n, DisplayableHeight(rows))
      BY <2>2, <2>8
    <3> HIDE DEF n
    <3> QED
      BY <1>1, <2>1, <2>2, <2>7, <3>1, ShowFacts, PieceToRender
  <2>10. ToOf(index, rows) = SizeHeight
    BY <2>8, <2>9 DEF ToOf, RenderedTo
  <2>11. IsLastLayer(n)
    BY <2>4, <2>5 DEF IsLastLayer
  <2>12. CompleteOf(index, n, rows)
    BY <2>8, <2>9, <2>10, <2>11 DEF CompleteOf
  <2> QED
    BY <2>9, <2>12
<1>2. IInv /\ [Next]_vars =>
        [\A index \in DOMAIN frame_buffer_cache :
           /\ Decode(index)
           /\ FrameIsReceivedAtIndex(index)
           /\ progressive => Extent(imageCount - 1) <= received
           => failed' \/ frame_buffer_cache'[index].status = "kFrameComplete"]_vars
  BY <1>1
<1> QED
  BY <1>2, AvifInvariant, PTL DEF Spec, ReceivedFramesComplete

=============================================================================
