-------------------------- MODULE PngPixels_proofs --------------------------
(***************************************************************************)
(* The pixels of a row, for every image, every width and every size of a   *)
(* load: what the loops for NEON write is what one pixel after the other   *)
(* would, and the alphas they saw are the ones there are.                  *)
(*                                                                         *)
(* RowIsExact and AlphaIsSeen speak of a finished row.  Before its end,    *)
(* SourceInv says where the pixels that are left can be read, RowInv which *)
(* are written, and MaskInv that the lanes together, and then the mask,    *)
(* have exactly the bits that all pixels so far have.                      *)
(***************************************************************************)
EXTENDS PngPixels, SequenceTheorems, InductionLemmas

-----------------------------------------------------------------------------
(* Arithmetic.                                                             *)

(* A quotient by 256 from its bounds.                                      *)
LEMMA Quotient256 ==
  ASSUME NEW m \in Int, NEW q \in Int, 256 * q <= m, m < 256 * q + 256
  PROVE  m \div 256 = q
  BY SMTT(30)

LEMMA Remainder256 ==
  ASSUME NEW q \in 0 .. 255
  PROVE  q % 256 = q
<1>1. q \div 256 = 0
  BY Quotient256
<1>2. q = 256 * (q \div 256) + (q % 256)
  OBVIOUS
<1> QED
  BY <1>1, <1>2

(* Premultiply of a product.                                               *)
Narrowed(n) == ((n + (n + 128) \div 256 + 128) \div 256) % 256

LEMMA QuotientRoundedTwice ==
  ASSUME NEW n \in Int, NEW q \in 0 .. 255,
         255 * q - 127 <= n, n <= 255 * q + 127
  PROVE  Narrowed(n) = q
<1>1. ASSUME NEW k \in Int, k = IF n + 128 >= 256 * q THEN q ELSE q - 1
      PROVE  (n + 128) \div 256 = k /\ (n + k + 128) \div 256 = q
  <2>1. 256 * k <= n + 128 /\ n + 128 < 256 * k + 256
    BY <1>1
  <2>2. 256 * q <= n + k + 128 /\ n + k + 128 < 256 * q + 256
    BY <1>1
  <2>3. n + 128 \in Int /\ n + k + 128 \in Int /\ q \in Int
    BY <1>1
  <2>4. (n + 128) \div 256 = k
    BY <1>1, <2>1, <2>3, Quotient256
  <2>5. (n + k + 128) \div 256 = q
    BY <2>2, <2>3, Quotient256
  <2> QED
    BY <2>4, <2>5
<1>2. (IF n + 128 >= 256 * q THEN q ELSE q - 1) \in Int
  OBVIOUS
<1>3. q % 256 = q
  BY Remainder256
<1> QED
  BY <1>1, <1>2, <1>3 DEF Narrowed

LEMMA RoundedQuotient ==
  ASSUME NEW n \in Int, 0 <= n, n <= 65025
  PROVE  Narrowed(n) = (n + 127) \div 255
<1> DEFINE q == (n + 127) \div 255
<1>1. q \in 0 .. 255
  BY SMTT(30)
<1>2. 255 * q - 127 <= n /\ n <= 255 * q + 127
  BY SMTT(30)
<1> HIDE DEF q
<1>3. Narrowed(n) = q
  BY <1>1, <1>2, QuotientRoundedTwice
<1> QED
  BY <1>3 DEF q

(* The product of two bytes fits 16 bits.                                  *)
LEMMA ProductOfBytes ==
  ASSUME NEW c \in Byte, NEW a \in Byte
  PROVE  c * a \in Int /\ 0 <= c * a /\ c * a <= 65025
<1>1. c \in Int /\ a \in Int /\ 0 <= c /\ c <= 255 /\ 0 <= a /\ a <= 255
  BY DEF Byte
<1>2. 0 <= c * a
  BY <1>1
<1>3. c * a <= 255 * a
  BY <1>1
<1> QED
  BY <1>1, <1>2, <1>3

(* (x + 127) / 255 by additions and shifts, for every colour and alpha     *)
(* (SetRGBAPremultiplyRowNeon and its comment).                            *)
THEOREM PremultiplyRounds ==
  \A c \in Byte, a \in Byte : Premultiply(c, a) = Rounded(c, a)
<1> SUFFICES ASSUME NEW c \in Byte, NEW a \in Byte
             PROVE  Premultiply(c, a) = Rounded(c, a)
  OBVIOUS
<1>1. Premultiply(c, a) = Narrowed(c * a)
  BY Zenon DEF Premultiply, Narrowed
<1>2. Narrowed(c * a) = (c * a + 127) \div 255
  BY ProductOfBytes, RoundedQuotient
<1> QED
  BY <1>1, <1>2 DEF Rounded

LEMMA OpaqueIsUnscaled ==
  \A c \in Byte : Rounded(c, 255) = c
  BY SMTT(30) DEF Rounded, Byte

(* 255 is the byte with all bits set.                                      *)
LEMMA BitsOfByte ==
  ASSUME NEW a \in Byte
  PROVE  /\ Bits(a) \subseteq 1 .. 8
         /\ (Bits(a) = Bits(255)) <=> (a = 255)
<1>1. Bits(255) = 1 .. 8
  BY SMTT(30) DEF Bits, Weight
<1>2. ASSUME Bits(a) = 1 .. 8 PROVE a = 255
  <2>1. \A b \in 1 .. 8 : (a \div Weight[b]) % 2 = 1
    BY <1>2 DEF Bits
  <2>2. a \in 0 .. 255
    BY DEF Byte
  <2>3. /\ (a \div 128) % 2 = 1 /\ (a \div 64) % 2 = 1 /\ (a \div 32) % 2 = 1
        /\ (a \div 16) % 2 = 1 /\ (a \div 8) % 2 = 1 /\ (a \div 4) % 2 = 1
        /\ (a \div 2) % 2 = 1 /\ (a \div 1) % 2 = 1
    <3>1. /\ (a \div Weight[8]) % 2 = 1 /\ (a \div Weight[7]) % 2 = 1
          /\ (a \div Weight[6]) % 2 = 1 /\ (a \div Weight[5]) % 2 = 1
          /\ (a \div Weight[4]) % 2 = 1 /\ (a \div Weight[3]) % 2 = 1
          /\ (a \div Weight[2]) % 2 = 1 /\ (a \div Weight[1]) % 2 = 1
      BY <2>1
    <3> QED
      BY <3>1 DEF Weight
  <2> QED
    BY <2>2, <2>3, SMTT(60)
<1> QED
  BY <1>1, <1>2 DEF Bits
-----------------------------------------------------------------------------
(* The inductive invariant.                                                *)

(* What the loops are to read of a pixel, and to write.                    *)
Source(x) ==
  Pixel(image.row[x].colour, image.row[x].alpha,
        IF has_alpha_channel /\ ColorTransform THEN <<profile>> ELSE <<>>, Nothing)

Written(x) ==
  Pixel(IF has_alpha_channel /\ image.premultiply
          THEN Rounded(image.row[x].colour, image.row[x].alpha)
          ELSE image.row[x].colour,
        IF has_alpha_channel THEN image.row[x].alpha ELSE 255,
        IF has_alpha_channel /\ ColorTransform THEN <<profile>> ELSE <<>>,
        IF has_alpha_channel /\ image.blend THEN Previous(x) ELSE Nothing)

Looping == pc \in {"loads", "lanes", "tail"}

StartInv ==
  pc \in {"header", "row"} =>
    /\ src = "libpng" /\ done = 0 /\ alpha_mask = Bits(255)
    /\ \A x \in DOMAIN dst_row : dst_row[x] = Previous(x)

(* Where the transform went, and the pixels that are left to read.         *)
SourceInv ==
  Looping =>
    /\ src = "libpng" <=> ~(has_alpha_channel /\ ColorTransform)
    /\ src = "buffer" => ~image.blend
    /\ src = "scanline" => \A x \in Columns : color_transform_scanline[x] = Source(x)
    /\ \A x \in DOMAIN dst_row :
         done <= x /\ x < image.width =>
           dst_row[x] = IF src = "buffer" THEN Source(x) ELSE Previous(x)

(* The pixels that were written, and those that never are.                 *)
RowInv ==
  Looping =>
    /\ ~decode_to_half_float
    /\ \A x \in DOMAIN dst_row :
         /\ x < done => dst_row[x] = Written(x)
         /\ x >= image.width => dst_row[x] = Previous(x)

(* A bit is set in all pixels so far.                                      *)
SeenSet(b) == \A x \in 0 .. done - 1 : b \in Bits(image.row[x].alpha)

(* The lanes together, and then the mask, have the bits set in all pixels. *)
MaskInv ==
  /\ pc = "loads" => load \in {2, 4, 8, 16} /\ DOMAIN lanes = 0 .. load - 1
  /\ pc = "lanes" => \E n \in {1, 2, 4, 8, 16} : DOMAIN lanes = 0 .. n - 1
  /\ pc \in {"loads", "lanes"} =>
       /\ alpha_mask = Bits(255)
       /\ \A b \in 1 .. 8 : (\A l \in DOMAIN lanes : b \in lanes[l]) <=> SeenSet(b)
  /\ pc = "tail" /\ has_alpha_channel =>
       \A b \in 1 .. 8 : b \in alpha_mask <=> SeenSet(b)

SawInv == pc # "done" => current_buffer_saw_alpha = image.saw_alpha

IInv ==
  /\ image \in Images
  /\ PixelsTypeOK
  /\ StartInv
  /\ SourceInv
  /\ RowInv
  /\ MaskInv
  /\ SawInv
  /\ RowIsExact
  /\ AlphaIsSeen

-----------------------------------------------------------------------------
(* Facts about an image and the pixel to be read.                          *)

LEMMA ImageTyped ==
  ASSUME image \in Images
  PROVE  /\ image.width \in Nat /\ image.buffer_width \in Nat
         /\ image.width <= image.buffer_width
         /\ \A x \in Columns : /\ image.row[x].colour \in Byte
                               /\ image.row[x].alpha \in Byte
<1>1. IsImage(image)
  BY PixelsAssumption
<1> QED
  BY <1>1 DEF IsImage, Columns

LEMMA LoadTyped ==
  /\ load \in {1, 2, 4, 8, 16}
  /\ load # 1 => image.neon /\ ~(has_alpha_channel /\ image.blend)
  BY PixelsAssumption DEF load

LEMMA TransformedOnce ==
  ASSUME NEW x
  PROVE  Transform(Delivered(x)) = Pixel(image.row[x].colour, image.row[x].alpha,
                                         <<profile>>, Nothing)
<1>1. Append(<<>>, profile) = <<profile>>
  OBVIOUS
<1> QED
  BY <1>1 DEF Transform, Delivered, Pixel

LEMMA SourceIsRead ==
  ASSUME IInv, Looping, NEW x \in done .. image.width - 1
  PROVE  SrcPixel(x) = Source(x)
<1>1. x \in Columns /\ x \in DOMAIN dst_row /\ done <= x /\ x < image.width
  BY ImageTyped DEF IInv, PixelsTypeOK, Columns
<1>2. CASE src = "libpng"
  BY <1>2 DEF IInv, SourceInv, SrcPixel, Delivered, Source
<1>3. CASE src = "scanline"
  BY <1>1, <1>3 DEF IInv, SourceInv, SrcPixel
<1>4. CASE src = "buffer"
  BY <1>1, <1>4 DEF IInv, SourceInv, SrcPixel
<1> QED
  BY <1>2, <1>3, <1>4 DEF IInv, PixelsTypeOK

(* What does not change with a row.                                        *)
LEMMA RowKept ==
  ASSUME UNCHANGED <<image, metadata>>, NEW x
  PROVE  /\ Source(x)' = Source(x) /\ Written(x)' = Written(x)
         /\ Previous(x)' = Previous(x)
         /\ ColorTransform' = ColorTransform /\ load' = load /\ Columns' = Columns
  BY DEF metadata, Source, Written, Previous, ColorTransform, load, Columns, Pixel

-----------------------------------------------------------------------------

LEMMA InitInv == Init => IInv
<1> SUFFICES ASSUME Init PROVE IInv
  OBVIOUS
<1>1. image \in Images /\ image.width \in Nat /\ image.saw_alpha \in BOOLEAN
  BY ImageTyped, PixelsAssumption DEF Init, IsImage
<1>2. PixelsTypeOK
  <2>1. Bits(255) \subseteq 1 .. 8
    BY BitsOfByte DEF Byte
  <2>2. /\ has_alpha_channel \in BOOLEAN /\ decode_to_half_float \in BOOLEAN
        /\ current_buffer_saw_alpha \in BOOLEAN
    BY <1>1, Zenon DEF Init
  <2>3. pc = "header" /\ src = "libpng" /\ done = 0 /\ alpha_mask = Bits(255)
          /\ DOMAIN dst_row = 0 .. image.buffer_width - 1
    BY DEF Init
  <2> QED
    BY <1>1, <2>1, <2>2, <2>3 DEF PixelsTypeOK
<1>3. StartInv /\ SawInv
  BY DEF Init, StartInv, SawInv
<1>4. SourceInv /\ RowInv /\ MaskInv /\ RowIsExact /\ AlphaIsSeen
  BY DEF Init, SourceInv, RowInv, MaskInv, RowIsExact, AlphaIsSeen, Looping
<1> QED
  BY <1>1, <1>2, <1>3, <1>4 DEF IInv

(* HeaderAvailable asks libpng for the rows that RowAvailable reads.       *)
LEMMA FormatTyped ==
  ASSUME NEW h, IsFormat(h)
  PROVE  /\ h.color_type \in {"gray", "rgb", "palette", "gray_alpha", "rgb_alpha"}
         /\ h.bit_depth \in {1, 2, 4, 8, 16}
         /\ h.color_type \in {"gray_alpha", "rgb_alpha", "rgb"} => h.bit_depth >= 8
         /\ h.trns \in BOOLEAN
<1>1. CASE \E t \in {"gray", "rgb", "palette"}, d \in {1, 2, 4, 8, 16},
              x \in BOOLEAN : h = [color_type |-> t, bit_depth |-> d, trns |-> x]
  BY <1>1 DEF IsFormat
<1>2. CASE \E t \in {"gray_alpha", "rgb_alpha"}, d \in {8, 16} :
             h = [color_type |-> t, bit_depth |-> d, trns |-> FALSE]
  BY <1>2 DEF IsFormat
<1> QED
  BY <1>1, <1>2 DEF IsFormat, Formats

LEMMA HeaderFormat ==
  ASSUME image \in Images, SetBitDepth, HeaderAvailable
  PROVE  row_format' = [channels |-> IF has_alpha_channel' THEN 4 ELSE 3,
                        bits |-> IF decode_to_half_float' THEN 16 ELSE 8]
<1> DEFINE h == image.ihdr
           alpha == h.color_type \in {"gray_alpha", "rgb_alpha"} \/ h.trns
<1>1. IsFormat(h)
  BY PixelsAssumption DEF IsImage
<1>2. /\ h.color_type \in {"gray", "rgb", "palette", "gray_alpha", "rgb_alpha"}
      /\ h.bit_depth \in {1, 2, 4, 8, 16}
      /\ h.color_type \in {"gray_alpha", "rgb_alpha", "rgb"} => h.bit_depth >= 8
      /\ h.trns \in BOOLEAN
  BY <1>1, FormatTyped
<1> HIDE DEF h
<1>3. row_format' = [channels |-> 3 + (IF alpha THEN 1 ELSE 0),
                     bits |-> IF decode_to_half_float' THEN 16 ELSE 8]
  <2>1. row_format' =
          RowFormat(h,
            \/ h.color_type = "palette"
            \/ h.color_type = "gray" /\ h.bit_depth < 8
            \/ h.trns,
            ~decode_to_half_float', h.color_type \in {"gray", "gray_alpha"})
    BY DEF HeaderAvailable, h
  <2>2. decode_to_half_float' => h.bit_depth = 16
    BY DEF SetBitDepth, h
  <2>3. decode_to_half_float' \in BOOLEAN
    BY DEF SetBitDepth
  <2> QED
    BY <1>2, <2>1, <2>2, <2>3 DEF RowFormat
<1>4. has_alpha_channel' = (row_format'.channels = 4)
  BY DEF HeaderAvailable
<1>5. CASE alpha
  <2>1. row_format' = [channels |-> 4,
                       bits |-> IF decode_to_half_float' THEN 16 ELSE 8]
    BY <1>3, <1>5
  <2>2. has_alpha_channel' = TRUE
    BY <2>1, <1>4
  <2> QED
    BY <2>1, <2>2
<1>6. CASE ~alpha
  <2>1. row_format' = [channels |-> 3,
                       bits |-> IF decode_to_half_float' THEN 16 ELSE 8]
    BY <1>3, <1>6
  <2>2. row_format'.channels # 4
    BY <2>1
  <2>3. ~has_alpha_channel'
    BY <2>2, <1>4
  <2> QED
    BY <2>1, <2>3
<1> QED
  BY <1>5, <1>6

LEMMA ReadHeaderStep ==
  ASSUME IInv, ReadHeader
  PROVE  IInv'
<1>1. image' \in Images /\ pc = "header" /\ pc' = "row"
  BY DEF IInv, ReadHeader
<1>2. PixelsTypeOK'
  <2>1. has_alpha_channel' \in BOOLEAN /\ decode_to_half_float' \in BOOLEAN
    BY DEF ReadHeader, SetBitDepth, HeaderAvailable
  <2> QED
    BY <1>1, <2>1, HeaderFormat DEF IInv, PixelsTypeOK, ReadHeader, source, masks
<1>3. StartInv' /\ SawInv'
  BY <1>1 DEF IInv, StartInv, SawInv, ReadHeader, source, masks, Previous, Pixel
<1>4. (SourceInv /\ RowInv /\ MaskInv /\ RowIsExact /\ AlphaIsSeen)'
  BY <1>1 DEF SourceInv, RowInv, MaskInv, RowIsExact, AlphaIsSeen, Looping
<1> QED
  BY <1>1, <1>2, <1>3, <1>4 DEF IInv

LEMMA StartRowStep ==
  ASSUME IInv, StartRow
  PROVE  IInv'
<1> USE DEF IInv
<1>1. /\ image' = image /\ metadata' = metadata
      /\ done' = 0 /\ done = 0 /\ alpha_mask' = Bits(255)
      /\ current_buffer_saw_alpha' = current_buffer_saw_alpha
      /\ pc = "row" /\ pc' \in {"loads", "tail"} /\ src = "libpng"
      /\ ~decode_to_half_float
  BY DEF StartRow, StartInv
<1>2. /\ image' \in Images /\ image.width \in Nat /\ image.buffer_width \in Nat
      /\ image.width <= image.buffer_width
  BY <1>1, ImageTyped
<1>3. /\ DOMAIN dst_row = 0 .. image.buffer_width - 1
      /\ DOMAIN dst_row' = DOMAIN dst_row
  BY DEF PixelsTypeOK, StartRow
<1>4. \A x : Source(x)' = Source(x) /\ Written(x)' = Written(x)
             /\ Previous(x)' = Previous(x)
  BY <1>1, RowKept
<1>5. ColorTransform' = ColorTransform /\ load' = load /\ Columns' = Columns
  BY <1>1, RowKept
<1>6. PixelsTypeOK'
  <2>1. src' \in {"libpng", "scanline", "buffer"}
    BY <1>1 DEF StartRow, source
  <2>2. Bits(255) \subseteq 1 .. 8
    BY BitsOfByte DEF Byte
  <2> QED
    BY <1>1, <1>2, <1>3, <2>1, <2>2 DEF PixelsTypeOK, metadata
<1>7. SourceInv' /\ RowInv'
  <2>1. CASE ~has_alpha_channel \/ ~ColorTransform
    <3>1. src' = "libpng" /\ dst_row' = dst_row
      BY <1>1, <2>1 DEF StartRow, source
    <3> QED
      BY <1>1, <1>2, <1>3, <1>4, <1>5, <2>1, <3>1
      DEF SourceInv, RowInv, StartInv, metadata
  <2>2. CASE has_alpha_channel /\ ColorTransform /\ image.blend
    <3>1. /\ src' = "scanline" /\ dst_row' = dst_row
          /\ color_transform_scanline' = [x \in Columns |-> Transform(Delivered(x))]
      BY <2>2 DEF StartRow
    <3>2. \A x \in Columns : color_transform_scanline'[x] = Source(x)
      BY <2>2, <3>1, TransformedOnce DEF Source
    <3> QED
      BY <1>1, <1>2, <1>3, <1>4, <1>5, <2>2, <3>1, <3>2
      DEF SourceInv, RowInv, StartInv, metadata
  <2>3. CASE has_alpha_channel /\ ColorTransform /\ ~image.blend
    <3>1. /\ src' = "buffer"
          /\ dst_row' = [x \in DOMAIN dst_row |->
               IF x \in Columns THEN Transform(Delivered(x)) ELSE dst_row[x]]
      BY <2>3 DEF StartRow
    <3>2. \A x \in DOMAIN dst_row :
            dst_row'[x] = IF x \in Columns THEN Source(x) ELSE dst_row[x]
      BY <2>3, <3>1, TransformedOnce DEF Source
    <3>3. \A x \in DOMAIN dst_row : x \in Columns <=> x < image.width
      BY <1>2, <1>3 DEF Columns
    <3> QED
      BY <1>1, <1>2, <1>3, <1>4, <1>5, <2>3, <3>1, <3>2, <3>3
      DEF SourceInv, RowInv, StartInv, metadata
  <2> QED
    BY <2>1, <2>2, <2>3
<1>8. MaskInv'
  <2>1. Bits(255) = 1 .. 8
    BY SMTT(30) DEF Bits, Weight
  <2>2. /\ DOMAIN lanes' = 0 .. load - 1
        /\ \A l \in DOMAIN lanes' : lanes'[l] = Bits(255)
        /\ pc' = "loads" => load # 1
    BY DEF StartRow
  <2>3. \A b \in 1 .. 8 : SeenSet(b)'
    BY <1>1 DEF SeenSet
  <2> QED
    BY <1>1, <1>5, <2>1, <2>2, <2>3, LoadTyped DEF MaskInv
<1>9. (StartInv /\ SawInv /\ RowIsExact /\ AlphaIsSeen)'
  BY <1>1 DEF StartInv, SawInv, RowIsExact, AlphaIsSeen
<1> QED
  BY <1>2, <1>6, <1>7, <1>8, <1>9

(* A load writes what one pixel after the other would.                     *)
LEMMA StoredIsWritten ==
  ASSUME IInv, pc = "loads", done + load <= image.width,
         NEW x \in done .. done + load - 1,
         NEW opaque \in BOOLEAN, opaque => image.row[x].alpha = 255
  PROVE  StoredPixel(x, opaque) = Written(x)
<1>1. /\ x \in done .. image.width - 1 /\ x \in Columns
  BY ImageTyped, LoadTyped DEF IInv, PixelsTypeOK, Columns
<1>2. SrcPixel(x) = Source(x)
  BY <1>1, SourceIsRead DEF Looping
<1>3. ~(has_alpha_channel /\ image.blend)
  BY LoadTyped DEF IInv, MaskInv
<1>4. image.row[x].colour \in Byte /\ image.row[x].alpha \in Byte
  BY <1>1, ImageTyped DEF IInv
<1>5. CASE ~has_alpha_channel
  BY <1>2, <1>5 DEF StoredPixel, Source, Written, Pixel
<1>6. CASE has_alpha_channel /\ image.premultiply /\ ~opaque
  <2>1. Premultiply(image.row[x].colour, image.row[x].alpha)
          = Rounded(image.row[x].colour, image.row[x].alpha)
    BY <1>4, PremultiplyRounds
  <2> QED
    BY <1>2, <1>3, <1>6, <2>1 DEF StoredPixel, Source, Written, Pixel
<1>7. CASE has_alpha_channel /\ image.premultiply /\ opaque
  <2>1. Rounded(image.row[x].colour, image.row[x].alpha) = image.row[x].colour
    BY <1>4, <1>7, OpaqueIsUnscaled
  <2> QED
    BY <1>2, <1>3, <1>7, <2>1 DEF StoredPixel, Source, Written, Pixel
<1>8. CASE has_alpha_channel /\ ~image.premultiply
  BY <1>2, <1>3, <1>8 DEF StoredPixel, Source, Written, Pixel
<1> QED
  BY <1>5, <1>6, <1>7, <1>8

LEMMA LoadPixelsStep ==
  ASSUME IInv, LoadPixels
  PROVE  IInv'
<1> USE DEF IInv
<1> DEFINE opaque == \A l \in 0 .. load - 1 : SrcPixel(done + l).alpha = 255
<1>1. /\ image' = image /\ metadata' = metadata /\ source' = source
      /\ alpha_mask' = alpha_mask
      /\ current_buffer_saw_alpha' = current_buffer_saw_alpha
      /\ pc = "loads" /\ pc' = "loads"
      /\ done' = done + load /\ done + load <= image.width
  BY DEF LoadPixels
<1>2. /\ image' \in Images /\ image.width \in Nat /\ image.buffer_width \in Nat
      /\ image.width <= image.buffer_width
      /\ done \in Nat /\ load \in {2, 4, 8, 16}
  BY <1>1, ImageTyped DEF PixelsTypeOK, MaskInv
<1>3. /\ DOMAIN dst_row = 0 .. image.buffer_width - 1
      /\ dst_row' = [x \in DOMAIN dst_row |->
           IF x \in done .. done + load - 1 THEN StoredPixel(x, opaque)
                                            ELSE dst_row[x]]
  BY DEF PixelsTypeOK, LoadPixels
<1>4. \A x : Source(x)' = Source(x) /\ Written(x)' = Written(x)
             /\ Previous(x)' = Previous(x)
  BY <1>1, RowKept
<1>5. ColorTransform' = ColorTransform /\ load' = load /\ Columns' = Columns
  BY <1>1, RowKept
<1>6. ASSUME NEW x \in done .. done + load - 1
      PROVE  SrcPixel(x) = Source(x) /\ Source(x).alpha = image.row[x].alpha
  <2>1. x \in done .. image.width - 1
    BY <1>1, <1>2
  <2> QED
    BY <1>1, <2>1, SourceIsRead DEF Looping, Source, Pixel
<1>7. ASSUME NEW x \in done .. done + load - 1
      PROVE  StoredPixel(x, opaque) = Written(x)
  <2>1. ASSUME opaque PROVE image.row[x].alpha = 255
    <3>1. x - done \in 0 .. load - 1 /\ done + (x - done) = x
      BY <1>2
    <3>2. SrcPixel(x).alpha = 255
      BY <2>1, <3>1
    <3> QED
      BY <1>6, <3>2
  <2>2. opaque \in BOOLEAN
    OBVIOUS
  <2> HIDE DEF opaque
  <2> QED
    BY <1>1, <2>1, <2>2, StoredIsWritten
<1> HIDE DEF opaque
<1>8. PixelsTypeOK'
  BY <1>1, <1>2, <1>3 DEF PixelsTypeOK, metadata, source
<1>9. SourceInv'
  <2>1. \A x \in DOMAIN dst_row : done + load <= x => dst_row'[x] = dst_row[x]
    BY <1>2, <1>3
  <2>2. \A x \in DOMAIN dst_row : done + load <= x => done <= x
    BY <1>2, <1>3
  <2> QED
    BY <1>1, <1>3, <1>4, <1>5, <2>1, <2>2
    DEF SourceInv, Looping, metadata, source
<1>10. RowInv'
  <2>1. \A x \in DOMAIN dst_row : x < done + load /\ ~(x < done) =>
          dst_row'[x] = Written(x)
    BY <1>2, <1>3, <1>7
  <2>2. \A x \in DOMAIN dst_row : x < done \/ x >= image.width =>
          dst_row'[x] = dst_row[x]
    BY <1>1, <1>2, <1>3
  <2>3. ASSUME NEW x \in DOMAIN dst_row
        PROVE  /\ x < done + load => dst_row'[x] = Written(x)
               /\ x >= image.width => dst_row'[x] = Previous(x)
    BY <1>1, <2>1, <2>2 DEF RowInv, Looping
  <2>4. ~decode_to_half_float' /\ DOMAIN dst_row' = DOMAIN dst_row
    BY <1>1, <1>3 DEF RowInv, Looping, metadata
  <2> QED
    BY <1>1, <1>4, <2>3, <2>4 DEF RowInv
<1>11. MaskInv'
  <2>1. lanes' = [l \in DOMAIN lanes |->
                    lanes[l] \cap Bits(SrcPixel(done + l).alpha)]
    BY DEF LoadPixels
  <2>2. DOMAIN lanes = 0 .. load - 1
    BY <1>1 DEF MaskInv
  <2>3. ASSUME NEW l \in 0 .. load - 1
        PROVE  lanes'[l] = lanes[l] \cap Bits(image.row[done + l].alpha)
    <3>1. done + l \in done .. done + load - 1
      BY <1>2
    <3> QED
      BY <1>6, <2>1, <2>2, <3>1
  <2>4. ASSUME NEW b \in 1 .. 8
        PROVE  (\A l \in 0 .. load - 1 : b \in lanes'[l]) <=> SeenSet(b)'
    <3>1. (\A l \in 0 .. load - 1 : b \in lanes[l])
            <=> \A x \in 0 .. done - 1 : b \in Bits(image.row[x].alpha)
      BY <1>1, <2>2 DEF MaskInv, SeenSet
    <3>2. (\A l \in 0 .. load - 1 : b \in Bits(image.row[done + l].alpha))
            <=> \A x \in done .. done + load - 1 : b \in Bits(image.row[x].alpha)
      <4>1. ASSUME \A l \in 0 .. load - 1 : b \in Bits(image.row[done + l].alpha),
                   NEW x \in done .. done + load - 1
            PROVE  b \in Bits(image.row[x].alpha)
        <5>1. x - done \in 0 .. load - 1 /\ done + (x - done) = x
          BY <1>2
        <5> QED
          BY <4>1, <5>1
      <4>2. ASSUME NEW l \in 0 .. load - 1
            PROVE  done + l \in done .. done + load - 1
        BY <1>2
      <4> QED
        BY <4>1, <4>2
    <3>3. \A x : x \in 0 .. done + load - 1
            <=> x \in 0 .. done - 1 \/ x \in done .. done + load - 1
      BY <1>2
    <3>4. SeenSet(b)' <=> \A x \in 0 .. done + load - 1 : b \in Bits(image.row[x].alpha)
      <4>1. 0 .. done' - 1 = 0 .. done + load - 1
        BY <1>1, <1>2
      <4>2. image'.row = image.row
        BY <1>1
      <4> QED
        BY <4>1, <4>2 DEF SeenSet
    <3>5. (\A l \in 0 .. load - 1 : b \in lanes'[l])
            <=> /\ \A l \in 0 .. load - 1 : b \in lanes[l]
                /\ \A l \in 0 .. load - 1 : b \in Bits(image.row[done + l].alpha)
      BY <2>3
    <3> QED
      BY <3>1, <3>2, <3>3, <3>4, <3>5
  <2>5. DOMAIN lanes' = 0 .. load - 1
    BY <2>1, <2>2
  <2> QED
    BY <1>1, <1>2, <1>5, <2>4, <2>5 DEF MaskInv
<1>12. (StartInv /\ SawInv /\ RowIsExact /\ AlphaIsSeen)'
  BY <1>1 DEF StartInv, SawInv, RowIsExact, AlphaIsSeen
<1> QED
  BY <1>2, <1>8, <1>9, <1>10, <1>11, <1>12

LEMMA LoadsEndStep ==
  ASSUME IInv, LoadsEnd
  PROVE  IInv'
<1> USE DEF IInv
<1>1. /\ image' = image /\ metadata' = metadata /\ source' = source
      /\ dst_row' = dst_row /\ done' = done /\ masks' = masks
      /\ current_buffer_saw_alpha' = current_buffer_saw_alpha
      /\ pc = "loads" /\ pc' = "lanes"
  BY DEF LoadsEnd
<1>2. \A x : Source(x)' = Source(x) /\ Written(x)' = Written(x)
             /\ Previous(x)' = Previous(x)
  BY <1>1, RowKept
<1>3. ColorTransform' = ColorTransform /\ load' = load /\ Columns' = Columns
  BY <1>1, RowKept
<1>4. PixelsTypeOK'
  BY <1>1 DEF PixelsTypeOK, metadata, source, masks
<1>5. SourceInv' /\ RowInv'
  BY <1>1, <1>2, <1>3 DEF SourceInv, RowInv, Looping, metadata, source
<1>6. MaskInv'
  BY <1>1 DEF MaskInv, SeenSet, masks
<1>7. (StartInv /\ SawInv /\ RowIsExact /\ AlphaIsSeen)'
  BY <1>1 DEF StartInv, SawInv, RowIsExact, AlphaIsSeen
<1> QED
  BY <1>1, <1>4, <1>5, <1>6, <1>7

LEMMA AndLanesStep ==
  ASSUME IInv, AndLanes
  PROVE  IInv'
<1> USE DEF IInv
<1>1. /\ image' = image /\ metadata' = metadata /\ source' = source
      /\ dst_row' = dst_row /\ done' = done
      /\ current_buffer_saw_alpha' = current_buffer_saw_alpha
      /\ pc = "lanes"
  BY DEF AndLanes
<1>2. \A x : Source(x)' = Source(x) /\ Written(x)' = Written(x)
             /\ Previous(x)' = Previous(x)
  BY <1>1, RowKept
<1>3. ColorTransform' = ColorTransform /\ load' = load /\ Columns' = Columns
  BY <1>1, RowKept
<1>4. PICK n \in {1, 2, 4, 8, 16} : DOMAIN lanes = 0 .. n - 1
  BY <1>1 DEF MaskInv
<1>5. Cardinality(DOMAIN lanes) = n
  <2>1. n - 1 \in Int /\ 0 \in Int /\ ~(0 > n - 1) /\ n - 1 - 0 + 1 = n
    OBVIOUS
  <2>2. Cardinality(0 .. n - 1) = IF 0 > n - 1 THEN 0 ELSE n - 1 - 0 + 1
    BY <2>1, FS_Interval
  <2> QED
    BY <1>4, <2>1, <2>2
<1>6. alpha_mask = 1 .. 8
  <2>1. Bits(255) = 1 .. 8
    BY SMTT(30) DEF Bits, Weight
  <2> QED
    BY <1>1, <2>1 DEF MaskInv
<1>7. \A b \in 1 .. 8 : (\A l \in 0 .. n - 1 : b \in lanes[l]) <=> SeenSet(b)
  BY <1>1, <1>4 DEF MaskInv
<1>8. \A b : SeenSet(b)' <=> SeenSet(b)
  BY <1>1 DEF SeenSet
<1>9. CASE n = 1
  <2>1. n \div 2 = 0
    BY <1>9
  <2>2. pc' = "tail" /\ alpha_mask' = alpha_mask \cap lanes[0]
    BY <1>5, <2>1 DEF AndLanes
  <2>3. \A b \in 1 .. 8 : b \in lanes[0] <=> SeenSet(b)
    BY <1>7, <1>9
  <2>4. MaskInv'
    BY <1>6, <1>8, <2>2, <2>3 DEF MaskInv
  <2>5. PixelsTypeOK'
    BY <1>1, <1>6, <2>2 DEF PixelsTypeOK, metadata, source
  <2>6. SourceInv' /\ RowInv'
    BY <1>1, <1>2, <1>3, <2>2 DEF SourceInv, RowInv, Looping, metadata, source
  <2>7. (StartInv /\ SawInv /\ RowIsExact /\ AlphaIsSeen)'
    BY <1>1, <2>2 DEF StartInv, SawInv, RowIsExact, AlphaIsSeen
  <2> QED
    BY <1>1, <2>4, <2>5, <2>6, <2>7
<1>10. CASE n # 1
  <2> DEFINE half == n \div 2
  <2>1. half \in {1, 2, 4, 8} /\ n = half + half
    BY <1>4, <1>10
  <2> HIDE DEF half
  <2>2. /\ lanes' = [l \in 0 .. half - 1 |-> lanes[l] \cap lanes[l + half]]
        /\ alpha_mask' = alpha_mask /\ pc' = "lanes"
    <3>1. Cardinality(DOMAIN lanes) \div 2 = half /\ half # 0
      BY <1>5, <2>1 DEF half
    <3> QED
      BY <1>1, <3>1 DEF AndLanes
  <2>3. ASSUME NEW b \in 1 .. 8
        PROVE  (\A l \in 0 .. half - 1 : b \in lanes'[l]) <=> SeenSet(b)
    <3>1. ASSUME \A l \in 0 .. half - 1 : b \in lanes[l] \cap lanes[l + half],
                 NEW l \in 0 .. n - 1
          PROVE  b \in lanes[l]
      <4>1. CASE l \in 0 .. half - 1
        BY <3>1, <4>1
      <4>2. CASE l - half \in 0 .. half - 1
        <5>1. (l - half) + half = l
          BY <2>1
        <5> QED
          BY <3>1, <4>2, <5>1
      <4> QED
        BY <2>1, <4>1, <4>2
    <3>2. ASSUME NEW l \in 0 .. half - 1
          PROVE  l \in 0 .. n - 1 /\ l + half \in 0 .. n - 1
      BY <2>1
    <3> QED
      BY <1>7, <2>2, <3>1, <3>2
  <2>4. MaskInv'
    BY <1>1, <1>8, <2>1, <2>2, <2>3 DEF MaskInv
  <2>5. PixelsTypeOK'
    BY <1>1, <1>6, <2>2 DEF PixelsTypeOK, metadata, source
  <2>6. SourceInv' /\ RowInv'
    BY <1>1, <1>2, <1>3, <2>2 DEF SourceInv, RowInv, Looping, metadata, source
  <2>7. (StartInv /\ SawInv /\ RowIsExact /\ AlphaIsSeen)'
    BY <1>1, <2>2 DEF StartInv, SawInv, RowIsExact, AlphaIsSeen
  <2> QED
    BY <1>1, <2>4, <2>5, <2>6, <2>7
<1> QED
  BY <1>9, <1>10

LEMMA TailPixelStep ==
  ASSUME IInv, TailPixel
  PROVE  IInv'
<1> USE DEF IInv
<1>1. /\ image' = image /\ metadata' = metadata /\ source' = source
      /\ current_buffer_saw_alpha' = current_buffer_saw_alpha
      /\ pc = "tail" /\ pc' = "tail"
      /\ done' = done + 1 /\ done < image.width
      /\ dst_row' = [dst_row EXCEPT ![done] = SetRGBA(done)]
      /\ alpha_mask' = IF has_alpha_channel
                         THEN alpha_mask \cap Bits(SrcPixel(done).alpha)
                         ELSE alpha_mask
  BY DEF TailPixel
<1>2. /\ image' \in Images /\ image.width \in Nat /\ image.buffer_width \in Nat
      /\ image.width <= image.buffer_width /\ done \in Nat
  BY <1>1, ImageTyped DEF PixelsTypeOK
<1>3. DOMAIN dst_row = 0 .. image.buffer_width - 1 /\ done \in DOMAIN dst_row
  BY <1>1, <1>2 DEF PixelsTypeOK
<1>4. \A x : Source(x)' = Source(x) /\ Written(x)' = Written(x)
             /\ Previous(x)' = Previous(x)
  BY <1>1, RowKept
<1>5. ColorTransform' = ColorTransform /\ load' = load /\ Columns' = Columns
  BY <1>1, RowKept
<1>6. SrcPixel(done) = Source(done)
  <2>1. done \in done .. image.width - 1
    BY <1>1, <1>2
  <2> QED
    BY <1>1, <2>1, SourceIsRead DEF Looping
<1>7. SetRGBA(done) = Written(done)
  <2>1. CASE ~has_alpha_channel
    BY <1>6, <2>1 DEF SetRGBA, Source, Written, Pixel
  <2>2. CASE has_alpha_channel
    <3> DEFINE c == image.row[done].colour
               a == image.row[done].alpha
               t == IF has_alpha_channel /\ ColorTransform THEN <<profile>> ELSE <<>>
               d == IF image.premultiply THEN Rounded(c, a) ELSE c
               u == IF image.blend THEN Previous(done) ELSE Nothing
    <3>1. image.blend => dst_row[done] = Previous(done)
      BY <1>1, <1>2, <1>3, <2>2 DEF SourceInv, Looping
    <3>2. SrcPixel(done) = Pixel(c, a, t, Nothing)
      BY <1>6 DEF Source
    <3>3. Written(done) = Pixel(d, a, t, u)
      BY <2>2 DEF Written
    <3>4. SetRGBA(done) = [Pixel(c, a, t, Nothing) EXCEPT !.colour = d, !.under = u]
      <4> HIDE DEF c, a, t
      <4>1. Pixel(c, a, t, Nothing).alpha = a /\ Pixel(c, a, t, Nothing).colour = c
              /\ Pixel(c, a, t, Nothing).under = Nothing
        BY DEF Pixel
      <4> QED
        BY <2>2, <3>1, <3>2, <4>1 DEF SetRGBA
    <3> HIDE DEF c, a, t, d, u
    <3> QED
      BY <3>3, <3>4 DEF Pixel
  <2> QED
    BY <2>1, <2>2
<1>8. PixelsTypeOK'
  <2>1. alpha_mask' \subseteq 1 .. 8
    BY <1>1 DEF PixelsTypeOK
  <2> QED
    BY <1>1, <1>2, <1>3, <2>1 DEF PixelsTypeOK, metadata, source
<1>9. SourceInv'
  <2>1. \A x \in DOMAIN dst_row : done + 1 <= x => dst_row'[x] = dst_row[x] /\ done <= x
    BY <1>1, <1>2, <1>3
  <2> QED
    BY <1>1, <1>3, <1>4, <1>5, <2>1 DEF SourceInv, Looping, metadata, source
<1>10. RowInv'
  <2>1. dst_row'[done] = Written(done)
    BY <1>1, <1>3, <1>7
  <2>2. ASSUME NEW x \in DOMAIN dst_row, x # done
        PROVE  dst_row'[x] = dst_row[x] /\ (x < done + 1 => x < done)
    BY <1>1, <1>2, <1>3, <2>2
  <2>3. ASSUME NEW x \in DOMAIN dst_row
        PROVE  /\ x < done + 1 => dst_row'[x] = Written(x)
               /\ x >= image.width => dst_row'[x] = Previous(x)
    <3>1. CASE x = done
      BY <1>1, <1>2, <2>1, <3>1
    <3>2. CASE x # done
      BY <1>1, <2>2, <3>2 DEF RowInv, Looping
    <3> QED
      BY <3>1, <3>2
  <2>4. ~decode_to_half_float' /\ DOMAIN dst_row' = DOMAIN dst_row
    BY <1>1, <1>3 DEF RowInv, Looping, metadata
  <2> QED
    BY <1>1, <1>4, <2>3, <2>4 DEF RowInv
<1>11. MaskInv'
  <2>1. CASE has_alpha_channel
    <3>1. alpha_mask' = alpha_mask \cap Bits(image.row[done].alpha)
      BY <1>1, <1>6, <2>1 DEF Source, Pixel
    <3>2. ASSUME NEW b \in 1 .. 8
          PROVE  b \in alpha_mask' <=> SeenSet(b)'
      <4>1. b \in alpha_mask <=> \A x \in 0 .. done - 1 : b \in Bits(image.row[x].alpha)
        BY <1>1, <2>1 DEF MaskInv, SeenSet
      <4>2. \A x : x \in 0 .. done <=> x \in 0 .. done - 1 \/ x = done
        BY <1>2
      <4>3. 0 .. done' - 1 = 0 .. done /\ image'.row = image.row
        BY <1>1, <1>2
      <4>4. SeenSet(b)' <=> \A x \in 0 .. done : b \in Bits(image.row[x].alpha)
        BY <4>3 DEF SeenSet
      <4> QED
        BY <3>1, <4>1, <4>2, <4>4
    <3> QED
      BY <1>1, <3>2 DEF MaskInv
  <2>2. CASE ~has_alpha_channel
    BY <1>1, <2>2 DEF MaskInv, metadata
  <2> QED
    BY <2>1, <2>2
<1>12. (StartInv /\ SawInv /\ RowIsExact /\ AlphaIsSeen)'
  BY <1>1 DEF StartInv, SawInv, RowIsExact, AlphaIsSeen
<1> QED
  BY <1>2, <1>8, <1>9, <1>10, <1>11, <1>12

LEMMA EndRowStep ==
  ASSUME IInv, EndRow
  PROVE  IInv'
<1> USE DEF IInv
<1>1. /\ image' = image /\ metadata' = metadata /\ source' = source
      /\ done' = done /\ done = image.width /\ masks' = masks
      /\ pc = "tail" /\ pc' = "done"
      /\ current_buffer_saw_alpha' =
           (current_buffer_saw_alpha \/ (has_alpha_channel /\ alpha_mask # Bits(255)))
      /\ dst_row' = [x \in DOMAIN dst_row |->
           IF ~has_alpha_channel /\ ColorTransform /\ x \in Columns
             THEN Transform(dst_row[x]) ELSE dst_row[x]]
  BY DEF EndRow
<1>2. /\ image' \in Images /\ image.width \in Nat /\ image.buffer_width \in Nat
      /\ image.width <= image.buffer_width
  BY <1>1, ImageTyped
<1>3. DOMAIN dst_row = 0 .. image.buffer_width - 1 /\ DOMAIN dst_row' = DOMAIN dst_row
  BY <1>1 DEF PixelsTypeOK
<1>4. PixelsTypeOK'
  <2>1. current_buffer_saw_alpha' \in BOOLEAN
    BY <1>1
  <2> QED
    BY <1>1, <1>3, <2>1 DEF PixelsTypeOK, metadata, source, masks
<1>5. \A x : Expected(x)' = Expected(x)
  BY <1>1 DEF Expected, metadata, Columns, Previous, Pixel, ColorTransform
<1>6. RowIsExact'
  <2>1. ASSUME NEW x \in DOMAIN dst_row PROVE dst_row'[x] = Expected(x)
    <3>1. CASE x \notin Columns
      <4>1. x >= image.width
        BY <1>2, <1>3, <3>1 DEF Columns
      <4> QED
        BY <1>1, <3>1, <4>1 DEF RowInv, Looping, Expected
    <3>2. CASE x \in Columns /\ (has_alpha_channel \/ ~ColorTransform)
      <4>1. x < done
        BY <1>1, <1>2, <3>2 DEF Columns
      <4> QED
        BY <1>1, <3>2, <4>1 DEF RowInv, Looping, Expected, Written
    <3>3. CASE x \in Columns /\ ~has_alpha_channel /\ ColorTransform
      <4>1. x < done
        BY <1>1, <1>2, <3>3 DEF Columns
      <4>2. dst_row[x] = Pixel(image.row[x].colour, 255, <<>>, Nothing)
        BY <1>1, <3>3, <4>1 DEF RowInv, Looping, Written
      <4>3. Append(<<>>, profile) = <<profile>>
        OBVIOUS
      <4>4. dst_row'[x] = Pixel(image.row[x].colour, 255, <<profile>>, Nothing)
        BY <1>1, <3>3, <4>2, <4>3 DEF Transform, Pixel
      <4> QED
        BY <3>3, <4>4 DEF Expected
    <3> QED
      BY <3>1, <3>2, <3>3
  <2> QED
    BY <1>3, <1>5, <2>1 DEF RowIsExact
<1>7. AlphaIsSeen'
  <2>1. ~decode_to_half_float
    BY <1>1 DEF RowInv, Looping
  <2>2. has_alpha_channel => (alpha_mask # Bits(255)
                                <=> \E x \in Columns : image.row[x].alpha # 255)
    <3> SUFFICES ASSUME has_alpha_channel
                 PROVE  alpha_mask = Bits(255)
                          <=> \A x \in Columns : image.row[x].alpha = 255
      OBVIOUS
    <3>1. Bits(255) = 1 .. 8
      BY SMTT(30) DEF Bits, Weight
    <3>2. alpha_mask = Bits(255) <=> \A b \in 1 .. 8 : SeenSet(b)
      BY <1>1, <3>1 DEF MaskInv, PixelsTypeOK
    <3>3. (\A b \in 1 .. 8 : SeenSet(b))
            <=> \A x \in Columns : \A b \in 1 .. 8 : b \in Bits(image.row[x].alpha)
      BY <1>1 DEF SeenSet, Columns
    <3>4. ASSUME NEW x \in Columns
          PROVE  (\A b \in 1 .. 8 : b \in Bits(image.row[x].alpha))
                   <=> image.row[x].alpha = 255
      <4>1. image.row[x].alpha \in Byte
        BY ImageTyped
      <4> QED
        BY <3>1, <4>1, BitsOfByte
    <3> QED
      BY <3>2, <3>3, <3>4
  <2>3. current_buffer_saw_alpha = image.saw_alpha
    BY <1>1 DEF SawInv
  <2>4. decode_to_half_float' = decode_to_half_float
          /\ has_alpha_channel' = has_alpha_channel /\ Columns' = Columns
    BY <1>1 DEF metadata, Columns
  <2> QED
    BY <1>1, <2>1, <2>2, <2>3, <2>4 DEF AlphaIsSeen
<1>8. (StartInv /\ SourceInv /\ RowInv /\ MaskInv /\ SawInv)'
  BY <1>1 DEF StartInv, SourceInv, RowInv, MaskInv, SawInv, Looping
<1> QED
  BY <1>2, <1>4, <1>6, <1>7, <1>8

LEMMA HalfFloatRowStep ==
  ASSUME IInv, HalfFloatRow
  PROVE  IInv'
<1> USE DEF IInv
<1>1. /\ image' = image /\ metadata' = metadata /\ source' = source
      /\ done' = done /\ masks' = masks
      /\ pc = "row" /\ pc' = "done" /\ decode_to_half_float
      /\ current_buffer_saw_alpha' = has_alpha_channel
  BY DEF HalfFloatRow
<1>2. DOMAIN dst_row' = DOMAIN dst_row
  BY DEF HalfFloatRow
<1>3. has_alpha_channel' \in BOOLEAN /\ has_alpha_channel' = has_alpha_channel
  BY <1>1 DEF metadata, PixelsTypeOK
<1>4. PixelsTypeOK'
  BY <1>1, <1>2, <1>3 DEF PixelsTypeOK, metadata, source, masks
<1>5. \A x : Expected(x)' = Expected(x)
  BY <1>1 DEF Expected, metadata, Columns, Previous, Pixel, ColorTransform
<1>6. RowIsExact'
  <2>1. ASSUME NEW x \in DOMAIN dst_row PROVE dst_row'[x] = Expected(x)
    <3>1. CASE x \notin Columns
      BY <1>1, <3>1 DEF HalfFloatRow, StartInv, Expected
    <3>2. CASE x \in Columns
      BY <1>1, <3>2 DEF HalfFloatRow, Expected, Delivered, Pixel
    <3> QED
      BY <3>1, <3>2
  <2> QED
    BY <1>2, <1>5, <2>1 DEF RowIsExact
<1>7. AlphaIsSeen'
  BY <1>1, <1>3 DEF AlphaIsSeen, metadata
<1>8. (StartInv /\ SourceInv /\ RowInv /\ MaskInv /\ SawInv)'
  BY <1>1 DEF StartInv, SourceInv, RowInv, MaskInv, SawInv, Looping
<1> QED
  BY <1>1, <1>4, <1>6, <1>7, <1>8

-----------------------------------------------------------------------------
(* The unknown chunks.                                                     *)

HdrKinds == {"cta_861_3", "smpte_st_2086", "agtm"}
NoMetadata == [kind \in HdrKinds |-> 0]

(* Of the chunks at the positions in s, those of a kind that can be used.  *)
CanBeUsed(c) ==
  c.name \in KeptUnknown /\ (c.valid \/ HdrKind(c.name) = "agtm")

Usable(kind, s) ==
  {k \in s : HdrKind(image.chunks[k].name) = kind /\ CanBeUsed(image.chunks[k])}

Latest(s) == [kind \in HdrKinds |-> Max(Usable(kind, s) \cup {0})]

(* One turn of the loop adds its chunk to what the earlier ones gave.      *)
LEMMA LatestGrows ==
  ASSUME NEW n \in Nat, NEW s, s \subseteq 1 .. n, s # {}
  PROVE  /\ Max(s) \in s
         /\ Latest(s) = ReadHdrChunk(Latest(s \ {Max(s)}), Max(s))
<1> DEFINE x == Max(s)
           kind0 == HdrKind(image.chunks[x].name)
           rest == s \ {x}
<1>1. x \in s /\ \A y \in s : y <= x
  <2>1. s \subseteq 0 .. n
    OBVIOUS
  <2> QED
    BY <2>1, GreatestNatural
<1> HIDE DEF x
<1>2. x \in 1 .. n /\ x \in Int
  BY <1>1
<1>3. kind0 \in HdrKinds \cup {Nothing} /\ Nothing \notin HdrKinds
  BY DEF HdrKind, HdrKinds, Nothing
<1>4. CASE kind0 = Nothing \/ ~CanBeUsed(image.chunks[x])
  <2>1. ASSUME NEW kind \in HdrKinds PROVE Usable(kind, s) = Usable(kind, rest)
    BY <1>3, <1>4 DEF Usable
  <2>2. Latest(s) = Latest(rest)
    BY <2>1 DEF Latest
  <2> QED
    BY <1>1, <1>4, <2>2 DEF ReadHdrChunk, CanBeUsed, x
<1>5. CASE ~(kind0 = Nothing \/ ~CanBeUsed(image.chunks[x]))
  <2>1. ASSUME NEW kind \in HdrKinds, kind # kind0
        PROVE  Usable(kind, s) = Usable(kind, rest)
    BY <2>1 DEF Usable
  <2>2. Max(Usable(kind0, s) \cup {0}) = x
    <3>1. x \in Usable(kind0, s) \cup {0}
      BY <1>1, <1>5 DEF Usable
    <3>2. \A y \in Usable(kind0, s) \cup {0} : y \in Int /\ y <= x
      <4>1. Usable(kind0, s) \subseteq s
        BY DEF Usable
      <4> HIDE DEF kind0
      <4> QED
        <5>1. s \subseteq 1 .. n
          OBVIOUS
        <5>2. \A y \in s : y \in Int /\ y <= x
          BY <1>1, <5>1
        <5>3. 0 \in Int /\ 0 <= x
          BY <1>2
        <5> QED
          BY <4>1, <5>2, <5>3
    <3> QED
      BY <1>2, <3>1, <3>2, MaxIs
  <2>3. ReadHdrChunk(Latest(rest), x) = [Latest(rest) EXCEPT ![kind0] = x]
    BY <1>5 DEF ReadHdrChunk, CanBeUsed
  <2>4. ASSUME NEW kind \in HdrKinds
        PROVE  Max(Usable(kind, s) \cup {0}) = [Latest(rest) EXCEPT ![kind0] = x][kind]
    <3>1. CASE kind = kind0
      BY <2>2, <3>1 DEF Latest
    <3>2. CASE kind # kind0
      BY <2>1, <3>2 DEF Latest
    <3> QED
      BY <3>1, <3>2
  <2>5. Latest(s) = [Latest(rest) EXCEPT ![kind0] = x]
    BY <2>4 DEF Latest
  <2> QED
    BY <1>1, <2>3, <2>5 DEF x
<1> QED
  BY <1>4, <1>5

(* The whole loop.                                                         *)
LEMMA MetadataIsLatest ==
  ASSUME NEW n \in Nat
  PROVE  FoldLeft(ReadHdrChunk, NoMetadata, [k \in 1 .. n |-> k]) = Latest(1 .. n)
<1> DEFINE seq == [k \in 1 .. n |-> k]
           D == DOMAIN seq
           Body(f, s) == IF s = {} THEN NoMetadata
                         ELSE ReadHdrChunk(f[s \ {Max(s)}], seq[Max(s)])
           iter == CHOOSE f : f = [s \in SUBSET D |-> Body(f, s)]
           W == [s \in SUBSET D |-> Latest(s)]
<1>1. FoldLeft(ReadHdrChunk, NoMetadata, seq) = iter[D]
  BY DEF FoldLeft, MapThenFoldSet
<1>2. D = 1 .. n
  OBVIOUS
<1>3. Latest({}) = NoMetadata
  <2>1. \A kind \in HdrKinds : Usable(kind, {}) \cup {0} = {0}
    BY DEF Usable
  <2>2. Max({0}) = 0
    BY DEF Max
  <2> QED
    BY <2>1, <2>2 DEF Latest, NoMetadata
<1>4. ASSUME NEW s \in SUBSET D, s # {}
      PROVE  /\ Max(s) \in s /\ seq[Max(s)] = Max(s) /\ s \ {Max(s)} \in SUBSET D
             /\ Latest(s) = ReadHdrChunk(Latest(s \ {Max(s)}), Max(s))
  <2>1. Max(s) \in s /\ Latest(s) = ReadHdrChunk(Latest(s \ {Max(s)}), Max(s))
    BY <1>2, <1>4, LatestGrows
  <2>2. Max(s) \in 1 .. n
    BY <1>2, <2>1
  <2> QED
    BY <2>1, <2>2
<1> HIDE DEF D, seq
<1>5. W = [s \in SUBSET D |-> Body(W, s)]
  <2>1. ASSUME NEW s \in SUBSET D PROVE Latest(s) = Body(W, s)
    <3>1. CASE s = {}
      BY <1>3, <3>1
    <3>2. CASE s # {}
      BY <1>4, <3>2
    <3> QED
      BY <3>1, <3>2
  <2> QED
    BY <2>1
<1>6. iter = [s \in SUBSET D |-> Body(iter, s)]
  <2> HIDE DEF W, Body
  <2> QED
    BY <1>5
<1> HIDE DEF iter
<1> DEFINE S == {m \in Nat : \A s \in SUBSET D : s \subseteq 1 .. m => iter[s] = Latest(s)}
<1>7. 0 \in S
  <2>1. ASSUME NEW s \in SUBSET D, s \subseteq 1 .. 0 PROVE iter[s] = Latest(s)
    <3>1. s = {}
      BY <2>1
    <3> QED
      BY <1>3, <1>6, <3>1
  <2> QED
    BY <2>1
<1>8. ASSUME NEW m \in Nat, m \in S PROVE m + 1 \in S
  <2>1. ASSUME NEW s \in SUBSET D, s \subseteq 1 .. m + 1 PROVE iter[s] = Latest(s)
    <3>1. CASE s = {}
      BY <1>3, <1>6, <3>1
    <3>2. CASE s # {}
      <4>1. s \ {Max(s)} \subseteq 1 .. m
        <5>1. s \subseteq 0 .. m + 1 /\ m + 1 \in Nat
          BY <2>1
        <5>2. Max(s) \in s /\ \A y \in s : y <= Max(s)
          BY <3>2, <5>1, GreatestNatural
        <5>3. Max(s) \in 1 .. m + 1
          BY <2>1, <5>2
        <5>4. \A y \in s \ {Max(s)} : y \in 1 .. m + 1 /\ y <= Max(s) /\ y # Max(s)
          BY <2>1, <5>2
        <5> QED
          BY <5>3, <5>4
      <4>2. iter[s \ {Max(s)}] = Latest(s \ {Max(s)})
        BY <1>4, <1>8, <3>2, <4>1
      <4> QED
        BY <1>4, <1>6, <3>2, <4>2
    <3> QED
      BY <3>1, <3>2
  <2> QED
    BY <2>1
<1>9. Nat \subseteq S
  <2> HIDE DEF S
  <2> QED
    BY <1>7, <1>8, SetInduction
<1>10. n \in S
  BY <1>9
<1> QED
  BY <1>1, <1>2, <1>10 DEF seq

(* The first cICP chunk that is valid is found if there is one.            *)
LEMMA CicpIsFound ==
  ASSUME NEW n \in Nat, n = Len(image.chunks),
         NEW k \in 1 .. n, ValidCicp(image.chunks[k])
  PROVE  SelectInSeq(image.chunks, ValidCicp) # 0
<1> DEFINE I == {i \in 1 .. Len(image.chunks) : ValidCicp(image.chunks[i])}
<1>1. I \subseteq Nat \ {0} /\ I # {}
  OBVIOUS
<1>2. SelectInSeq(image.chunks, ValidCicp) = IF I # {} THEN Min(I) ELSE 0
  BY DEF SelectInSeq
<1> HIDE DEF I
<1>3. \E x \in I : \A y \in I : x <= y
  BY <1>1, LeastNatural
<1>4. Min(I) \in I
  BY <1>3 DEF Min
<1> QED
  BY <1>1, <1>2, <1>4

ChunksInv ==
  /\ image \in Images
  /\ pc = "header" => hdr_metadata = NoMetadata
  /\ BrokenChunksAreIgnored

LEMMA ChunksStep ==
  ASSUME ChunksInv, [Next]_vars
  PROVE  ChunksInv'
<1>1. CASE ReadHeader
  <2> SUFFICES ASSUME ~image.ignores_color_space
               PROVE  ChunksInv'
    BY <1>1 DEF ReadHeader, ChunksInv, BrokenChunksAreIgnored
  <2> DEFINE n == Len(image.chunks)
  <2>1. n \in Nat /\ DOMAIN image.chunks = 1 .. n
    BY PixelsAssumption, LenProperties DEF ChunksInv, IsImage
  <2>2. /\ profile' = ReadColorProfile
        /\ hdr_metadata' = FoldLeft(ReadHdrChunk, NoMetadata, [k \in 1 .. n |-> k])
        /\ image' = image /\ image \in Images /\ pc' = "row"
    BY <1>1 DEF ReadHeader, SetColorSpace, ChunksInv
  <2>3. hdr_metadata' = Latest(1 .. n)
    BY <2>1, <2>2, MetadataIsLatest
  <2>4. ASSUME NEW kind \in {"cta_861_3", "smpte_st_2086"}
        PROVE  hdr_metadata'[kind] =
                 Max({k \in DOMAIN image.chunks :
                        HdrKind(image.chunks[k].name) = kind /\ image.chunks[k].valid}
                       \cup {0})
    <3>1. ASSUME NEW k \in 1 .. n, HdrKind(image.chunks[k].name) = kind
          PROVE  CanBeUsed(image.chunks[k]) <=> image.chunks[k].valid
      <4>1. image.chunks[k].valid \in BOOLEAN
        <5>1. image.chunks \in Seq([name : STRING, valid : BOOLEAN])
          BY PixelsAssumption DEF ChunksInv, IsImage
        <5>2. image.chunks[k] \in [name : STRING, valid : BOOLEAN]
          BY <2>1, <5>1, ElementOfSeq
        <5> QED
          BY <5>2
      <4> QED
        BY <2>4, <3>1, <4>1 DEF HdrKind, CanBeUsed, KeptUnknown, Nothing
    <3>2. Usable(kind, 1 .. n) = {k \in 1 .. n :
            HdrKind(image.chunks[k].name) = kind /\ image.chunks[k].valid}
      BY <3>1 DEF Usable
    <3> QED
      BY <2>1, <2>3, <3>2 DEF Latest, HdrKinds
  <2>8. hdr_metadata'["agtm"] = 0
    <3>1. Usable("agtm", 1 .. n) = {}
      <4>1. \A name \in KeptUnknown : HdrKind(name) # "agtm"
        BY DEF KeptUnknown, HdrKind, Nothing
      <4> QED
        BY <4>1 DEF Usable, CanBeUsed
    <3>2. Max({0}) = 0
      BY DEF Max
    <3> QED
      BY <2>3, <3>1, <3>2 DEF Latest, HdrKinds
  <2>5. image.srgb => profile' # NoProfile
    BY <2>2 DEF ReadColorProfile, NoProfile
  <2>6. ASSUME NEW k \in DOMAIN image.chunks, ValidCicp(image.chunks[k])
        PROVE  profile' # NoProfile /\ profile'[1] = "cICP"
    <3> DEFINE cicp == SelectInSeq(image.chunks, ValidCicp)
    <3>1. cicp # 0
      BY <2>1, <2>6, CicpIsFound
    <3>2. profile' = <<"cICP", cicp>>
      BY <2>2, <3>1 DEF ReadColorProfile
    <3> HIDE DEF cicp
    <3> QED
      BY <3>2 DEF NoProfile
  <2>7. BrokenChunksAreIgnored'
    BY <2>2, <2>4, <2>5, <2>6, <2>8 DEF BrokenChunksAreIgnored, HdrKind, ValidCicp
  <2> QED
    BY <2>2, <2>7 DEF ChunksInv
<1>2. CASE /\ UNCHANGED <<image, profile, hdr_metadata>>
           /\ \/ pc # "header" /\ pc' # "header"
              \/ UNCHANGED pc
  BY <1>2 DEF ChunksInv, BrokenChunksAreIgnored, HdrKind, ValidCicp
<1>3. StartRow \/ LoadPixels \/ LoadsEnd \/ AndLanes \/ TailPixel \/ EndRow
        \/ HalfFloatRow \/ UNCHANGED vars
      => /\ UNCHANGED <<image, profile, hdr_metadata>>
         /\ \/ pc # "header" /\ pc' # "header"
            \/ UNCHANGED pc
  BY DEF StartRow, LoadPixels, LoadsEnd, AndLanes, TailPixel, EndRow, HalfFloatRow,
         vars, metadata
<1> QED
  BY <1>1, <1>2, <1>3 DEF Next

-----------------------------------------------------------------------------

LEMMA StutterStep ==
  ASSUME IInv, UNCHANGED vars
  PROVE  IInv'
<1> USE DEF IInv
<1>1. /\ image' = image /\ metadata' = metadata /\ source' = source /\ pc' = pc
      /\ dst_row' = dst_row /\ done' = done /\ masks' = masks
      /\ current_buffer_saw_alpha' = current_buffer_saw_alpha
  BY DEF vars
<1>2. \A x : Source(x)' = Source(x) /\ Written(x)' = Written(x)
             /\ Previous(x)' = Previous(x)
  BY <1>1, RowKept
<1>3. ColorTransform' = ColorTransform /\ load' = load /\ Columns' = Columns
  BY <1>1, RowKept
<1>4. PixelsTypeOK' /\ StartInv' /\ SawInv'
  BY <1>1, <1>2 DEF PixelsTypeOK, StartInv, SawInv, metadata, source, masks
<1>5. SourceInv' /\ RowInv'
  BY <1>1, <1>2, <1>3 DEF SourceInv, RowInv, Looping, metadata, source
<1>6. MaskInv'
  BY <1>1, <1>3 DEF MaskInv, SeenSet, masks, metadata
<1>7. RowIsExact'
  BY <1>1, <1>2, <1>3 DEF RowIsExact, Expected, metadata, Pixel
<1>8. AlphaIsSeen'
  <2>1. /\ decode_to_half_float' = decode_to_half_float
        /\ has_alpha_channel' = has_alpha_channel
        /\ image'.row = image.row /\ image'.saw_alpha = image.saw_alpha
    BY <1>1 DEF metadata
  <2>2. CASE pc # "done"
    BY <1>1, <2>2 DEF AlphaIsSeen
  <2>3. CASE pc = "done"
    <3>1. current_buffer_saw_alpha =
            IF decode_to_half_float THEN has_alpha_channel
            ELSE \/ image.saw_alpha
                 \/ has_alpha_channel /\ \E x \in Columns : image.row[x].alpha # 255
      BY <2>3 DEF AlphaIsSeen
    <3> QED
      BY <1>1, <1>3, <2>1, <3>1, Zenon DEF AlphaIsSeen
  <2> QED
    BY <2>2, <2>3
<1> QED
  BY <1>1, <1>4, <1>5, <1>6, <1>7, <1>8

(* The inductive invariant.                                                *)
THEOREM PixelsInvariant == Spec => []IInv
<1>1. Init => IInv
  BY InitInv
<1>2. IInv /\ [Next]_vars => IInv'
  BY ReadHeaderStep, StartRowStep, LoadPixelsStep, LoadsEndStep, AndLanesStep,
     TailPixelStep, EndRowStep, HalfFloatRowStep, StutterStep DEF Next
<1> QED
  BY <1>1, <1>2, PTL DEF Spec

(* Libpng's rows have the format RowAvailable reads, of every image that   *)
(* PNG allows (HeaderAvailable).                                           *)
THEOREM PixelsTypeCorrect == Spec => []PixelsTypeOK
<1>1. IInv => PixelsTypeOK
  BY DEF IInv
<1> QED
  BY <1>1, PixelsInvariant, PTL

(* A finished row is exact in rows of every width, with loads of every     *)
(* size (RowAvailable and its loops).                                      *)
THEOREM RowsAreExact == Spec => []RowIsExact
<1>1. IInv => RowIsExact
  BY DEF IInv
<1> QED
  BY <1>1, PixelsInvariant, PTL

(* Whether a row has alpha is noted right, for every width and all loads   *)
(* (the lanes of alpha_mask_vector).                                       *)
THEOREM AlphasAreSeen == Spec => []AlphaIsSeen
<1>1. IInv => AlphaIsSeen
  BY DEF IInv
<1> QED
  BY <1>1, PixelsInvariant, PTL

(* The metadata is that of the last chunk of each kind that can be used,   *)
(* whatever broken ones surround it, and a broken cICP hides no profile.   *)
THEOREM ChunksAreRead == Spec => []BrokenChunksAreIgnored
<1>1. Init => ChunksInv
  BY DEF Init, ChunksInv, BrokenChunksAreIgnored, NoMetadata, HdrKinds
<1>2. ChunksInv /\ [Next]_vars => ChunksInv'
  BY ChunksStep
<1>3. ChunksInv => BrokenChunksAreIgnored
  BY DEF ChunksInv
<1> QED
  BY <1>1, <1>2, <1>3, PTL DEF Spec

=============================================================================
