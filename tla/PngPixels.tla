----------------------------- MODULE PngPixels -----------------------------
(***************************************************************************)
(* From libpng's row to the pixels of a frame: what PngImageDecoder learns *)
(* and asks of libpng when it has the header (SetBitDepth, SetColorSpace,  *)
(* HeaderAvailable), and what RowAvailable then does with a row, which     *)
(* module PngDecoder takes as one step.                                    *)
(*                                                                         *)
(* The row loops exist twice, pixel by pixel and in loads of eight or      *)
(* sixteen pixels for ARM, with the alphas of a load in the lanes of a     *)
(* vector.  The colour transform writes into the row of the buffer itself, *)
(* from where the loops read it back, unless what the row had there is     *)
(* still needed to blend over.                                             *)
(*                                                                         *)
(* A pixel has one colour channel; profiles is the list of the colour      *)
(* profiles it was transformed by, and under the pixel it was blended on.  *)
(***************************************************************************)
EXTENDS Integers, SequencesExt

CONSTANTS
  Images,
  PremultiplyLoad, RawLoad    \* the pixels of a load (the code: 8 and 16)

Byte == 0 .. 255
Nothing == "nothing"
NoProfile == <<"none">>

(* ihdr: the format PNG allows, trns: with a tRNS chunk; still: the        *)
(* repetition count was kAnimationNone when the bit depth was first asked  *)
(* for; chunks: the chunks of metadata in order, valid if they have the    *)
(* size and values their format asks for; srgb,                            *)
(* iccp, gama, chrm: what libpng knows of these; neon: the build; row:     *)
(* what libpng delivers; the buffer may be wider than the frame.           *)
Formats ==
  {[color_type |-> t, bit_depth |-> d, trns |-> x] :
     t \in {"gray", "rgb", "palette"}, d \in {1, 2, 4, 8, 16}, x \in BOOLEAN}
    \cup {[color_type |-> t, bit_depth |-> d, trns |-> FALSE] :
            t \in {"gray_alpha", "rgb_alpha"}, d \in {8, 16}}

IsFormat(h) ==
  /\ h \in Formats
  /\ h.color_type = "rgb" => h.bit_depth >= 8
  /\ h.color_type = "palette" => h.bit_depth <= 8

IsImage(f) ==
  /\ IsFormat(f.ihdr)
  /\ f.chunks \in Seq([name : STRING, valid : BOOLEAN])
  /\ {f.half_float_option, f.still, f.ignores_color_space, f.srgb, f.neon,
      f.blend, f.premultiply, f.saw_alpha} \subseteq BOOLEAN
  /\ {f.iccp, f.gama, f.chrm} \subseteq {"absent", "bad", "neutral", "good"}
  /\ f.width \in Nat /\ f.buffer_width \in Nat /\ f.width <= f.buffer_width
  /\ f.row \in [0 .. f.width - 1 -> [colour : Byte, alpha : Byte]]

ASSUME PixelsAssumption ==
  /\ \A f \in Images : IsImage(f)
  /\ {PremultiplyLoad, RawLoad} \subseteq {2, 4, 8, 16}

VARIABLES
  image,
  pc,
  row_format,                 \* the channels of libpng's rows and their bits
  has_alpha_channel,
  decode_to_half_float,
  profile,                    \* the embedded colour profile, or NoProfile
  hdr_metadata,               \* of each kind, the chunk it came from, or 0
  src,                        \* where the loops read: "libpng", "scanline", "buffer"
  color_transform_scanline,
  dst_row,
  done,                       \* the pixels the loop has written
  lanes,                      \* alpha_mask_vector: a byte is the set of its bits
  alpha_mask,
  current_buffer_saw_alpha

metadata == <<row_format, has_alpha_channel, decode_to_half_float, profile,
              hdr_metadata>>
source == <<src, color_transform_scanline>>
masks == <<lanes, alpha_mask>>
vars == <<image, pc, metadata, source, dst_row, done, masks,
          current_buffer_saw_alpha>>

Weight == <<1, 2, 4, 8, 16, 32, 64, 128>>
Bits(a) == {b \in 1 .. 8 : (a \div Weight[b]) % 2 = 1}

Columns == 0 .. image.width - 1
Pixel(c, a, p, u) == [colour |-> c, alpha |-> a, profiles |-> p, under |-> u]

(* What the buffer shows where nothing was drawn yet: the previous frame.  *)
Previous(x) == Pixel(0, 0, <<x>>, "previous")

Init ==
  /\ image \in Images
  /\ pc = "header"
  /\ row_format = Nothing
  /\ has_alpha_channel = FALSE
  /\ decode_to_half_float = FALSE
  /\ profile = NoProfile
  /\ hdr_metadata = [cta_861_3 |-> 0, smpte_st_2086 |-> 0, agtm |-> 0]
  /\ src = "libpng"
  /\ color_transform_scanline = Nothing
  /\ dst_row = [x \in 0 .. image.buffer_width - 1 |-> Previous(x)]
  /\ done = 0
  /\ lanes = <<>>
  /\ alpha_mask = Bits(255)
  /\ current_buffer_saw_alpha = image.saw_alpha

-----------------------------------------------------------------------------
(* The header.                                                             *)

(* Half floats are for a single image of 16 bits only.                     *)
SetBitDepth ==
  decode_to_half_float' =
    (image.ihdr.bit_depth = 16 /\ image.half_float_option /\ image.still)

ValidCicp(c) == c.name = "cICP" /\ c.valid

(* The first cICP chunk that is valid, then sRGB, then iCCP even if it     *)
(* cannot be used, then gAMA and cHRM; gAMA alone if it matters.           *)
ReadColorProfile ==
  LET cicp == SelectInSeq(image.chunks, ValidCicp)
  IN CASE cicp # 0 -> <<"cICP", cicp>>
       [] cicp = 0 /\ image.srgb -> <<"sRGB">>
       [] cicp = 0 /\ ~image.srgb /\ image.iccp # "absent" ->
            IF image.iccp = "bad" THEN NoProfile ELSE <<"iCCP">>
       [] OTHER ->
            CASE image.gama = "absent" -> NoProfile
              [] image.gama # "absent" /\ image.chrm = "absent" ->
                   IF image.gama = "neutral" THEN NoProfile ELSE <<"gAMA">>
              [] OTHER -> IF image.chrm = "bad" THEN NoProfile ELSE <<"cHRM">>

HdrKind(name) ==
  CASE name \in {"cLLi", "cLLI"} -> "cta_861_3"
    [] name \in {"mDCv", "mDCV"} -> "smpte_st_2086"
    [] name = "agTm" -> "agtm"
    [] OTHER -> Nothing

(* The chunks libpng is told to keep, which png_get_unknown_chunks returns *)
(* (ParseSize hands over no others of these kinds either).                 *)
KeptUnknown == {"cICP", "cLLi", "mDCv", "cLLI", "mDCV"}

(* A mutant of ReadHdrChunk: a chunk of the wrong size drops the value.    *)
ReadHdrChunkOrDrop(hdr, k) ==
  LET c == image.chunks[k]
      kind == HdrKind(c.name)
  IN IF kind = Nothing \/ c.name \notin KeptUnknown THEN hdr
     ELSE [hdr EXCEPT ![kind] = IF c.valid \/ kind = "agtm" THEN k ELSE 0]

(* One turn of ReadHDRMetadata's loop: a chunk of the wrong size is passed *)
(* over, but the size of an agTm is not looked at.                         *)
ReadHdrChunk(hdr, k) ==
  LET c == image.chunks[k]
      kind == HdrKind(c.name)
  IN IF \/ kind = Nothing
        \/ c.name \notin KeptUnknown
        \/ ~c.valid /\ kind # "agtm"
       THEN hdr ELSE [hdr EXCEPT ![kind] = k]

SetColorSpace ==
  IF image.ignores_color_space THEN UNCHANGED <<profile, hdr_metadata>>
  ELSE /\ profile' = ReadColorProfile
       /\ hdr_metadata' = FoldLeft(ReadHdrChunk, hdr_metadata,
                            [k \in 1 .. Len(image.chunks) |-> k])

(* libpng: the rows that come out of the transformations it was asked for. *)
RowFormat(h, expand, strip_16, gray_to_rgb) ==
  LET colour == \/ h.color_type \in {"rgb", "rgb_alpha"}
                \/ h.color_type = "palette" /\ expand
                \/ h.color_type \in {"gray", "gray_alpha"} /\ gray_to_rgb
      alpha == h.color_type \in {"gray_alpha", "rgb_alpha"} \/ (h.trns /\ expand)
  IN [channels |-> (IF colour THEN 3 ELSE 1) + (IF alpha THEN 1 ELSE 0),
      bits |-> CASE h.bit_depth = 16 -> IF strip_16 THEN 8 ELSE 16
                 [] h.bit_depth < 8 -> IF expand THEN 8 ELSE h.bit_depth
                 [] OTHER -> 8]

(* A mutant of HeaderAvailable: grays of few bits are not expanded.        *)
HeaderAvailableUnexpanded ==
  LET h == image.ihdr
      rows == RowFormat(h, h.color_type = "palette" \/ h.trns,
                        ~decode_to_half_float',
                        h.color_type \in {"gray", "gray_alpha"})
  IN row_format' = rows /\ has_alpha_channel' = (rows.channels = 4)

(* Palettes, few bits of gray and tRNS are expanded, 16 bits stripped      *)
(* unless they become half floats.                                         *)
HeaderAvailable ==
  LET h == image.ihdr
      rows == RowFormat(h,
                        \/ h.color_type = "palette"
                        \/ h.color_type = "gray" /\ h.bit_depth < 8
                        \/ h.trns,
                        ~decode_to_half_float',
                        h.color_type \in {"gray", "gray_alpha"})
  IN row_format' = rows /\ has_alpha_channel' = (rows.channels = 4)

(* The calls at the first IDAT, in this order.                             *)
ReadHeader ==
  /\ pc = "header"
  /\ pc' = "row"
  /\ SetBitDepth /\ SetColorSpace /\ HeaderAvailable
  /\ UNCHANGED <<image, source, dst_row, done, masks, current_buffer_saw_alpha>>

-----------------------------------------------------------------------------
(* A row.                                                                  *)

ColorTransform == profile # NoProfile
Transform(p) == [p EXCEPT !.profiles = Append(@, profile)]

Delivered(x) == Pixel(image.row[x].colour, image.row[x].alpha, <<>>, Nothing)

(* The pixel that src_ptr points to.                                       *)
SrcPixel(x) ==
  CASE src = "libpng" -> Delivered(x)
    [] src = "scanline" -> color_transform_scanline[x]
    [] OTHER -> dst_row[x]

(* The rows are blended one pixel at a time, with NEON too.                *)
load ==
  IF ~image.neon \/ (has_alpha_channel /\ image.blend) THEN 1
  ELSE IF has_alpha_channel /\ image.premultiply THEN PremultiplyLoad ELSE RawLoad

(* A mutant of StartRow: it always transforms in place.                    *)
StartRowInPlace ==
  /\ pc = "row" /\ ~decode_to_half_float
  /\ pc' = IF load = 1 THEN "tail" ELSE "loads"
  /\ lanes' = [l \in 0 .. load - 1 |-> Bits(255)]
  /\ IF ~has_alpha_channel \/ ~ColorTransform THEN UNCHANGED <<source, dst_row>>
     ELSE /\ src' = "buffer"
          /\ dst_row' = [x \in DOMAIN dst_row |->
               IF x \in Columns THEN Transform(Delivered(x)) ELSE dst_row[x]]
          /\ UNCHANGED color_transform_scanline
  /\ UNCHANGED <<image, metadata, done, alpha_mask, current_buffer_saw_alpha>>

(* With alpha the colours are transformed before the pixels are written.   *)
StartRow ==
  /\ pc = "row" /\ ~decode_to_half_float
  /\ pc' = IF load = 1 THEN "tail" ELSE "loads"
  /\ lanes' = [l \in 0 .. load - 1 |-> Bits(255)]
  /\ IF ~has_alpha_channel \/ ~ColorTransform THEN UNCHANGED <<source, dst_row>>
     ELSE IF image.blend
       THEN /\ src' = "scanline"
            /\ color_transform_scanline' =
                 [x \in Columns |-> Transform(Delivered(x))]
            /\ UNCHANGED dst_row
       ELSE /\ src' = "buffer"
            /\ dst_row' = [x \in DOMAIN dst_row |->
                 IF x \in Columns THEN Transform(Delivered(x)) ELSE dst_row[x]]
            /\ UNCHANGED color_transform_scanline
  /\ UNCHANGED <<image, metadata, done, alpha_mask, current_buffer_saw_alpha>>

(* vraddhn_u16 of the product and its own rounded upper half.              *)
Premultiply(c, a) ==
  LET ca == c * a IN ((ca + (ca + 128) \div 256 + 128) \div 256) % 256

(* SetRGBAPremultiply and BlendRGBAPremultiplied of ImageFrame.            *)
Rounded(c, a) == (c * a + 127) \div 255

(* The loads: of a load whose alphas are all 255 the colours are stored as *)
(* they are.                                                               *)
StoredPixel(x, opaque) ==
  LET p == SrcPixel(x)
  IN IF ~has_alpha_channel THEN [p EXCEPT !.alpha = 255]
     ELSE IF image.premultiply /\ ~opaque
       THEN [p EXCEPT !.colour = Premultiply(@, p.alpha)] ELSE p

(* A mutant of LoadPixels: only the last load is masked.                   *)
LoadPixelsUnmasked ==
  /\ pc = "loads" /\ done + load <= image.width
  /\ LET opaque == \A l \in 0 .. load - 1 : SrcPixel(done + l).alpha = 255
     IN dst_row' = [x \in DOMAIN dst_row |->
          IF x \in done .. done + load - 1 THEN StoredPixel(x, opaque)
                                           ELSE dst_row[x]]
  /\ lanes' = [l \in DOMAIN lanes |-> Bits(SrcPixel(done + l).alpha)]
  /\ done' = done + load
  /\ UNCHANGED <<image, pc, metadata, source, alpha_mask,
                 current_buffer_saw_alpha>>

LoadPixels ==
  /\ pc = "loads" /\ done + load <= image.width
  /\ LET opaque == \A l \in 0 .. load - 1 : SrcPixel(done + l).alpha = 255
     IN dst_row' = [x \in DOMAIN dst_row |->
          IF x \in done .. done + load - 1 THEN StoredPixel(x, opaque)
                                           ELSE dst_row[x]]
  /\ lanes' = [l \in DOMAIN lanes |-> lanes[l] \cap Bits(SrcPixel(done + l).alpha)]
  /\ done' = done + load
  /\ UNCHANGED <<image, pc, metadata, source, alpha_mask,
                 current_buffer_saw_alpha>>

LoadsEnd ==
  /\ pc = "loads" /\ done + load > image.width
  /\ pc' = "lanes"
  /\ UNCHANGED <<image, metadata, source, dst_row, done, masks,
                 current_buffer_saw_alpha>>

(* The AND of the lanes: the upper half onto the lower, until one is left. *)
AndLanes ==
  /\ pc = "lanes"
  /\ LET half == Cardinality(DOMAIN lanes) \div 2
     IN IF half = 0
          THEN /\ alpha_mask' = alpha_mask \cap lanes[0]
               /\ pc' = "tail"
               /\ UNCHANGED lanes
          ELSE /\ lanes' = [l \in 0 .. half - 1 |-> lanes[l] \cap lanes[l + half]]
               /\ UNCHANGED <<alpha_mask, pc>>
  /\ UNCHANGED <<image, metadata, source, dst_row, done, current_buffer_saw_alpha>>

(* SetRGBAPremultiply, SetRGBARaw, BlendRGBAPremultiplied, BlendRGBARaw.   *)
SetRGBA(x) ==
  LET p == SrcPixel(x)
  IN IF ~has_alpha_channel THEN [p EXCEPT !.alpha = 255]
     ELSE [p EXCEPT
             !.colour = IF image.premultiply THEN Rounded(@, p.alpha) ELSE @,
             !.under = IF image.blend THEN dst_row[x] ELSE @]

(* The pixels that are left, or all of them without NEON.                  *)
TailPixel ==
  /\ pc = "tail" /\ done < image.width
  /\ dst_row' = [dst_row EXCEPT ![done] = SetRGBA(done)]
  /\ alpha_mask' = IF has_alpha_channel
                     THEN alpha_mask \cap Bits(SrcPixel(done).alpha) ELSE alpha_mask
  /\ done' = done + 1
  /\ UNCHANGED <<image, pc, metadata, source, lanes, current_buffer_saw_alpha>>

(* Opaque pixels are transformed in the buffer after they were written.    *)
EndRow ==
  /\ pc = "tail" /\ done = image.width
  /\ pc' = "done"
  /\ current_buffer_saw_alpha' =
       (current_buffer_saw_alpha \/ (has_alpha_channel /\ alpha_mask # Bits(255)))
  /\ dst_row' = [x \in DOMAIN dst_row |->
       IF ~has_alpha_channel /\ ColorTransform /\ x \in Columns
         THEN Transform(dst_row[x]) ELSE dst_row[x]]
  /\ UNCHANGED <<image, metadata, source, done, masks>>

(* The row in one call of skcms, which multiplies by alpha if asked to.    *)
HalfFloatRow ==
  /\ pc = "row" /\ decode_to_half_float
  /\ pc' = "done"
  /\ dst_row' = [x \in DOMAIN dst_row |->
       IF x \notin Columns THEN dst_row[x]
       ELSE LET p == Delivered(x)
                a == IF has_alpha_channel THEN p.alpha ELSE 255
            IN Pixel(IF has_alpha_channel /\ image.premultiply
                       THEN Rounded(p.colour, a) ELSE p.colour,
                     a, IF ColorTransform THEN <<profile>> ELSE <<>>, Nothing)]
  /\ current_buffer_saw_alpha' = has_alpha_channel
  /\ UNCHANGED <<image, metadata, source, done, masks>>

Next ==
  \/ ReadHeader
  \/ StartRow
  \/ LoadPixels
  \/ LoadsEnd
  \/ AndLanes
  \/ TailPixel
  \/ EndRow
  \/ HalfFloatRow

Spec == Init /\ [][Next]_vars

-----------------------------------------------------------------------------
(* Correctness.                                                            *)

(* The types; and libpng's rows have the channels and the bits with which  *)
(* RowAvailable reads them (HeaderAvailable, whose DCHECK says as much).   *)
PixelsTypeOK ==
  /\ pc \in {"header", "row", "loads", "lanes", "tail", "done"}
  /\ pc # "header" =>
       row_format = [channels |-> IF has_alpha_channel THEN 4 ELSE 3,
                     bits |-> IF decode_to_half_float THEN 16 ELSE 8]
  /\ src \in {"libpng", "scanline", "buffer"}
  /\ done \in 0 .. image.width
  /\ DOMAIN dst_row = 0 .. image.buffer_width - 1
  /\ alpha_mask \subseteq 1 .. 8
  /\ has_alpha_channel \in BOOLEAN
  /\ decode_to_half_float \in BOOLEAN
  /\ current_buffer_saw_alpha \in BOOLEAN

(* What a pixel of the finished row is, told pixel by pixel.               *)
Expected(x) ==
  IF x \notin Columns THEN Previous(x)
  ELSE Pixel(IF has_alpha_channel /\ image.premultiply
               THEN Rounded(image.row[x].colour, image.row[x].alpha)
               ELSE image.row[x].colour,
             IF has_alpha_channel THEN image.row[x].alpha ELSE 255,
             IF ColorTransform THEN <<profile>> ELSE <<>>,
             IF has_alpha_channel /\ image.blend /\ ~decode_to_half_float
               THEN Previous(x) ELSE Nothing)

(* Whichever of the two builds wrote it and wherever the transform went, a *)
(* finished row has every pixel of the frame transformed exactly once,     *)
(* multiplied by its alpha, and blended over what the previous frame shows *)
(* there, half floats excepted; the pixels beyond the frame are untouched  *)
(* (RowAvailable and the three loops for NEON).                            *)
RowIsExact ==
  pc = "done" => \A x \in DOMAIN dst_row : dst_row[x] = Expected(x)

(* A row is noted to have alpha exactly if one of its pixels is not opaque *)
(* or an earlier row had; half floats are never taken for opaque           *)
(* (alpha_mask and the lanes it is computed in).                           *)
AlphaIsSeen ==
  pc = "done" =>
    current_buffer_saw_alpha =
      IF decode_to_half_float THEN has_alpha_channel
      ELSE \/ image.saw_alpha
           \/ has_alpha_channel /\ \E x \in Columns : image.row[x].alpha # 255

(* A chunk that cannot be used is as good as absent: the light levels and  *)
(* the mastering display are those of the last valid chunk, whatever       *)
(* broken ones surround it, and a broken cICP does not hide the profile    *)
(* behind it (ReadHDRMetadata, ReadColorProfile).  ReadHDRMetadata would   *)
(* take any agTm, broken or not, but none gets that far.                   *)
BrokenChunksAreIgnored ==
  pc # "header" /\ ~image.ignores_color_space =>
    /\ \A kind \in {"cta_861_3", "smpte_st_2086"} :
         LET Usable == {k \in DOMAIN image.chunks :
                          HdrKind(image.chunks[k].name) = kind /\ image.chunks[k].valid}
         IN hdr_metadata[kind] = Max(Usable \cup {0})
    /\ hdr_metadata["agtm"] = 0
    /\ image.srgb => profile # NoProfile
    /\ \A k \in DOMAIN image.chunks :
         ValidCicp(image.chunks[k]) => profile # NoProfile /\ profile[1] = "cICP"

=============================================================================
