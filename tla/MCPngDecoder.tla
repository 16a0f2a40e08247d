---------------------------- MODULE MCPngDecoder ----------------------------
(***************************************************************************)
(* Small images for TLC: two rows, so two bytes of data a frame (in each   *)
(* pass, if interlaced), which arrive cut inside the chunks as well as     *)
(* between them.                                                           *)
(***************************************************************************)
EXTENDS PngDecoder, MCPngReader

Keep == 0
Background == 1
Previous == 2
Over == 1

Control(seq, y, height, dispose, blend) ==
  [FcTL(seq, 2, blend) EXCEPT !.fctl.y = y, !.fctl.height = height,
                              !.fctl.dispose = dispose]
Data(n) == Plain("IDAT", n)
FdATOf(seq, n) == [Plain("fdAT", 4 + n) EXCEPT !.seq = seq]

(* Cuts: behind each header, each byte of data, and each chunk.            *)
Cuts(cs, k) ==
  LET o == Offset(cs, k)
      end == o + 12 + cs[k].length
  IN CASE cs[k].type = "IDAT" -> (o + 8 .. o + 8 + cs[k].length) \cup {end}
       [] cs[k].type = "fdAT" -> {o + 8, o + 13, end}
       [] cs[k].type = "fcTL" -> {o + 8, end}
       [] OTHER -> {end}

(* alpha: the bytes with alpha, counted over the data of the whole file.   *)
Image(cs, interlaced, alpha, translucent) ==
  LET f == FileOf(cs)
      payload == SetToSortSeq(
                   UNION {CASE cs[k].type = "IDAT" ->
                                 Offset(cs, k) + 8 ..
                                   Offset(cs, k) + 7 + cs[k].length
                            [] cs[k].type = "fdAT" ->
                                 Offset(cs, k) + 12 ..
                                   Offset(cs, k) + 7 + cs[k].length
                            [] OTHER -> {} : k \in DOMAIN cs}, <)
  IN [size |-> f.size, signature |-> TRUE, chunk |-> f.chunk,
      arrivals |-> UNION {Cuts(cs, k) : k \in 3 .. Len(cs)},
      interlaced |-> interlaced, alpha |-> alpha,
      translucent |-> {payload[n] : n \in translucent}]

(* The file ends early, n bytes before its end.                            *)
Truncated(f, n) ==
  [f EXCEPT !.size = @ - n,
            !.arrivals = {a \in @ : a <= f.size - n} \cup {f.size - n}]

(* Frames that build on each other; the second gives way to the first.     *)
Layered ==
  <<IHDR(8), AcTL(3, 0), Control(0, 0, 2, Keep, 0), Data(1), Data(1),
    Control(1, 1, 1, Previous, Over), FdATOf(2, 1),
    Control(3, 0, 1, Keep, Over), FdATOf(4, 1), IEND>>

(* A frame that leaves a hole behind.                                      *)
Cleared ==
  <<IHDR(8), AcTL(3, 0), Control(0, 0, 2, Keep, 0), Data(2),
    Control(1, 0, 1, Background, Over), FdATOf(2, 1),
    Control(3, 1, 1, Keep, Over), FdATOf(4, 1), IEND>>

(* Frames that need no other.                                              *)
Independent ==
  <<IHDR(8), AcTL(2, 0), Control(0, 0, 2, Background, 0), Data(2),
    Control(1, 0, 2, Keep, 0), FdATOf(2, 2), IEND>>

(* The image data is not a frame; the first frame is a part of the image.  *)
Separate ==
  <<IHDR(8), AcTL(2, 0), Data(2), Control(0, 1, 1, Background, Over),
    FdATOf(1, 1), Control(2, 0, 2, Keep, Over), FdATOf(3, 2), IEND>>

Corrupted ==
  <<IHDR(8), AcTL(2, 0), Control(0, 0, 2, Keep, 0), Data(1), Bad(Data(1)),
    Control(1, 0, 1, Keep, 0), FdATOf(2, 1), IEND>>

TooLittle ==
  <<IHDR(8), AcTL(2, 0), Control(0, 0, 2, Keep, 0), Data(3),
    Control(1, 0, 2, Keep, Over), FdATOf(2, 1), IEND>>

Still == <<IHDR(8), Plain("ancillary", 0), Data(1), Data(1), IEND>>

InterlacedLayers ==
  <<IHDR(8), AcTL(2, 0), Control(0, 0, 2, Keep, 0), Data(4),
    Control(1, 1, 1, Keep, Over), FdATOf(2, 2), IEND>>

MCImages ==
  {Image(Layered, FALSE, TRUE, {1, 3}),
   Image(Cleared, FALSE, TRUE, {2, 3}),
   Image(Independent, FALSE, TRUE, {4}),
   Image(Separate, FALSE, TRUE, {2, 4}),
   Image(Corrupted, FALSE, FALSE, {}),
   Image(TooLittle, FALSE, FALSE, {}),
   Image(Still, FALSE, TRUE, {1}),
   Image(InterlacedLayers, TRUE, FALSE, {}),
   Truncated(Image(Layered, FALSE, TRUE, {2, 4}), 13),
   Truncated(Image(Still, FALSE, TRUE, {1}), 17)}

(* A first frame that blends, and a second that does not need it.          *)
MCBlendingFirst ==
  {Image([Independent EXCEPT ![3] = Control(0, 0, 2, Keep, Over)],
         FALSE, TRUE, {1})}

(* An interlaced image with two frames that do not need each other.        *)
MCInterlaced ==
  {Image(<<IHDR(8), AcTL(2, 0), Control(0, 0, 2, Keep, 0), Data(4),
           Control(1, 0, 2, Keep, 0), FdATOf(2, 4), IEND>>,
         TRUE, FALSE, {})}

(* An interlaced frame that blends over another.                           *)
MCInterlacedBlend == {Image(InterlacedLayers, TRUE, TRUE, {5})}

=============================================================================
