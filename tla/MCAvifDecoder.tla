--------------------------- MODULE MCAvifDecoder ---------------------------
(***************************************************************************)
(* Small images for TLC: a size is a number of arrivals, and an image of   *)
(* six or seven rows has every parity of a boundary between two pieces;    *)
(* the widths are those at which a row of a plane is padded.               *)
(***************************************************************************)
EXTENDS AvifDecoder

Still(rows, clap_rows, colours, transform) ==
  [size |-> 4, metadata |-> 1, readable |-> TRUE, images |-> 1,
   extents |-> [n \in {0} |-> 4], layered |-> FALSE, alpha |-> FALSE,
   rows |-> rows, clap_rows |-> clap_rows, width |-> 5, clap_width |-> 3,
   clap |-> IF clap_rows < rows THEN "zero origin" ELSE "none",
   colours |-> colours, depth |-> 8, half_float_option |-> FALSE,
   transform |-> transform, sk_yuv |-> TRUE, ignores_color_space |-> FALSE,
   icc |-> "none", cicp |-> "supported", irot |-> 0, imir |-> -1]

(* An animation, or the layers of a still image.                           *)
Several(images, size, layered, transform) ==
  [Still(2, 2, "420", transform) EXCEPT
     !.images = images, !.size = size, !.layered = layered, !.alpha = transform,
     !.extents = [n \in 0 .. images - 1 |-> IF 2 * n + 2 < size THEN 2 * n + 2
                                                               ELSE size]]

Truncated(f) == [f EXCEPT !.size = @ - 1]
Headerless(f) == [f EXCEPT !.metadata = f.size + 1]

(* Files that arrive at once.                                              *)
Small == [Still(3, 2, "420", FALSE) EXCEPT !.size = 1, !.extents = [n \in {0} |-> 1]]

Oriented == {[Small EXCEPT !.irot = r, !.imir = m] : r \in 0 .. 3, m \in -1 .. 1}
Profiles ==
  {[Small EXCEPT !.colours = c, !.icc = i, !.cicp = p, !.ignores_color_space = g] :
     c \in {"400", "444"}, i \in {"none", "unreadable", "gray", "rgb", "other"},
     p \in {"unspecified", "unsupported"}, g \in BOOLEAN}
Wide ==
  {[Small EXCEPT !.width = w, !.clap_width = w, !.clap = a, !.colours = c,
                 !.depth = d, !.half_float_option = TRUE] :
     w \in {1, 63, 64, 65, 127, 128, 129, 511, 512, 1000, 1023, 1024, 1025, 2048},
     a \in {"none", "nonzero origin"}, c \in {"420", "422", "444"}, d \in {8, 10}}

MCImages ==
  {Still(6, 6, "420", TRUE), Still(7, 7, "420", FALSE), Still(1, 1, "420", TRUE),
   Still(8, 5, "420", TRUE), Still(8, 6, "420", FALSE), Still(4, 4, "444", TRUE),
   [Still(8, 5, "420", FALSE) EXCEPT !.clap = "invalid"],
   [Still(6, 6, "420", TRUE) EXCEPT !.depth = 10, !.half_float_option = TRUE],
   Several(3, 6, TRUE, TRUE), Several(3, 5, TRUE, FALSE), Several(1, 2, TRUE, TRUE),
   Several(3, 6, TRUE, FALSE), Several(2, 4, FALSE, TRUE), Several(3, 6, FALSE, FALSE),
   Truncated(Still(6, 6, "420", TRUE)), Truncated(Several(3, 6, TRUE, FALSE)),
   Truncated(Several(3, 6, FALSE, TRUE)),
   [Still(4, 4, "444", FALSE) EXCEPT !.readable = FALSE, !.metadata = 2],
   Headerless(Still(4, 4, "444", FALSE))}
    \cup Oriented \cup Profiles \cup Wide

=============================================================================
