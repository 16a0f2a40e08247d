---------------------------- MODULE MCPngPixels ----------------------------
(***************************************************************************)
(* Small rows for TLC: loads of two and four pixels, rows of up to six in  *)
(* a buffer of seven, so that a row has no load, loads alone, a tail alone *)
(* or both; and files with broken metadata.                                *)
(***************************************************************************)
EXTENDS PngPixels

Plain ==
  [ihdr |-> [color_type |-> "rgb_alpha", bit_depth |-> 8, trns |-> FALSE],
   half_float_option |-> TRUE, still |-> TRUE,
   chunks |-> <<>>, ignores_color_space |-> FALSE, srgb |-> FALSE,
   iccp |-> "absent", gama |-> "absent", chrm |-> "absent",
   neon |-> TRUE, blend |-> FALSE, premultiply |-> TRUE, saw_alpha |-> FALSE,
   width |-> 0, buffer_width |-> 7, row |-> [x \in {} |-> 0]]

(* Alphas whose bits overlap: only their AND tells that one is not 255.    *)
Pixels == {[colour |-> 200, alpha |-> a] : a \in {255, 254, 127}}
Dark == [colour |-> 3, alpha |-> 128]

RowsOf(width) ==
  IF width > 4
    THEN {[x \in 0 .. width - 1 |-> IF x \in {m, n} THEN p ELSE q] :
            m \in 0 .. width - 1, n \in 0 .. width - 1, p \in Pixels,
            q \in {[colour |-> 90, alpha |-> 255], Dark}}
    ELSE [0 .. width - 1 -> Pixels]

OfRow(f, row) == [f EXCEPT !.width = Cardinality(DOMAIN row), !.row = row]

Decodings ==
  {[Plain EXCEPT !.neon = n, !.premultiply = p, !.srgb = t] :
     n \in BOOLEAN, p \in BOOLEAN, t \in BOOLEAN}
    \cup {[Plain EXCEPT !.blend = TRUE, !.neon = n, !.srgb = t] :
            n \in BOOLEAN, t \in BOOLEAN}
    \cup {[Plain EXCEPT !.ihdr.color_type = "rgb", !.neon = n, !.srgb = t] :
            n \in BOOLEAN, t \in BOOLEAN}
    \cup {[Plain EXCEPT !.ihdr.color_type = c, !.ihdr.bit_depth = 16,
                        !.srgb = TRUE] : c \in {"gray", "rgb_alpha"}}
    \cup {[Plain EXCEPT !.saw_alpha = TRUE]}

Chunks == [name : {"cICP", "cLLi", "mDCV", "agTm", "other"}, valid : BOOLEAN]

Headers ==
  {[Plain EXCEPT !.chunks = c, !.srgb = s] :
     c \in UNION {[1 .. n -> Chunks] : n \in 0 .. 3}, s \in BOOLEAN}
    \cup {[Plain EXCEPT !.chunks = <<[name |-> "cICP", valid |-> FALSE],
                                     [name |-> "cLLI", valid |-> TRUE]>>,
             !.ignores_color_space = g, !.iccp = i, !.gama = a, !.chrm = c] :
            g \in BOOLEAN, i \in {"absent", "bad", "good"},
            a \in {"absent", "neutral", "good"}, c \in {"absent", "bad", "good"}}
    \cup {[Plain EXCEPT !.ihdr = h, !.half_float_option = o, !.still = q] :
            h \in {g \in Formats : IsFormat(g)}, o \in BOOLEAN, q \in BOOLEAN}

MCImages ==
  {OfRow(f, row) : f \in Decodings, row \in UNION {RowsOf(w) : w \in 1 .. 6}}
    \cup Headers

=============================================================================
