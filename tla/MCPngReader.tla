---------------------------- MODULE MCPngReader ----------------------------
(***************************************************************************)
(* Files for TLC: an IHDR and an acTL followed by every short sequence of  *)
(* fcTL, IDAT, fdAT and IEND chunks (and a few files with errors), their   *)
(* sequence numbers in file order, arriving cut at every place where the   *)
(* parser compares the size of the data with something.                    *)
(***************************************************************************)
EXTENDS PngReader, SequencesExt

CONSTANT MaxChunks   \* chunks after the header chunks

Plain(type, length) ==
  [type |-> type, length |-> length, valid |-> TRUE, seq |-> 0,
   actl |-> [frames |-> 0, plays |-> 0],
   fctl |-> [x |-> 0, y |-> 0, width |-> 0, height |-> 0, delay_num |-> 0,
             delay_den |-> 0, dispose |-> 0, blend |-> 0],
   ihdr |-> [width |-> 0, height |-> 0, bit_depth |-> 0]]

IHDR(depth) ==
  [Plain("IHDR", 13) EXCEPT !.ihdr = [width |-> 2, height |-> 2,
                                      bit_depth |-> depth]]
AcTL(n, plays) ==
  [Plain("acTL", 8) EXCEPT !.actl = [frames |-> n, plays |-> plays]]
FcTL(seq, width, blend) ==
  [Plain("fcTL", 26) EXCEPT
     !.seq = seq,
     !.fctl = [x |-> 0, y |-> 0, width |-> width, height |-> 2,
               delay_num |-> seq, delay_den |-> 100, dispose |-> 0,
               blend |-> blend]]
IDAT == Plain("IDAT", 4)
FdAT(seq) == [Plain("fdAT", 6) EXCEPT !.seq = seq]
IEND == Plain("IEND", 0)
Bad(c) == [c EXCEPT !.valid = FALSE]

(* The offset of the k-th chunk of cs.                                     *)
Offset(cs, k) ==
  SignatureEnd + FoldSeq(LAMBDA c, n : n + 12 + c.length, 0,
                         SubSeq(cs, 1, k - 1))

Thresholds(cs, k) ==
  LET o == Offset(cs, k)
  IN {o + 8, o + 12 + cs[k].length}
       \cup (IF cs[k].type = "fdAT" THEN {o + 12} ELSE {})

(* The file with the chunks cs; the data may stop at any threshold.  A     *)
(* file ends at SizeMax, in the middle of its last chunk if need be.       *)
FileOf(cs) ==
  LET size == Min({Offset(cs, Len(cs) + 1), SizeMax})
      at == FoldSeq(LAMBDA k, f : f @@ (Offset(cs, k) :> cs[k]), <<>>,
                    [k \in DOMAIN cs |-> k])
      cuts == UNION {Thresholds(cs, k) : k \in 1 .. Len(cs)}
  IN [size |-> size, signature |-> TRUE, chunk |-> at,
      arrivals |-> {n \in cuts : n <= size}
                     \cup {size, SignatureEnd - 1, SignatureEnd}]

(* The chunks of the given kinds, numbered in order.                       *)
Numbered(kinds) ==
  [k \in DOMAIN kinds |->
     LET n == Cardinality({j \in 1 .. k - 1 : kinds[j] \in {"fcTL", "fdAT"}})
     IN CASE kinds[k] = "fcTL" -> FcTL(n, 2, n % 2)
          [] kinds[k] = "fdAT" -> FdAT(n)
          [] kinds[k] = "IDAT" -> IDAT
          [] OTHER -> IEND]

Kinds == {"fcTL", "IDAT", "fdAT"}

MCFiles ==
  {FileOf(<<IHDR(8), AcTL(n, 0)>> \o Numbered(Append(kinds, "IEND"))) :
     n \in 1 .. 3, kinds \in SeqOf(Kinds, MaxChunks)}

(* Errors, limits and the chunks the parser skips.                         *)
MCOddFiles ==
  {FileOf(cs) : cs \in {
     <<IHDR(16), IDAT, IEND>>,
     <<IHDR(16), AcTL(1, 0), FcTL(0, 2, 0), IDAT, IEND>>,
     <<IHDR(16), AcTL(2, 3), FcTL(0, 2, 0), IDAT, FcTL(1, 2, 1), FdAT(2),
       IEND>>,
     <<AcTL(2, 0), IHDR(8), IDAT, IEND>>,
     <<IHDR(8), AcTL(0, 0), FcTL(0, 2, 0), IDAT, IEND>>,
     <<IHDR(8), AcTL(1, 3000), IDAT, IEND>>,
     <<IHDR(8), AcTL(2, 0), AcTL(2, 0), IDAT, IEND>>,
     <<IHDR(8), AcTL(2, 0), IDAT, AcTL(2, 0), IEND>>,
     <<IHDR(8), AcTL(2, 0), Bad(FcTL(0, 2, 0)), IDAT, IEND>>,
     <<IHDR(8), AcTL(2, 0), FcTL(0, 1, 0), IDAT, IEND>>,
     <<IHDR(8), AcTL(2, 0), FcTL(5, 2, 0), IDAT, IEND>>,
     <<IHDR(8), AcTL(2, 0), FcTL(0, 2, 0), Plain("other", 3),
       Plain("critical", 3), Plain("ancillary", 0), IDAT, IDAT,
       Plain("other", 2), FcTL(1, 1, 1), FdAT(2), Plain("critical", 1),
       FdAT(3), IEND, IEND>>,
     <<IHDR(8), AcTL(2, 0), FcTL(0, 2, 0), IDAT, FcTL(1, 2, 3), IEND>>,
     <<IHDR(8), AcTL(2, 0), FcTL(0, 2, 0), IDAT, Bad(FcTL(1, 2, 0)), IEND>>,
     <<IHDR(8), AcTL(2, 0), FcTL(0, 2, 0), IDAT, FcTL(1, 3, 0), IEND>>,
     <<IHDR(8), AcTL(2, 0), FcTL(0, 2, 0), IDAT, FcTL(1, 2, 0), FdAT(7),
       IEND>>,
     <<IHDR(8), AcTL(2, 0), FcTL(0, 2, 0), IDAT, FcTL(1, 2, 0),
       Plain("fdAT", 3), IEND>>,
     <<IHDR(8), AcTL(2, 0), IDAT, Plain("other", 2000)>>,
     <<IHDR(8), AcTL(2, 0), IDAT, Plain("other", 812)>>,
     <<IHDR(8), Plain("other", 2000)>>,
     <<IHDR(8), Plain("critical", 800), Plain("other", 3)>>,
     <<IHDR(8), Plain("other", 844), IDAT>>,
     <<IHDR(8), Plain("other", 845), IDAT>>,
     <<IHDR(8), AcTL(1, 0), FcTL(0, 2, 0), Plain("ancillary", 794)>>,
     <<IHDR(8), Bad(Plain("ancillary", 3)), IDAT>>,
     <<Plain("critical", 3), IHDR(8), IDAT>>,
     <<IDAT>>,
     <<IHDR(8), IHDR(8), IDAT>>,
     <<IHDR(8), IEND>>}}
  \cup {[FileOf(<<IHDR(8)>>) EXCEPT !.signature = FALSE]}

MCAllFiles == MCFiles \cup MCOddFiles

(* A single 16-bit frame whose fcTL asks for blending.                     *)
MCHalfFloatFiles ==
  {FileOf(<<IHDR(16), AcTL(1, 0), FcTL(0, 2, b), IDAT, IEND>>) : b \in {0, 1}}

=============================================================================
