------------------------- MODULE MCEselectElectron -------------------------
(***************************************************************************)
(* Three slots: one may be set, one left behind and one installed.         *)
(***************************************************************************)
EXTENDS EselectElectron

MCSlots == {39, 40, 41}

=============================================================================
