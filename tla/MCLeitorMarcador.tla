------------------------- MODULE MCLeitorMarcador -------------------------
(***************************************************************************)
(* Instances of LeitorMarcador for TLC: the configurations give numbers.   *)
(***************************************************************************)
EXTENDS LeitorMarcador
=============================================================================
