---------------------------- MODULE MCBombaTela ----------------------------
(* BombaTela on a screen of a few columns, for TLC. *)
EXTENDS BombaTela
=============================================================================
