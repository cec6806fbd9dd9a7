--------------------------- MODULE MCMassaRunner ---------------------------
(***************************************************************************)
(* Instances of MassaRunner for TLC: the configurations only give numbers. *)
(***************************************************************************)
EXTENDS MassaRunner

\* What tells two states apart: all but the choice of the rhythm, which no
\* handler of the motor reads.
SemRitmo == <<motor, filas, saidas, rodando, fechada, conversa, conta>>
=============================================================================
