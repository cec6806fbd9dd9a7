--------------------------- MODULE MCCalibragem ---------------------------
(***************************************************************************)
(* An instance of Calibragem for TLC, in half seconds: durations around    *)
(* every step of the ladder and of the rounding.                           *)
(***************************************************************************)
EXTENDS Calibragem

MCDuracoes ==
  {1, 2, 5, 9, 10, 11, 13, 30, 59, 60, 61, 119, 120, 121, 159, 161, 399, 400, 401, 415, 3600}

MCConexoes == {1, 5, 6, 7, 9, 13, 19, 20, 21, 40}
=============================================================================
