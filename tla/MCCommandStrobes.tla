---------------------------- MODULE MCCommandStrobes ----------------------------
(***************************************************************************)
(* Programs of two instructions, a time-out of one or two overflows, of    *)
(* which two may come in one tick, and a calibration of two ticks.         *)
(***************************************************************************)
EXTENDS CommandStrobes
=============================================================================
