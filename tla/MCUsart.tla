-------------------------------- MODULE MCUsart --------------------------------
(***************************************************************************)
(* Two bytes, and bytes of two bits: a frame is of four to six bits.       *)
(***************************************************************************)
EXTENDS Usart
=============================================================================
