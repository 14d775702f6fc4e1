---------------------------- MODULE MCStackTracker ----------------------------
(***************************************************************************)
(* An SP of eight values that begins at 2, so that it wraps both upwards   *)
(* and downwards.                                                          *)
(***************************************************************************)
EXTENDS StackTracker
=============================================================================
