------------------------------- MODULE MCFlash -------------------------------
(***************************************************************************)
(* Few banks of few pages, one or two words each. The safety run has two   *)
(* pages in a bank, so that a page has neighbours in its bank and in other *)
(* banks; the bank run has four banks, of which a write to FADDR reaches 0 *)
(* and 1 and an erase all.                                                 *)
(***************************************************************************)
EXTENDS Flash
=============================================================================
