------------------------------ MODULE MCCore51 ------------------------------
(***************************************************************************)
(* Two interrupt sources of the CC2530 for Core51, the request of a pin    *)
(* and timer 3, their enable, request and priority bits as in the calls of *)
(* it_sources->add.                                                        *)
(***************************************************************************)
EXTENDS Core51, TLC

CONSTANTS ext0, t3,      \* sources
          EX0, T3IE,     \* their enable bits
          IE0, T3IF,     \* their request bits
          IP0, IP3       \* the bits of IP their masks select

TwoSources == <<ext0, t3>>
TwoEnBit == (ext0 :> EX0) @@ (t3 :> T3IE)
TwoFlags == (ext0 :> {IE0}) @@ (t3 :> {T3IF})
TwoClr   == (ext0 :> TRUE) @@ (t3 :> TRUE)
TwoPrBit == (ext0 :> IP0) @@ (t3 :> IP3)
=============================================================================
