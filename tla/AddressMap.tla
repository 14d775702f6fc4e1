----------------------------- MODULE AddressMap -----------------------------
(***************************************************************************)
(* What the address decoders of a space promise: every address is routed   *)
(* to at most one cell of one chip, and mapping an area decides the route  *)
(* of the addresses of that area and of no other.                          *)
(***************************************************************************)
EXTENDS Integers

CONSTANTS
  Space,        \* the addresses of the space
  Chips,
  ChipSize,     \* the number of cells of each chip
  Nowhere       \* where an address leads that no chip answers

VARIABLE route

\* The cell of index i of chip c, if there is one.
Cell(c, i) == IF i < ChipSize[c] THEN <<c, i>> ELSE Nowhere

Map(c, first, last, base) ==
  route' = [a \in Space |->
              IF a \in first .. last THEN Cell(c, base + (a - first)) ELSE route[a]]

Routes == {s \in Chips \X Nat : s[2] < ChipSize[s[1]]} \union {Nowhere}

Init == route \in [Space -> Routes]

Next == \E c \in Chips, first \in Space, last \in Space :
          \E base \in 0 .. ChipSize[c] - 1 :
          Map(c, first, last, base)

Spec == Init /\ [][Next]_route
=============================================================================
