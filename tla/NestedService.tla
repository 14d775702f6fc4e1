--------------------------- MODULE NestedService ----------------------------
(***************************************************************************)
(* What an interrupt controller with fixed priority levels promises: the   *)
(* levels in service nest strictly. A routine can be interrupted only at a *)
(* level above every level in service, and the level that ends is the      *)
(* highest one. A reset ends them all.                                     *)
(***************************************************************************)
EXTENDS Integers

CONSTANT PriorityLevels   \* the levels a request can have: a set of naturals

VARIABLE inService        \* the levels whose routine has not returned

Init == inService = {}

Begin(p) ==
  /\ \A q \in inService : q < p
  /\ inService' = inService \union {p}

End(p) ==
  /\ p \in inService
  /\ \A q \in inService : q <= p
  /\ inService' = inService \ {p}

Abandon == inService' = {}

Next == (\E p \in PriorityLevels : Begin(p) \/ End(p)) \/ Abandon

Spec == Init /\ [][Next]_inService
=============================================================================
