---------------------------- MODULE MCCompareTimer ----------------------------
(***************************************************************************)
(* A timer of three bits: distances of 4 and more are negative numbers.    *)
(***************************************************************************)
EXTENDS CompareTimer

CompareWith(action) == [compare |-> TRUE, out |-> action, cap |-> 0]

\* Both modes of a channel: a compare event that sets the pin, which is the
\* edge a capture waits for.
SetOrCapture == {CompareWith(0), [compare |-> FALSE, out |-> 0, cap |-> 1]}
=============================================================================
