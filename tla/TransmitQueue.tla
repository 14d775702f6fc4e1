---------------------------- MODULE TransmitQueue ----------------------------
(***************************************************************************)
(* What the double-buffered transmitter of a USART promises: at most two   *)
(* bytes wait, they leave in the order they came, and the one being sent   *)
(* never changes. The byte behind it can be replaced by a later one, and   *)
(* by what the receiver is shifting in, for both use one buffer.           *)
(***************************************************************************)
EXTENDS Integers, Sequences

CONSTANTS Bytes, Line

VARIABLE waiting

Init == waiting = <<>>

Put(b) ==
  waiting' = IF Len(waiting) < 2 THEN Append(waiting, b) ELSE <<waiting[1], b>>

Spoil == Len(waiting) = 2 /\ waiting' = <<waiting[1], Line>>

Send == waiting # <<>> /\ waiting' = Tail(waiting)

\* The receiver may shift in a bit at the very moment a byte has been sent.
SpoilAndSend == Len(waiting) = 2 /\ waiting' = <<Line>>

Reset == waiting' = <<>>

Next == (\E b \in Bytes : Put(b)) \/ Spoil \/ Send \/ SpoilAndSend \/ Reset

Spec == Init /\ [][Next]_waiting
=============================================================================
