-------------------------- MODULE TransferSessions --------------------------
(***************************************************************************)
(* What the DMA controller does: once a channel has begun a session it     *)
(* moves exactly the elements it announced, one at a time, and tells       *)
(* software when the last one is moved, neither earlier nor never. Only a  *)
(* reset cuts sessions short, and it cuts all of them: there is no action  *)
(* for the ABORT bit of DMAARM, which in this code cuts none.              *)
(***************************************************************************)
EXTENDS Naturals

CONSTANT Channels

VARIABLES pending,   \* the elements each channel has still to move
          irq        \* the channels whose completion is flagged

Init == pending = [i \in Channels |-> 0] /\ irq = {}

Start(i) ==
  /\ pending[i] = 0
  /\ pending'[i] \in Nat \ {0}
  /\ pending' = [pending EXCEPT ![i] = pending'[i]]
  /\ UNCHANGED irq

Move(i) ==
  /\ pending[i] > 1
  /\ pending' = [pending EXCEPT ![i] = pending[i] - 1]
  /\ UNCHANGED irq

Finish(i) ==
  /\ pending[i] = 1
  /\ pending' = [pending EXCEPT ![i] = 0]
  /\ irq' = irq \union {i}

\* Software sets and clears completion flags as it likes.
Software ==
  /\ irq' \subseteq Channels
  /\ UNCHANGED pending

Abandon ==
  /\ pending' = [i \in Channels |-> 0]
  /\ irq' = {}

Next == (\E i \in Channels : Start(i) \/ Move(i) \/ Finish(i)) \/ Software \/ Abandon

Spec == Init /\ [][Next]_<<pending, irq>>
=============================================================================
