-------------------------------- MODULE Usart --------------------------------
(***************************************************************************)
(* A USART of the CC2530 (s51.src/CC2530usart.cc): the shift registers of  *)
(* its receiver and transmitter, the one-byte queue of the transmitter,    *)
(* and the bit ACTIVE of UxCSR, which both directions set and clear.       *)
(*                                                                         *)
(* The line never rests: the receiver reads it from a table of test bits.  *)
(* A byte is a value, or Line once the receiver has shifted bits into the  *)
(* buffer; parity and error bits are left out. SPI as a slave never ticks. *)
(***************************************************************************)
EXTENDS Integers, Sequences

CONSTANTS
  Bytes, Line,  \* what software sends, and what the receiver puts into UxDBUF
  DataBits,     \* the bits of a byte: 8
  MaxRxCnt      \* bound: a reception that has missed its end counts on for ever

ASSUME UsartAssumption ==
  /\ Line \notin Bytes
  /\ DataBits \in Nat \ {0}
  /\ MaxRxCnt \in Nat

VARIABLES
  uart, Active,          \* bits of UxCSR: not SPI, and the shared ACTIVE
  slave,
  RX, TX, queue,         \* receiving, transmitting, a byte waits in UxDBUF
  bitRxCnt, bitTxCnt,    \* bits so far
  BitNumber, StopBits, startBitLevel,
  ticking,               \* BaudFactor is not 0
  DBUF, regForTx,
  informed,              \* the events of the last step: flags and DMA trigger
  forced,                \* history: the program set ACTIVE itself,
  steady,                \* UxUCR has not changed since the reception began,
  alone                  \* and nothing but the transmitter was at work since TX was set

csr == <<uart, Active, slave>>
ucr == <<BitNumber, StopBits, startBitLevel>>
rx == <<RX, bitRxCnt>>
tx == <<TX, queue, bitTxCnt, regForTx>>
history == <<forced, steady, alone>>
vars == <<csr, ucr, rx, tx, ticking, DBUF, informed, history>>

TypeOK ==
  /\ uart \in BOOLEAN /\ Active \in BOOLEAN /\ slave \in BOOLEAN
  /\ RX \in BOOLEAN /\ TX \in BOOLEAN /\ queue \in BOOLEAN
  /\ bitRxCnt \in Nat
  /\ bitTxCnt \in 0 .. DataBits + 3
  /\ BitNumber \in {0, DataBits, DataBits + 1}
  /\ StopBits \in 0 .. 2
  /\ startBitLevel \in {0, 1}
  /\ ticking \in BOOLEAN
  /\ DBUF \in Bytes \cup {0, Line} /\ regForTx \in Bytes \cup {0, Line}
  /\ informed \subseteq {"EV_URX", "EV_UTX"}
  /\ forced \in BOOLEAN /\ steady \in BOOLEAN /\ alone \in BOOLEAN

Init ==
  /\ uart = FALSE /\ Active = FALSE /\ slave = FALSE
  /\ RX = FALSE /\ TX = FALSE /\ queue = FALSE
  /\ bitRxCnt = 0 /\ bitTxCnt = 0
  /\ BitNumber = 0 /\ StopBits = 0 /\ startBitLevel = 0
  /\ ticking = FALSE
  /\ DBUF = 0 /\ regForTx = 0
  /\ informed = {}
  /\ forced = FALSE /\ steady = TRUE /\ alone = FALSE

-----------------------------------------------------------------------------
(* One bit of each direction.                                              *)

Frame == BitNumber + StopBits + 1

\* The test line: a start bit, 1010..., a parity bit and a stop bit.
testTab(i) == IF i <= DataBits THEN i % 2 ELSE 1

\* In SPI mode both registers shift, whatever RX and TX are.
ShiftsIn == Active /\ (uart => RX)
ShiftsOut == Active /\ (uart => TX)

\* Shift_in: the bits counted after this one, whether it gets into UxDBUF, which
\* only a 1 does, and whether the frame ends.
RxCount == IF bitRxCnt = 0 /\ testTab(0) # startBitLevel THEN 0 ELSE bitRxCnt + 1

ShowsBit ==
  ShiftsIn /\ RxCount \in 2 .. DataBits + 1 /\ testTab(RxCount - 1) = 1

\* The end is taken one bit late.
RxEnds_Late == ShiftsIn /\ RxCount = Frame + 1
RxEnds == ShiftsIn /\ RxCount = Frame

DBUFAfterRx == IF ShowsBit THEN Line ELSE DBUF

Shift_in ==
  /\ bitRxCnt' = IF ~ShiftsIn THEN bitRxCnt ELSE IF RxEnds THEN 0 ELSE RxCount
  /\ RX' = (RX /\ ~RxEnds)
  /\ DBUF' = DBUFAfterRx

\* The end is looked for as the receiver does.
TxEnds_Equal == ShiftsOut /\ bitTxCnt + 1 = Frame

TxEnds ==
  ShiftsOut /\ bitTxCnt + 1 >= DataBits + 2 /\ bitTxCnt + 1 >= Frame

\* Shift_out: at the end a byte that waits in UxDBUF follows. As a master of SPI
\* the transmitter shifts first, otherwise last.
\* The queue is not emptied.
Shift_out_Stays ==
  /\ bitTxCnt' = IF ~ShiftsOut THEN bitTxCnt ELSE IF TxEnds THEN 0 ELSE bitTxCnt + 1
  /\ TX' = IF TxEnds THEN queue ELSE TX
  /\ regForTx' = IF TxEnds /\ queue THEN IF uart THEN DBUFAfterRx ELSE DBUF ELSE regForTx
  /\ UNCHANGED queue

Shift_out ==
  /\ bitTxCnt' = IF ~ShiftsOut THEN bitTxCnt ELSE IF TxEnds THEN 0 ELSE bitTxCnt + 1
  /\ TX' = IF TxEnds THEN queue ELSE TX
  /\ regForTx' = IF TxEnds /\ queue THEN IF uart THEN DBUFAfterRx ELSE DBUF ELSE regForTx
  /\ queue' = (queue /\ ~TxEnds)

\* The end of a byte never looks at the queue.
StaysActive_Ends == Active /\ ~RxEnds /\ ~TxEnds

\* Either end clears ACTIVE, unless another byte follows.
StaysActive == Active /\ ~RxEnds /\ ~(TxEnds /\ ~queue)

BaudTick ==
  /\ ticking /\ (uart \/ ~slave)
  /\ ShiftsIn => bitRxCnt < MaxRxCnt
  /\ Shift_in /\ Shift_out
  /\ Active' = StaysActive
  /\ informed' = {e \in {"EV_URX", "EV_UTX"} : IF e = "EV_URX" THEN RxEnds ELSE TxEnds}
  /\ forced' = (forced /\ Active')
  /\ steady' = (steady \/ bitRxCnt' = 0)
  /\ alone' = (alone /\ TX')
  /\ UNCHANGED <<uart, slave, ucr, ticking>>

-----------------------------------------------------------------------------
(* Software.                                                               *)

\* A byte for the transmitter: it is sent at once or waits in UxDBUF.
WriteDBUF(b) ==
  /\ DBUF' = b
  /\ IF TX
     THEN queue' = TRUE /\ UNCHANGED <<TX, regForTx, Active, bitTxCnt, alone>>
     ELSE /\ TX' = TRUE /\ regForTx' = b /\ Active' = TRUE /\ bitTxCnt' = 0
          /\ alone' = (uart /\ ~RX)
          /\ UNCHANGED queue
  /\ informed' = {}
  /\ UNCHANGED <<uart, slave, ucr, RX, bitRxCnt, ticking, forced, steady>>

\* The write of UxCSR sets ACTIVE for a receiver that is enabled, but the value
\* written is stored after that. RE cannot be taken back, nor can SLAVE.
WriteCSR(mode, re, slv, act) ==
  /\ uart' = mode /\ Active' = act
  /\ RX' = (RX \/ re) /\ slave' = (slave \/ slv)
  /\ informed' = {}
  /\ forced' = act /\ alone' = FALSE
  /\ UNCHANGED <<ucr, bitRxCnt, tx, ticking, DBUF, steady>>

\* FLUSH is looked for in bit 0 and never found.
WriteUCR(bits, stops, start) ==
  /\ BitNumber' = bits /\ StopBits' = stops /\ startBitLevel' = start
  /\ steady' = (bitRxCnt = 0)
  /\ informed' = {}
  /\ UNCHANGED <<csr, rx, tx, ticking, DBUF, forced, alone>>

\* UxBAUD and UxGCR: any value gives a rate.
WriteBaud ==
  /\ ticking' = TRUE
  /\ informed' = {}
  /\ UNCHANGED <<csr, ucr, rx, tx, DBUF, history>>

\* The reset of the chip clears the registers and leaves the shift registers.
Reset ==
  /\ uart' = FALSE /\ Active' = FALSE /\ slave' = FALSE
  /\ RX' = FALSE /\ TX' = FALSE /\ queue' = FALSE
  /\ bitRxCnt' = 0 /\ bitTxCnt' = 0
  /\ BitNumber' = 0 /\ StopBits' = 0 /\ startBitLevel' = 0
  /\ ticking' = FALSE
  /\ DBUF' = 0
  /\ informed' = {}
  /\ forced' = FALSE /\ steady' = TRUE /\ alone' = FALSE
  /\ UNCHANGED regForTx

Software ==
  \/ \E b \in Bytes : WriteDBUF(b)
  \/ \E mode, re, slv, act \in BOOLEAN : WriteCSR(mode, re, slv, act)
  \/ \E bits \in {DataBits, DataBits + 1}, stops \in {1, 2}, start \in {0, 1} :
       WriteUCR(bits, stops, start)
  \/ WriteBaud
  \/ Reset

Next == BaudTick \/ Software

Spec == Init /\ [][Next]_vars

\* The clock ticks the USART after every instruction.
FairSpec == Spec /\ WF_vars(BaudTick)

-----------------------------------------------------------------------------
(* Properties.                                                             *)

\* A reception that nobody reconfigures is over when its last bit has been
\* counted: only a write of UxUCR can make the count pass the one value at which
\* Shift_in looks for the end.
RxWithinFrame == steady => bitRxCnt < Frame

\* ACTIVE means that one of the directions has something to do, unless the program
\* set the bit itself.
ActiveMeansWork == Active => TX \/ RX \/ forced

\* The transmitter is a queue of two bytes that only the receiver can spoil: what
\* is being sent never changes, and bytes leave in the order they came, once each.
Waiting == IF TX THEN IF queue THEN <<regForTx, DBUF>> ELSE <<regForTx>> ELSE <<>>
Queue == INSTANCE TransmitQueue WITH waiting <- Waiting
ImplementsQueue == Queue!Spec

\* A byte that goes out while nothing is received and UxCSR is left alone is sent
\* in the end, even if the program changes the length of frames all the time.
TransmissionEnds == (TX /\ alone /\ ticking) ~> ("EV_UTX" \in informed \/ ~alone)

\* The end of a reception does not stop a transmission.
ReceptionLeavesTransmission ==
  [][uart /\ BitNumber # 0 /\ informed' = {"EV_URX"} /\ TX' => Active']_vars

\* Nothing stops the clock for such a byte: slave mode and a byte being received,
\* which could, are out of its way.
TransmitterTicks == TX /\ alone /\ ticking => ENABLED <<BaudTick>>_vars

\* Why such a byte is sent in the end: ACTIVE, which the receiver's end could have
\* cleared, stays set, so every tick counts a bit or sends the byte, and nothing
\* software does takes a bit back. Frames of any length end within DataBits + 4.
TransmissionNears ==
  [][TX /\ alone =>
       /\ bitTxCnt < DataBits + 4
       /\ BaudTick => "EV_UTX" \in informed' \/ bitTxCnt' > bitTxCnt
       /\ ~BaudTick /\ alone' => TX' /\ bitTxCnt' = bitTxCnt]_vars
=============================================================================
