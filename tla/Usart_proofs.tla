----------------------------- MODULE Usart_proofs -----------------------------
(***************************************************************************)
(* Proofs about Usart: the counts of its shift registers, what ACTIVE      *)
(* means, and that its transmitter is the queue of TransmitQueue, for any  *)
(* bytes of any length.                                                    *)
(***************************************************************************)
EXTENDS Usart, SequenceTheorems, TLAPS

USE UsartAssumption

-----------------------------------------------------------------------------
(* Types.                                                                  *)

\* What one bit does to the counts.
LEMMA CountsType ==
  ASSUME TypeOK
  PROVE  /\ RxCount \in Nat /\ RxCount <= bitRxCnt + 1
         /\ Frame \in 1 .. DataBits + 4
         /\ ShiftsOut /\ ~TxEnds => bitTxCnt + 1 \in 0 .. DataBits + 3
<1>1. RxCount \in Nat /\ RxCount <= bitRxCnt + 1
  BY DEF RxCount, TypeOK
<1>2. Frame \in 1 .. DataBits + 4
  BY DEF Frame, TypeOK
<1>3. ShiftsOut /\ ~TxEnds => bitTxCnt + 1 \in 0 .. DataBits + 3
  <2>1. bitTxCnt \in Nat
    BY DEF TypeOK
  <2>2. ShiftsOut /\ ~TxEnds => bitTxCnt + 1 < DataBits + 2 \/ bitTxCnt + 1 < Frame
    BY <1>2, <2>1 DEF TxEnds
  <2> QED
    BY <1>2, <2>1, <2>2
<1> QED
  BY <1>1, <1>2, <1>3

\* The types, the flags apart from the numbers.
Flags ==
  /\ uart \in BOOLEAN /\ Active \in BOOLEAN /\ slave \in BOOLEAN
  /\ RX \in BOOLEAN /\ TX \in BOOLEAN /\ queue \in BOOLEAN /\ ticking \in BOOLEAN
  /\ forced \in BOOLEAN /\ steady \in BOOLEAN /\ alone \in BOOLEAN

Numbers ==
  /\ bitRxCnt \in Nat /\ bitTxCnt \in 0 .. DataBits + 3
  /\ BitNumber \in {0, DataBits, DataBits + 1} /\ StopBits \in 0 .. 2
  /\ startBitLevel \in {0, 1}
  /\ DBUF \in Bytes \cup {0, Line} /\ regForTx \in Bytes \cup {0, Line}
  /\ informed \subseteq {"EV_URX", "EV_UTX"}

LEMMA TypeParts == TypeOK <=> Flags /\ Numbers
  BY DEF TypeOK, Flags, Numbers

LEMMA TypeInit == Init => TypeOK
<1> SUFFICES ASSUME Init
    PROVE  TypeOK
  OBVIOUS
<1>1. Flags
  BY DEF Init, Flags
<1>2. Numbers
  BY DEF Init, Numbers
<1> QED
  BY <1>1, <1>2, TypeParts

LEMMA TickFlags ==
  ASSUME TypeOK, BaudTick
  PROVE  /\ RX' \in BOOLEAN /\ TX' \in BOOLEAN /\ queue' \in BOOLEAN /\ Active' \in BOOLEAN
         /\ forced' \in BOOLEAN /\ steady' \in BOOLEAN /\ alone' \in BOOLEAN
<1>1. RX' \in BOOLEAN
  BY DEF BaudTick, Shift_in
<1>2. TX' \in BOOLEAN
  BY DEF BaudTick, Shift_out, TypeOK
<1>3. queue' \in BOOLEAN
  BY DEF BaudTick, Shift_out
<1>4. Active' \in BOOLEAN
  BY DEF BaudTick, StaysActive
<1>5. forced' \in BOOLEAN /\ steady' \in BOOLEAN /\ alone' \in BOOLEAN
  BY DEF BaudTick
<1> QED
  BY <1>1, <1>2, <1>3, <1>4, <1>5

LEMMA TickType ==
  ASSUME TypeOK, BaudTick
  PROVE  TypeOK'
<1>1. bitRxCnt' \in Nat
  BY CountsType DEF BaudTick, Shift_in, TypeOK
<1>2. bitTxCnt' \in 0 .. DataBits + 3
  <2>1. bitTxCnt' = IF ~ShiftsOut THEN bitTxCnt ELSE IF TxEnds THEN 0 ELSE bitTxCnt + 1
    BY DEF BaudTick, Shift_out
  <2>2. bitTxCnt \in 0 .. DataBits + 3
    BY DEF TypeOK
  <2> QED
    BY <2>1, <2>2, CountsType
<1>3. DBUF' \in Bytes \cup {0, Line} /\ regForTx' \in Bytes \cup {0, Line}
  BY DEF BaudTick, Shift_in, Shift_out, DBUFAfterRx, TypeOK
<1>4. informed' \subseteq {"EV_URX", "EV_UTX"}
  BY DEF BaudTick
<1>5. UNCHANGED <<uart, slave, BitNumber, StopBits, startBitLevel, ticking>>
  BY DEF BaudTick, ucr
<1> QED
  BY <1>1, <1>2, <1>3, <1>4, <1>5, TickFlags DEF TypeOK

LEMMA TypeStep ==
  ASSUME TypeOK, [Next]_vars
  PROVE  TypeOK'
<1>1. CASE BaudTick
  BY <1>1, TickType
<1>2. ASSUME NEW b \in Bytes, WriteDBUF(b)
      PROVE  TypeOK'
  <2>1. alone' \in BOOLEAN
    BY <1>2 DEF WriteDBUF, TypeOK
  <2>2. CASE TX
    BY <1>2, <2>1, <2>2 DEF WriteDBUF, TypeOK, ucr
  <2>3. CASE ~TX
    BY <1>2, <2>1, <2>3 DEF WriteDBUF, TypeOK, ucr
  <2> QED
    BY <2>2, <2>3
<1>3. ASSUME NEW mode \in BOOLEAN, NEW re \in BOOLEAN, NEW slv \in BOOLEAN, NEW act \in BOOLEAN,
             WriteCSR(mode, re, slv, act)
      PROVE  TypeOK'
  <2>1. RX' \in BOOLEAN /\ slave' \in BOOLEAN
    BY <1>3 DEF WriteCSR
  <2>2. Flags'
    <3>1. uart' \in BOOLEAN /\ Active' \in BOOLEAN /\ forced' \in BOOLEAN /\ alone' \in BOOLEAN
      BY <1>3 DEF WriteCSR
    <3>2. UNCHANGED <<TX, queue, ticking, steady>>
      BY <1>3 DEF WriteCSR, tx
    <3>3. TX' \in BOOLEAN /\ queue' \in BOOLEAN /\ ticking' \in BOOLEAN /\ steady' \in BOOLEAN
      BY <3>2 DEF TypeOK
    <3> QED
      BY <2>1, <3>1, <3>3 DEF Flags
  <2>3. Numbers'
    BY <1>3 DEF WriteCSR, Numbers, TypeOK, ucr, tx
  <2> QED
    BY <2>2, <2>3 DEF TypeOK, Flags, Numbers
<1>4. ASSUME NEW bits \in {DataBits, DataBits + 1}, NEW stops \in {1, 2}, NEW start \in {0, 1},
             WriteUCR(bits, stops, start)
      PROVE  TypeOK'
  <2>1. steady' \in BOOLEAN
    BY <1>4 DEF WriteUCR
  <2>2. /\ BitNumber' \in {0, DataBits, DataBits + 1} /\ StopBits' \in 0 .. 2
        /\ startBitLevel' \in {0, 1}
    BY <1>4 DEF WriteUCR
  <2>3. informed' = {} /\ UNCHANGED <<csr, rx, tx, ticking, DBUF, forced, alone>>
    BY <1>4 DEF WriteUCR
  <2> QED
    BY <2>1, <2>2, <2>3 DEF TypeOK, csr, rx, tx
<1>5. CASE WriteBaud
  BY <1>5 DEF WriteBaud, TypeOK, csr, ucr, rx, tx, history
<1>6. CASE Reset
  <2>1. Flags'
    <3>1. /\ uart' = FALSE /\ Active' = FALSE /\ slave' = FALSE
          /\ RX' = FALSE /\ TX' = FALSE /\ queue' = FALSE /\ ticking' = FALSE
          /\ forced' = FALSE /\ steady' = TRUE /\ alone' = FALSE
      BY <1>6 DEF Reset
    <3> QED
      BY <3>1 DEF Flags
  <2>2. Numbers'
    BY <1>6 DEF Reset, Numbers, TypeOK
  <2> QED
    BY <2>1, <2>2 DEF TypeOK, Flags, Numbers
<1>7. CASE UNCHANGED vars
  BY <1>7 DEF TypeOK, vars, csr, ucr, rx, tx, history
<1> QED
  BY <1>1, <1>2, <1>3, <1>4, <1>5, <1>6, <1>7 DEF Next, Software

\* The counts of both shift registers and every flag keep their types, for bytes of
\* any length.
THEOREM TypeCorrect == Spec => []TypeOK
<1>1. TypeOK /\ [Next]_vars => TypeOK'
  BY TypeStep
<1> QED
  BY TypeInit, <1>1, PTL DEF Spec

-----------------------------------------------------------------------------
(* Receptions.                                                             *)

LEMMA FrameStep ==
  ASSUME TypeOK, RxWithinFrame, [Next]_vars
  PROVE  RxWithinFrame'
<1> SUFFICES ASSUME steady'
    PROVE  bitRxCnt' < Frame'
  BY DEF RxWithinFrame
<1>1. TypeOK'
  BY TypeStep
<1>2. Frame \in Nat /\ Frame > 0 /\ Frame' \in Nat /\ Frame' > 0 /\ bitRxCnt \in Nat
  <2>1. BitNumber \in Nat /\ StopBits \in Nat /\ bitRxCnt \in Nat
    BY DEF TypeOK
  <2>2. BitNumber' \in Nat /\ StopBits' \in Nat
    BY <1>1 DEF TypeOK
  <2>3. Frame \in Nat /\ Frame > 0
    BY <2>1 DEF Frame
  <2>4. \A x, y \in Nat : x + y + 1 \in Nat /\ x + y + 1 > 0
    OBVIOUS
  <2>5. Frame' = BitNumber' + StopBits' + 1
    BY DEF Frame
  <2>6. Frame' \in Nat /\ Frame' > 0
    BY <2>2, <2>4, <2>5, Zenon
  <2> QED
    BY <2>1, <2>3, <2>6
<1>3. CASE bitRxCnt' = 0
  BY <1>2, <1>3
<1>4. CASE bitRxCnt' # 0
  <2>1. CASE BaudTick
    <3>1. steady /\ Frame' = Frame
      BY <1>4, <2>1 DEF BaudTick, Frame, ucr
    <3>2. bitRxCnt < Frame
      BY <3>1 DEF RxWithinFrame
    <3>3. bitRxCnt' = bitRxCnt \/ (bitRxCnt' = RxCount /\ RxCount # Frame)
      BY <1>4, <2>1 DEF BaudTick, Shift_in, RxEnds
    <3>4. RxCount \in Nat /\ RxCount <= bitRxCnt + 1
      BY CountsType
    <3> QED
      BY <1>2, <3>1, <3>2, <3>3, <3>4
  <2>2. CASE \E bits \in {DataBits, DataBits + 1}, stops \in {1, 2}, start \in {0, 1} :
               WriteUCR(bits, stops, start)
    BY <1>4, <2>2 DEF WriteUCR, rx
  <2>3. CASE UNCHANGED <<BitNumber, StopBits, bitRxCnt, steady>>
    BY <2>3 DEF RxWithinFrame, Frame
  <2>4. CASE Reset
    BY <1>4, <2>4 DEF Reset
  <2>5. CASE (\E b \in Bytes : WriteDBUF(b))
               \/ (\E mode, re, slv, act \in BOOLEAN : WriteCSR(mode, re, slv, act))
               \/ WriteBaud \/ UNCHANGED vars
    <3>1. UNCHANGED <<BitNumber, StopBits, bitRxCnt, steady>>
      BY <2>5 DEF WriteDBUF, WriteCSR, WriteBaud, ucr, rx, vars, history
    <3> QED
      BY <2>3, <3>1
  <2> QED
    BY <2>1, <2>2, <2>4, <2>5 DEF Next, Software
<1> QED
  BY <1>3, <1>4

\* A reception that nobody reconfigures never counts past the end of its frame.
THEOREM AlwaysWithinFrame == Spec => []RxWithinFrame
<1>1. Init => TypeOK /\ RxWithinFrame
  <2>1. Init => RxWithinFrame
    BY DEF Init, RxWithinFrame, Frame
  <2> QED
    BY <2>1, TypeInit
<1>2. (TypeOK /\ RxWithinFrame) /\ [Next]_vars => (TypeOK /\ RxWithinFrame)'
  BY TypeStep, FrameStep
<1> QED
  BY <1>1, <1>2, PTL DEF Spec

-----------------------------------------------------------------------------
(* The bit ACTIVE.                                                         *)


LEMMA ActiveStep ==
  ASSUME TypeOK, ActiveMeansWork, [Next]_vars
  PROVE  ActiveMeansWork'
<1> SUFFICES ASSUME Active'
    PROVE  TX' \/ RX' \/ forced'
  BY DEF ActiveMeansWork
<1>1. CASE BaudTick
  <2>1. Active /\ ~RxEnds /\ (TxEnds => queue)
    BY <1>1 DEF BaudTick, StaysActive
  <2>2. TX \/ RX \/ forced
    BY <2>1 DEF ActiveMeansWork
  <2>3. TX => TX'
    BY <1>1, <2>1 DEF BaudTick, Shift_out
  <2>4. RX => RX'
    BY <1>1, <2>1 DEF BaudTick, Shift_in
  <2>5. forced => forced'
    BY <1>1 DEF BaudTick
  <2> QED
    BY <2>2, <2>3, <2>4, <2>5
<1>2. CASE \E b \in Bytes : WriteDBUF(b)
  BY <1>2 DEF WriteDBUF
<1>3. CASE \E mode, re, slv, act \in BOOLEAN : WriteCSR(mode, re, slv, act)
  BY <1>3 DEF WriteCSR
<1>4. CASE Reset
  BY <1>4 DEF Reset
<1>5. CASE UNCHANGED <<Active, TX, RX, forced>>
  BY <1>5 DEF ActiveMeansWork
<1> QED
  BY <1>1, <1>2, <1>3, <1>4, <1>5
  DEF Next, Software, WriteUCR, WriteBaud, csr, rx, tx, vars, history

\* ACTIVE is set only while a direction has something to do, or by the program.
THEOREM AlwaysWork == Spec => []ActiveMeansWork
<1>1. Init => TypeOK /\ ActiveMeansWork
  BY TypeInit DEF Init, ActiveMeansWork
<1>2. (TypeOK /\ ActiveMeansWork) /\ [Next]_vars => (TypeOK /\ ActiveMeansWork)'
  BY TypeStep, ActiveStep
<1> QED
  BY <1>1, <1>2, PTL DEF Spec

-----------------------------------------------------------------------------
(* The transmitter implements the queue.                                   *)

\* Only a byte that is being sent has another behind it.
QueueInv == TypeOK /\ (queue => TX)

LEMMA QueueInvStep ==
  ASSUME QueueInv, [Next]_vars
  PROVE  QueueInv'
<1>1. TypeOK'
  BY TypeStep DEF QueueInv
<1> SUFFICES ASSUME queue'
    PROVE  TX'
  BY <1>1 DEF QueueInv
<1>2. CASE BaudTick
  <2>1. queue /\ ~TxEnds
    BY <1>2 DEF BaudTick, Shift_out
  <2> QED
    BY <1>2, <2>1 DEF BaudTick, Shift_out, QueueInv
<1>3. CASE \E b \in Bytes : WriteDBUF(b)
  BY <1>3 DEF WriteDBUF, QueueInv
<1>4. CASE Reset
  BY <1>4 DEF Reset
<1>5. CASE UNCHANGED tx
  BY <1>5 DEF tx, QueueInv
<1> QED
  BY <1>2, <1>3, <1>4, <1>5 DEF Next, Software, WriteCSR, WriteUCR, WriteBaud, vars

\* What waits, and what an end of a byte and a bit received do to it.
LEMMA WaitingIs ==
  /\ ~TX => Waiting = <<>>
  /\ TX /\ ~queue => Waiting = <<regForTx>>
  /\ TX /\ queue => Waiting = <<regForTx, DBUF>>
  BY DEF Waiting

LEMMA WaitingWillBe ==
  /\ ~TX' => Waiting' = <<>>
  /\ TX' /\ ~queue' => Waiting' = <<regForTx'>>
  /\ TX' /\ queue' => Waiting' = <<regForTx', DBUF'>>
  BY DEF Waiting

LEMMA ShortSequences ==
  ASSUME NEW a, NEW b
  PROVE  /\ Len(<<a>>) = 1 /\ Len(<<a, b>>) = 2
         /\ <<a>> # <<>> /\ <<a, b>> # <<>>
         /\ Tail(<<a>>) = <<>> /\ Tail(<<a, b>>) = <<b>>
         /\ <<a, b>>[1] = a
         /\ Append(<<>>, a) = <<a>> /\ Append(<<a>>, b) = <<a, b>>
<1>1. Len(<<a>>) = 1 /\ Len(<<a, b>>) = 2 /\ <<a, b>>[1] = a
  OBVIOUS
<1>2. <<a>> # <<>> /\ <<a, b>> # <<>>
  OBVIOUS
<1>3. Tail(<<a>>) = <<>>
  OBVIOUS
<1>4. Tail(<<a, b>>) = <<b>>
  OBVIOUS
<1>5. Append(<<>>, a) = <<a>>
  OBVIOUS
<1>6. Append(<<a>>, b) = <<a, b>>
  <2>1. <<a>> \in Seq({a, b}) /\ <<a, b>> \in Seq({a, b})
    OBVIOUS
  <2>2. /\ Append(<<a>>, b) \in Seq({a, b}) /\ Len(Append(<<a>>, b)) = 2
        /\ Append(<<a>>, b)[1] = a /\ Append(<<a>>, b)[2] = b
    BY <1>1, <2>1, AppendProperties
  <2>3. <<a, b>>[2] = b
    OBVIOUS
  <2> DEFINE u == Append(<<a>>, b)
             w == <<a, b>>
  <2>4. u \in Seq({a, b}) /\ w \in Seq({a, b}) /\ Len(u) = 2 /\ Len(w) = 2
    BY <1>1, <2>1, <2>2
  <2>5. u[1] = w[1] /\ u[2] = w[2]
    BY <1>1, <2>2, <2>3
  <2> HIDE DEF u, w
  <2>6. \A i \in 1 .. Len(u) : u[i] = w[i]
    BY <2>4, <2>5
  <2>7. u = w
    BY <2>4, <2>6, SeqEqual
  <2> QED
    BY <2>7 DEF u, w
<1> QED
  BY <1>1, <1>2, <1>3, <1>4, <1>5, <1>6

LEMMA TickImplements ==
  ASSUME QueueInv, BaudTick
  PROVE  Queue!Next \/ UNCHANGED Waiting
<1>1. DBUF' = DBUF \/ DBUF' = Line
  BY DEF BaudTick, Shift_in, DBUFAfterRx
<1>2. CASE ~TxEnds
  <2>1. UNCHANGED <<TX, queue, regForTx>>
    BY <1>2 DEF BaudTick, Shift_out, QueueInv, TypeOK
  <2>2. CASE TX /\ queue /\ DBUF' = Line
    <3>1. Waiting = <<regForTx, DBUF>> /\ Waiting' = <<regForTx, Line>>
      BY <2>1, <2>2, WaitingIs, WaitingWillBe
    <3>2. Queue!Spoil
      BY <3>1, ShortSequences DEF Queue!Spoil
    <3> QED
      BY <3>2 DEF Queue!Next
  <2>3. CASE ~(TX /\ queue /\ DBUF' = Line)
    BY <1>1, <2>1, <2>3, WaitingIs, WaitingWillBe
  <2> QED
    BY <2>2, <2>3
<1>3. CASE TxEnds /\ ~queue
  <2>1. ~TX' /\ Waiting' = <<>>
    BY <1>3, WaitingWillBe DEF BaudTick, Shift_out
  <2>2. CASE TX
    <3>1. Queue!Send
      BY <1>3, <2>1, <2>2, WaitingIs, ShortSequences DEF Queue!Send
    <3> QED
      BY <3>1 DEF Queue!Next
  <2>3. CASE ~TX
    BY <2>1, <2>3, WaitingIs
  <2> QED
    BY <2>2, <2>3
<1>4. CASE TxEnds /\ queue
  <2>1. TX' /\ ~queue' /\ regForTx' = IF uart THEN DBUFAfterRx ELSE DBUF
    BY <1>4 DEF BaudTick, Shift_out
  <2>2. regForTx' = DBUF \/ regForTx' = Line
    BY <2>1 DEF DBUFAfterRx
  <2>3. Waiting = <<regForTx, DBUF>> /\ Waiting' = <<regForTx'>>
    BY <1>4, <2>1, WaitingIs, WaitingWillBe DEF QueueInv
  <2>4. Queue!Send \/ Queue!SpoilAndSend
    BY <2>2, <2>3, ShortSequences DEF Queue!Send, Queue!SpoilAndSend
  <2> QED
    BY <2>4 DEF Queue!Next
<1> QED
  BY <1>2, <1>3, <1>4

LEMMA WriteImplements ==
  ASSUME QueueInv, NEW b \in Bytes, WriteDBUF(b)
  PROVE  Queue!Next
<1>1. CASE ~TX
  <2>1. TX' /\ ~queue' /\ regForTx' = b
    BY <1>1 DEF WriteDBUF, QueueInv
  <2>2. Waiting = <<>> /\ Waiting' = <<b>>
    BY <1>1, <2>1, WaitingIs, WaitingWillBe
  <2>3. Queue!Put(b)
    BY <2>2, ShortSequences DEF Queue!Put
  <2> QED
    BY <2>3 DEF Queue!Next
<1>2. CASE TX
  <2>1. TX' /\ queue' /\ regForTx' = regForTx /\ DBUF' = b
    BY <1>2 DEF WriteDBUF
  <2>2. Waiting' = <<regForTx, b>>
    BY <2>1, WaitingWillBe
  <2>3. Queue!Put(b)
    <3>1. CASE ~queue
      <4>1. Waiting = <<regForTx>>
        BY <1>2, <3>1, WaitingIs
      <4> QED
        BY <2>2, <4>1, ShortSequences DEF Queue!Put
    <3>2. CASE queue
      <4>1. Waiting = <<regForTx, DBUF>>
        BY <1>2, <3>2, WaitingIs
      <4>2. Len(Waiting) = 2 /\ Waiting[1] = regForTx
        BY <4>1, ShortSequences
      <4> QED
        BY <2>2, <4>2 DEF Queue!Put
    <3> QED
      BY <3>1, <3>2
  <2> QED
    BY <2>3 DEF Queue!Next
<1> QED
  BY <1>1, <1>2

LEMMA StepImplements ==
  ASSUME QueueInv, [Next]_vars
  PROVE  [Queue!Next]_Waiting
<1>1. CASE BaudTick
  BY <1>1, TickImplements
<1>2. CASE \E b \in Bytes : WriteDBUF(b)
  BY <1>2, WriteImplements
<1>3. CASE Reset
  <2>1. Waiting' = <<>>
    BY <1>3, WaitingWillBe DEF Reset
  <2> QED
    BY <2>1 DEF Queue!Next, Queue!Reset
<1>4. CASE UNCHANGED <<tx, DBUF>>
  BY <1>4 DEF Waiting, tx
<1> QED
  BY <1>1, <1>2, <1>3, <1>4 DEF Next, Software, WriteCSR, WriteUCR, WriteBaud, vars

\* The transmitter with its register and UxDBUF is the queue of TransmitQueue, for
\* any bytes: nothing changes the byte that is being sent, and no byte is sent
\* twice, lost or overtaken but for the one in UxDBUF.
THEOREM TransmitterIsQueue == Spec => ImplementsQueue
<1>1. Init => QueueInv
  BY TypeInit DEF Init, QueueInv
<1>2. QueueInv /\ [Next]_vars => QueueInv'
  BY QueueInvStep
<1>3. Init => Queue!Init
  BY WaitingIs DEF Init, Queue!Init
<1>4. QueueInv /\ [Next]_vars => [Queue!Next]_Waiting
  BY StepImplements
<1> QED
  BY <1>1, <1>2, <1>3, <1>4, PTL DEF Spec, ImplementsQueue, Queue!Spec

-----------------------------------------------------------------------------
(* A byte that is sent alone.                                              *)

\* While the transmitter is alone it is active, in UART mode, and the receiver,
\* which shares ACTIVE with it, is off.
AloneInv == alone => TX /\ uart /\ Active /\ ~RX

LEMMA AloneStep ==
  ASSUME TypeOK, AloneInv, [Next]_vars
  PROVE  AloneInv'
<1> SUFFICES ASSUME alone' PROVE TX' /\ uart' /\ Active' /\ ~RX'
  BY DEF AloneInv
<1>1. CASE BaudTick
  <2>1. alone /\ TX' /\ uart' = uart
    BY <1>1 DEF BaudTick
  <2>2. ~RX' /\ ~RxEnds
    BY <1>1, <2>1 DEF BaudTick, Shift_in, AloneInv, RxEnds, ShiftsIn
  <2>3. TxEnds => queue
    BY <1>1, <2>1 DEF BaudTick, Shift_out
  <2>4. Active'
    BY <1>1, <2>1, <2>2, <2>3 DEF BaudTick, StaysActive, AloneInv
  <2> QED
    BY <2>1, <2>2, <2>4 DEF AloneInv
<1>2. ASSUME NEW b \in Bytes, WriteDBUF(b) PROVE TX' /\ uart' /\ Active' /\ ~RX'
  <2>1. CASE TX
    BY <1>2, <2>1 DEF WriteDBUF, AloneInv
  <2>2. CASE ~TX
    BY <1>2, <2>2 DEF WriteDBUF
  <2> QED
    BY <2>1, <2>2
<1>3. CASE WriteBaud \/ UNCHANGED vars
  <2>1. UNCHANGED <<uart, Active, RX, TX, alone>>
    BY <1>3 DEF WriteBaud, vars, csr, rx, tx, history
  <2> QED
    BY <2>1 DEF AloneInv
<1>4. ASSUME NEW bits, NEW stops, NEW start, WriteUCR(bits, stops, start)
      PROVE  TX' /\ uart' /\ Active' /\ ~RX'
  BY <1>4 DEF WriteUCR, csr, rx, tx, AloneInv
<1>5. CASE Reset
  BY <1>5 DEF Reset
<1>6. ASSUME NEW mode, NEW re, NEW slv, NEW act, WriteCSR(mode, re, slv, act) PROVE FALSE
  BY <1>6 DEF WriteCSR
<1> QED
  BY <1>1, <1>2, <1>3, <1>4, <1>5, <1>6 DEF Next, Software

LEMMA SpecAlone == Spec => [](TypeOK /\ AloneInv)
<1>1. Init => AloneInv
  BY DEF Init, AloneInv
<1> QED
  BY <1>1, AloneStep, TypeStep, TypeInit, PTL DEF Spec

\* A bit of the transmitter that is alone is counted, or the byte is sent.
LEMMA AloneTick ==
  ASSUME TypeOK, AloneInv, TX, alone, BaudTick
  PROVE  "EV_UTX" \in informed' \/ bitTxCnt' > bitTxCnt
<1>1. ShiftsOut
  BY DEF AloneInv, ShiftsOut
<1>2. TxEnds => "EV_UTX" \in informed'
  BY DEF BaudTick
<1>3. ~TxEnds => bitTxCnt' = bitTxCnt + 1
  BY <1>1 DEF BaudTick, Shift_out
<1> QED
  BY <1>2, <1>3 DEF TypeOK

\* A byte that is sent while nothing is received and UxCSR is left alone comes
\* nearer to its end with every tick, for frames of any length and however often
\* the program changes it: the shared bit ACTIVE cannot stop it.
THEOREM TransmissionAlwaysNears == Spec => TransmissionNears
<1>1. TypeOK /\ AloneInv /\ [Next]_vars =>
        [TX /\ alone =>
           /\ bitTxCnt < DataBits + 4
           /\ BaudTick => "EV_UTX" \in informed' \/ bitTxCnt' > bitTxCnt
           /\ ~BaudTick /\ alone' => TX' /\ bitTxCnt' = bitTxCnt]_vars
  <2> SUFFICES ASSUME TypeOK, AloneInv, Next, TX, alone
               PROVE  /\ bitTxCnt < DataBits + 4
                      /\ BaudTick => "EV_UTX" \in informed' \/ bitTxCnt' > bitTxCnt
                      /\ ~BaudTick /\ alone' => TX' /\ bitTxCnt' = bitTxCnt
    OBVIOUS
  <2>1. bitTxCnt < DataBits + 4
    BY DEF TypeOK
  <2>2. BaudTick => "EV_UTX" \in informed' \/ bitTxCnt' > bitTxCnt
    BY AloneTick
  <2>3. ASSUME Software, alone' PROVE TX' /\ bitTxCnt' = bitTxCnt
    BY <2>3 DEF Software, WriteDBUF, WriteCSR, WriteUCR, WriteBaud, Reset, tx
  <2> QED
    BY <2>1, <2>2, <2>3 DEF Next
<1> QED
  BY <1>1, SpecAlone, PTL DEF Spec, TransmissionNears

-----------------------------------------------------------------------------
(* A byte of eight bits is sent.                                           *)

\* At least n bits of a byte that is sent alone are out, or it is done with.
Sending(n) == TX /\ alone /\ ticking /\ bitTxCnt >= n
Over == "EV_UTX" \in informed \/ ~alone

\* A bit that is out stays out, and the tick brings the next one.
LEMMA SendingStep ==
  ASSUME TypeOK, AloneInv, [Next]_vars, NEW n \in Nat, Sending(n)
  PROVE  /\ Sending(n)' \/ Over'
         /\ <<BaudTick>>_vars => Sending(n + 1)' \/ Over'
<1> SUFFICES ASSUME ~Over'
             PROVE  /\ Sending(n)' \/ Over'
                    /\ <<BaudTick>>_vars => Sending(n + 1)' \/ Over'
  OBVIOUS
<1>1. TX /\ alone /\ ticking /\ bitTxCnt >= n /\ bitTxCnt \in Nat /\ alone'
  BY DEF Sending, Over, TypeOK
<1>2. CASE BaudTick
  <2>1. bitTxCnt' > bitTxCnt
    BY <1>1, <1>2, AloneTick DEF Over
  <2>2. TX' /\ ticking'
    BY <1>1, <1>2 DEF BaudTick
  <2>3. bitTxCnt' \in Nat
    BY TypeStep DEF TypeOK
  <2> QED
    BY <1>1, <2>1, <2>2, <2>3 DEF Sending
<1>3. CASE Software /\ ~BaudTick
  <2>1. TX' /\ bitTxCnt' = bitTxCnt
    BY <1>1, <1>3 DEF Software, WriteDBUF, WriteCSR, WriteUCR, WriteBaud, Reset, tx
  <2>2. ticking'
    BY <1>1, <1>3 DEF Software, WriteDBUF, WriteCSR, WriteUCR, WriteBaud, Reset
  <2> QED
    BY <1>1, <1>3, <2>1, <2>2 DEF Sending
<1>4. CASE UNCHANGED vars /\ ~BaudTick
  <2>1. UNCHANGED <<TX, alone, ticking, bitTxCnt>>
    BY <1>4 DEF vars, tx, history
  <2> QED
    BY <1>1, <1>4, <2>1 DEF Sending
<1> QED
  BY <1>2, <1>3, <1>4 DEF Next

\* One bit after the other goes out.
Goes(n, m) ==
  /\ Sending(n) /\ [Next]_vars => Sending(n)' \/ Over'
  /\ Sending(n) /\ <<BaudTick>>_vars => Sending(m)' \/ Over'

LEMMA BitsGo ==
  TypeOK /\ AloneInv /\ [Next]_vars =>
    /\ Goes(0, 1) /\ Goes(1, 2) /\ Goes(2, 3) /\ Goes(3, 4) /\ Goes(4, 5) /\ Goes(5, 6)
    /\ Goes(6, 7) /\ Goes(7, 8) /\ Goes(8, 9) /\ Goes(9, 10) /\ Goes(10, 11) /\ Goes(11, 12)
<1>1. ASSUME TypeOK, AloneInv, [Next]_vars, NEW n \in Nat
      PROVE  Goes(n, n + 1)
  BY <1>1, SendingStep DEF Goes
<1>2. ASSUME TypeOK, AloneInv, [Next]_vars, NEW n \in Nat, NEW m \in Nat, m = n + 1
      PROVE  Goes(n, m)
  BY <1>1, <1>2
<1> QED
  BY <1>2

\* A byte of eight bits, the code's, that is sent while nothing is received and
\* UxCSR is left alone is sent in the end: at most eleven bits are counted.
THEOREM BytesAreSent ==
  ASSUME DataBits = 8
  PROVE  FairSpec /\ []TransmitterTicks => TransmissionEnds
<1>1. TypeOK => ~Sending(12)
  BY DEF TypeOK, Sending
<1>2. TypeOK /\ TX /\ alone /\ ticking => Sending(0)
  BY DEF TypeOK, Sending
<1>3. Over <=> "EV_UTX" \in informed \/ ~alone
  BY DEF Over
<1>4. TransmitterTicks => (Sending(0) => ENABLED <<BaudTick>>_vars)
  BY DEF TransmitterTicks, Sending
<1> QED
  BY <1>1, <1>2, <1>3, <1>4, BitsGo, SpecAlone, PTL
  DEF FairSpec, Spec, TransmissionEnds, Goes
=============================================================================
