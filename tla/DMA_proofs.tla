----------------------------- MODULE DMA_proofs -----------------------------
(***************************************************************************)
(* Proofs about DMA for any number of channels and any descriptors. The    *)
(* inductive invariant adds two facts to the types: a channel that the     *)
(* instruction armed is idle and armed before its step of this tick and    *)
(* loads after it, and the count of a session is positive except before    *)
(* the first element.                                                      *)
(***************************************************************************)
EXTENDS DMA, TLAPS

ArmInv == \A i \in arming :
  IF i < turn THEN InState(i, "LoadDMAChannelConfig")
              ELSE InState(i, "DMAChannelIdle") /\ tabDMACh[i].armed

CountInv == \A i \in Channels : InSession(i) =>
  /\ tabDMACh[i].TransferCount >= 0
  /\ tabDMACh[i].TransferCount = 0 => tabDMACh[i].moved = 0

IInv == TypeOK /\ ArmInv /\ CountInv

LEMMA ClearedType == Cleared \in DMAchannel
BY DEF Cleared, DMAchannel, States

LEMMA ChannelsInt == \A i \in Channels : i \in Nat /\ i < N /\ i + 1 \in 0 .. N
BY DMAAssumption DEF Channels

LEMMA InitIInv == Init => IInv
<1> SUFFICES ASSUME Init PROVE IInv
  OBVIOUS
<1>1. TypeOK
  <2>1. dmaif \in BOOLEAN
    BY Zenon DEF Init
  <2>2. tabDMACh \in [Channels -> DMAchannel]
    BY ClearedType DEF Init
  <2> QED
    BY <2>1, <2>2, DMAAssumption DEF Init, TypeOK
<1>2. ArmInv /\ CountInv
  BY DEF Init, ArmInv, CountInv, InSession, InState, Cleared
<1> QED
  BY <1>1, <1>2 DEF IInv

LEMMA FlagTypes ==
  ASSUME NEW c \in DMAchannel, NEW b \in BOOLEAN
  PROVE  /\ [c EXCEPT !.armed = b] \in DMAchannel
         /\ [c EXCEPT !.triggered = b] \in DMAchannel
         /\ [c EXCEPT !.ITmask = b] \in DMAchannel
BY DEF DMAchannel

\* c and d differ in armed, triggered and ITmask at most.
SameSession(c, d) == /\ d.DmaChState = c.DmaChState
                     /\ d.TransferCount = c.TransferCount
                     /\ d.moved = c.moved

LEMMA FlagsSameSession ==
  ASSUME NEW c \in DMAchannel, NEW b
  PROVE  /\ SameSession(c, [c EXCEPT !.armed = b])
         /\ SameSession(c, [c EXCEPT !.triggered = b])
         /\ SameSession(c, [c EXCEPT !.ITmask = b])
BY DEF DMAchannel, SameSession

\* What the handlers of a write and of an event have in common.
FlagsOnly ==
  /\ tabDMACh' \in [Channels -> DMAchannel]
  /\ \A i \in Channels : SameSession(tabDMACh[i], tabDMACh'[i])
  /\ dmaarm' \subseteq Channels \union {ABORT} /\ dmairq' \subseteq Channels
  /\ dmaif' \in BOOLEAN

ArmedKept == \A i \in Channels : tabDMACh'[i].armed = tabDMACh[i].armed

Armings == SUBSET (Channels \union {ABORT})

LEMMA WritesFlags ==
  ASSUME TypeOK
  PROVE  /\ OtherInstruction \/ WriteOther => FlagsOnly /\ ArmedKept
         /\ \A trigger : Happen(trigger) => FlagsOnly /\ ArmedKept
         /\ \A bits \in Armings : WriteDMAARM(bits) => FlagsOnly
<1>0. /\ tabDMACh \in [Channels -> DMAchannel]
      /\ dmaarm \subseteq Channels \union {ABORT} /\ dmairq \subseteq Channels
      /\ dmaif \in BOOLEAN
  BY DEF TypeOK
<1> USE DEF FlagsOnly, ArmedKept
<1>1. OtherInstruction => FlagsOnly /\ ArmedKept
  BY <1>0 DEF OtherInstruction, SameSession, regs
<1>2. ASSUME NEW bits \in Armings, WriteDMAARM(bits) PROVE FlagsOnly
  <2> DEFINE b(i) == ABORT \notin bits /\ i \in bits
  <2>1. tabDMACh' = [i \in Channels |-> [tabDMACh[i] EXCEPT !.armed = b(i)]]
    BY <1>2 DEF WriteDMAARM
  <2>2. \A i \in Channels : b(i) \in BOOLEAN
    BY Zenon
  <2> HIDE DEF b
  <2>3. ASSUME NEW i \in Channels
        PROVE  /\ tabDMACh'[i] \in DMAchannel
               /\ SameSession(tabDMACh[i], tabDMACh'[i])
    <3>1. tabDMACh[i] \in DMAchannel /\ b(i) \in BOOLEAN
      BY <1>0, <2>2
    <3>2. tabDMACh'[i] = [tabDMACh[i] EXCEPT !.armed = b(i)]
      BY <2>1
    <3> QED
      BY <3>1, <3>2, FlagTypes, FlagsSameSession, Zenon
  <2>4. tabDMACh' \in [Channels -> DMAchannel]
    BY <2>1, <2>3
  <2> QED
    BY <1>0, <1>2, <2>3, <2>4 DEF WriteDMAARM, Armings
<1>3. ASSUME NEW bits \in SUBSET Channels, WriteDMAREQ(bits) PROVE FlagsOnly /\ ArmedKept
  <2> DEFINE b(i) == tabDMACh[i].triggered \/ i \in bits
  <2>1. tabDMACh' = [i \in Channels |-> [tabDMACh[i] EXCEPT !.triggered = b(i)]]
    BY <1>3 DEF WriteDMAREQ
  <2>2. \A i \in Channels : b(i) \in BOOLEAN
    BY Zenon
  <2> HIDE DEF b
  <2>3. ASSUME NEW i \in Channels
        PROVE  /\ tabDMACh'[i] \in DMAchannel
               /\ SameSession(tabDMACh[i], tabDMACh'[i])
               /\ tabDMACh'[i].armed = tabDMACh[i].armed
    <3>1. tabDMACh[i] \in DMAchannel /\ b(i) \in BOOLEAN
      BY <1>0, <2>2
    <3>2. tabDMACh'[i] = [tabDMACh[i] EXCEPT !.triggered = b(i)]
      BY <2>1
    <3>3. tabDMACh'[i] \in DMAchannel /\ SameSession(tabDMACh[i], tabDMACh'[i])
      BY <3>1, <3>2, FlagTypes, FlagsSameSession, Zenon
    <3>4. tabDMACh'[i].armed = tabDMACh[i].armed
      BY <3>1, <3>2 DEF DMAchannel
    <3> QED
      BY <3>3, <3>4
  <2>4. tabDMACh' \in [Channels -> DMAchannel]
    BY <2>1, <2>3
  <2> QED
    BY <1>0, <1>3, <2>3, <2>4 DEF WriteDMAREQ, regs
<1>4. ASSUME NEW bits \in SUBSET Channels, WriteDMAIRQ(bits) PROVE FlagsOnly /\ ArmedKept
  <2> DEFINE b(i) == tabDMACh[i].ITmask \/ i \in bits
  <2>1. tabDMACh' = [i \in Channels |-> [tabDMACh[i] EXCEPT !.ITmask = b(i)]]
    BY <1>4 DEF WriteDMAIRQ
  <2>2. \A i \in Channels : b(i) \in BOOLEAN
    BY Zenon
  <2> HIDE DEF b
  <2>3. ASSUME NEW i \in Channels
        PROVE  /\ tabDMACh'[i] \in DMAchannel
               /\ SameSession(tabDMACh[i], tabDMACh'[i])
               /\ tabDMACh'[i].armed = tabDMACh[i].armed
    <3>1. tabDMACh[i] \in DMAchannel /\ b(i) \in BOOLEAN
      BY <1>0, <2>2
    <3>2. tabDMACh'[i] = [tabDMACh[i] EXCEPT !.ITmask = b(i)]
      BY <2>1
    <3>3. tabDMACh'[i] \in DMAchannel /\ SameSession(tabDMACh[i], tabDMACh'[i])
      BY <3>1, <3>2, FlagTypes, FlagsSameSession, Zenon
    <3>4. tabDMACh'[i].armed = tabDMACh[i].armed
      BY <3>1, <3>2 DEF DMAchannel
    <3> QED
      BY <3>3, <3>4
  <2>4. tabDMACh' \in [Channels -> DMAchannel]
    BY <2>1, <2>3
  <2> QED
    BY <1>0, <1>4, <2>3, <2>4 DEF WriteDMAIRQ
<1>5. ASSUME NEW bit \in BOOLEAN, WriteIRCON(bit) PROVE FlagsOnly /\ ArmedKept
  BY <1>0, <1>5 DEF WriteIRCON, SameSession
<1>6. ASSUME NEW trigger, Happen(trigger) PROVE FlagsOnly /\ ArmedKept
  <2> DEFINE b(i) == tabDMACh[i].triggered \/ tabDMACh[i].TriggerEvent = trigger
  <2>1. tabDMACh' = [i \in Channels |-> [tabDMACh[i] EXCEPT !.triggered = b(i)]]
    BY <1>6 DEF Happen
  <2>2. \A i \in Channels : b(i) \in BOOLEAN
    BY Zenon
  <2> HIDE DEF b
  <2>3. ASSUME NEW i \in Channels
        PROVE  /\ tabDMACh'[i] \in DMAchannel
               /\ SameSession(tabDMACh[i], tabDMACh'[i])
               /\ tabDMACh'[i].armed = tabDMACh[i].armed
    <3>1. tabDMACh[i] \in DMAchannel /\ b(i) \in BOOLEAN
      BY <1>0, <2>2
    <3>2. tabDMACh'[i] = [tabDMACh[i] EXCEPT !.triggered = b(i)]
      BY <2>1
    <3>3. tabDMACh'[i] \in DMAchannel /\ SameSession(tabDMACh[i], tabDMACh'[i])
      BY <3>1, <3>2, FlagTypes, FlagsSameSession, Zenon
    <3>4. tabDMACh'[i].armed = tabDMACh[i].armed
      BY <3>1, <3>2 DEF DMAchannel
    <3> QED
      BY <3>3, <3>4
  <2>4. tabDMACh' \in [Channels -> DMAchannel]
    BY <2>1, <2>3
  <2> QED
    BY <1>0, <1>6, <2>3, <2>4 DEF Happen, regs
<1> QED
  BY <1>1, <1>2, <1>3, <1>4, <1>5, <1>6 DEF WriteOther

\* What happens beside the steps of the channels: instructions, bytes moved into
\* the registers, events.
Outside ==
  \/ Software
  \/ ByteToRegister
  \/ \E trigger \in Triggers \union {NoTrigger} : Happen(trigger)

LEMMA OutsideWrites ==
  ASSUME Outside
  PROVE  \/ OtherInstruction \/ WriteOther
         \/ \E bits \in Armings : WriteDMAARM(bits)
         \/ \E trigger : Happen(trigger)
BY DEF Outside, Software, ByteToRegister, Armings

LEMMA OutsideFlags ==
  ASSUME TypeOK, Outside
  PROVE  FlagsOnly
BY OutsideWrites, WritesFlags

\* An instruction begins the tick; a byte or an event keeps the channels that
\* are idle and counted as armed that way.
ArmingsKept ==
  \/ /\ turn' = 0
     /\ \A i \in arming' : i \in Channels /\ InState(i, "DMAChannelIdle") /\ tabDMACh'[i].armed
  \/ /\ turn' = turn /\ arming' \subseteq arming
     /\ \A i \in arming' : InState(i, "DMAChannelIdle") => tabDMACh'[i].armed = tabDMACh[i].armed

LEMMA OutsideArmings ==
  ASSUME TypeOK, Outside
  PROVE  ArmingsKept
<1>1. CASE Software
  BY <1>1 DEF Software, Instruction, ArmingsKept
<1>2. CASE ByteToRegister
  <2>1. CASE WriteOther /\ UNCHANGED <<turn, arming>>
    BY <2>1, WritesFlags DEF ArmingsKept, ArmedKept, TypeOK
  <2>2. CASE turn' = turn /\ arming' = {i \in arming : ~InState(i, "DMAChannelIdle")}
    BY <2>2 DEF ArmingsKept
  <2> QED
    BY <1>2, <2>1, <2>2 DEF ByteToRegister
<1>3. ASSUME NEW trigger, Happen(trigger) PROVE ArmingsKept
  <2>1. UNCHANGED <<turn, arming>>
    BY <1>3 DEF Happen
  <2> QED
    BY <1>3, <2>1, WritesFlags DEF ArmingsKept, ArmedKept, TypeOK
<1> QED
  BY <1>1, <1>2, <1>3 DEF Outside

LEMMA OutsideIInv ==
  ASSUME IInv, Outside
  PROVE  IInv'
<1>0. TypeOK /\ FlagsOnly /\ ArmingsKept
  BY OutsideFlags, OutsideArmings DEF IInv
<1>1. TypeOK'
  BY <1>0, DMAAssumption DEF TypeOK, FlagsOnly, ArmingsKept
<1>2. ArmInv'
  <2>1. \A i \in Channels : \A st : InState(i, st)' <=> InState(i, st)
    BY <1>0 DEF InState, FlagsOnly, SameSession
  <2>2. CASE /\ turn' = 0
             /\ \A i \in arming' : /\ i \in Channels /\ InState(i, "DMAChannelIdle")
                                   /\ tabDMACh'[i].armed
    BY <2>1, <2>2, ChannelsInt DEF ArmInv
  <2>3. CASE /\ turn' = turn /\ arming' \subseteq arming
             /\ \A i \in arming' :
                  InState(i, "DMAChannelIdle") => tabDMACh'[i].armed = tabDMACh[i].armed
    BY <1>0, <2>1, <2>3 DEF IInv, ArmInv, TypeOK
  <2> QED
    BY <1>0, <2>2, <2>3 DEF ArmingsKept
<1>3. CountInv'
  BY <1>0 DEF IInv, CountInv, InSession, InState, FlagsOnly, SameSession
<1> QED
  BY <1>1, <1>2, <1>3 DEF IInv

\* A step of one channel: what has to be shown of its new record.
LEMMA BecomesIInv ==
  ASSUME IInv, NEW i \in Channels, NEW channel \in DMAchannel, Becomes(i, channel),
         dmaarm' \subseteq Channels \union {ABORT}, dmairq' \subseteq Channels,
         dmaif' \in BOOLEAN,
         InState(i, "DMAChannelIdle") /\ tabDMACh[i].armed =>
           channel.DmaChState = "LoadDMAChannelConfig",
         channel.DmaChState \in {"DMAChannelArmed", "TransferOneByteOrWord"} =>
           /\ channel.TransferCount >= 0
           /\ channel.TransferCount = 0 => channel.moved = 0
  PROVE  IInv'
<1>1. /\ tabDMACh' \in [Channels -> DMAchannel]
      /\ tabDMACh'[i] = channel
      /\ \A j \in Channels : j # i => tabDMACh'[j] = tabDMACh[j]
      /\ turn = i /\ turn' = i + 1 /\ arming' = arming /\ arming \subseteq Channels
  BY DEF Becomes, IInv, TypeOK
<1>2. TypeOK'
  BY <1>1, ChannelsInt DEF TypeOK
<1>3. ArmInv'
  <2> SUFFICES ASSUME NEW j \in arming
               PROVE  IF j < i + 1 THEN InState(j, "LoadDMAChannelConfig")'
                      ELSE InState(j, "DMAChannelIdle")' /\ tabDMACh'[j].armed
    BY <1>1 DEF ArmInv
  <2>1. CASE j = i
    BY <1>1, <2>1, ChannelsInt DEF IInv, ArmInv, InState
  <2>2. CASE j # i
    <3>1. j \in Channels /\ tabDMACh'[j] = tabDMACh[j] /\ (j < i + 1 <=> j < i)
      BY <1>1, <2>2, ChannelsInt
    <3> QED
      BY <1>1, <3>1 DEF IInv, ArmInv, InState
  <2> QED
    BY <2>1, <2>2
<1>4. CountInv'
  <2> SUFFICES ASSUME NEW j \in Channels, InSession(j)'
               PROVE  /\ tabDMACh'[j].TransferCount >= 0
                      /\ tabDMACh'[j].TransferCount = 0 => tabDMACh'[j].moved = 0
    BY DEF CountInv
  <2>1. CASE j = i
    BY <1>1, <2>1 DEF InSession, InState
  <2>2. CASE j # i
    BY <1>1, <2>2 DEF IInv, CountInv, InSession, InState
  <2> QED
    BY <2>1, <2>2
<1> QED
  BY <1>2, <1>3, <1>4 DEF IInv

LEMMA LoadedType ==
  ASSUME NEW desc \in Descriptors,
         NEW count \in (IF desc.varlen THEN 0 ELSE desc.LEN) .. desc.LEN
  PROVE  /\ Loaded(desc, count) \in DMAchannel
         /\ Loaded(desc, count).DmaChState = "DMAChannelArmed"
         /\ Loaded(desc, count).TransferCount = count
         /\ Loaded(desc, count).moved = 0
         /\ count \in Nat
<1>1. desc \in Descriptor
  BY DMAAssumption
<1>2. count \in Nat
  BY <1>1 DEF Descriptor
<1> QED
  BY <1>1, <1>2 DEF Descriptor, Loaded, Cleared, DMAchannel, States

LEMMA MovedType ==
  ASSUME NEW c \in DMAchannel, c.TransferCount >= 0,
         NEW st \in States
  PROVE  /\ [Moved(c) EXCEPT !.DmaChState = st] \in DMAchannel
         /\ [Moved(c) EXCEPT !.DmaChState = st].DmaChState = st
         /\ [Moved(c) EXCEPT !.DmaChState = st].TransferCount = c.TransferCount - 1
         /\ [Moved(c) EXCEPT !.DmaChState = st].moved = c.moved + 1
         /\ Moved(c).DmaChState = c.DmaChState
<1>1. c.TransferCount - 1 \in Nat \union {-1} /\ c.moved + 1 \in Nat
  BY DEF DMAchannel
<1> QED
  BY <1>1 DEF Moved, DMAchannel

LEMMA StateTransIInv ==
  ASSUME IInv, NEW i \in Channels, StateTrans(i)
  PROVE  IInv'
<1> DEFINE c == tabDMACh[i]
<1>0. /\ c \in DMAchannel
      /\ dmaarm \subseteq Channels \union {ABORT} /\ dmairq \subseteq Channels
      /\ dmaif \in BOOLEAN
      /\ InSession(i) => c.TransferCount >= 0 /\ (c.TransferCount = 0 => c.moved = 0)
  BY DEF IInv, TypeOK, CountInv
<1>1. CASE Wait(i)
  BY <1>0, <1>1, BecomesIInv DEF Wait, InState, InSession, regs
<1>2. CASE LeaveIdle(i)
  <2> DEFINE d == [c EXCEPT !.DmaChState = "LoadDMAChannelConfig"]
  <2>1. d \in DMAchannel /\ d.DmaChState = "LoadDMAChannelConfig"
    BY <1>0 DEF DMAchannel, States
  <2>2. Becomes(i, d) /\ UNCHANGED regs
    BY <1>2 DEF LeaveIdle
  <2> HIDE DEF d
  <2> QED
    BY <1>0, <2>1, <2>2, BecomesIInv DEF regs
<1>3. CASE LoadConfig(i)
  <2>1. PICK desc \in Descriptors :
          \E count \in (IF desc.varlen THEN 0 ELSE desc.LEN) .. desc.LEN :
            Becomes(i, Loaded(desc, count))
    BY <1>3 DEF LoadConfig
  <2>2. PICK count \in (IF desc.varlen THEN 0 ELSE desc.LEN) .. desc.LEN :
            Becomes(i, Loaded(desc, count))
    BY <2>1
  <2>3. UNCHANGED regs /\ ~InState(i, "DMAChannelIdle")
    BY <1>3 DEF LoadConfig, InState
  <2> QED
    BY <1>0, <2>2, <2>3, LoadedType, BecomesIInv DEF regs
<1>4. CASE StartTransfer(i)
  <2> DEFINE d == [c EXCEPT !.triggered = FALSE, !.DmaChState = "TransferOneByteOrWord"]
  <2>1. /\ d \in DMAchannel /\ d.DmaChState = "TransferOneByteOrWord"
        /\ d.TransferCount = c.TransferCount /\ d.moved = c.moved
    BY <1>0 DEF DMAchannel, States
  <2>2. Becomes(i, d) /\ UNCHANGED regs /\ InSession(i) /\ ~InState(i, "DMAChannelIdle")
    BY <1>4 DEF StartTransfer, InSession, InState
  <2> HIDE DEF d
  <2> QED
    BY <1>0, <2>1, <2>2, BecomesIInv DEF regs
<1>5. CASE TransferOne(i)
  <2> DEFINE st == IF c.single /\ ~c.triggered THEN "DMAChannelArmed"
                                             ELSE "TransferOneByteOrWord"
             d == [Moved(c) EXCEPT !.DmaChState = st]
  <2>1. InSession(i) /\ c.DmaChState = "TransferOneByteOrWord" /\ c.TransferCount - 1 > 0
    BY <1>0, <1>5 DEF TransferOne, InSession, InState, Last, DMAchannel
  <2>2. /\ d \in DMAchannel /\ d.DmaChState \in {"DMAChannelArmed", "TransferOneByteOrWord"}
        /\ d.TransferCount > 0
    <3>1. st \in States /\ st \in {"DMAChannelArmed", "TransferOneByteOrWord"}
      BY DEF States
    <3> HIDE DEF st
    <3> QED
      BY <1>0, <2>1, <3>1, MovedType
  <2>3. Becomes(i, d) /\ UNCHANGED regs
    BY <1>0, <1>5, <2>1, MovedType, ZenonT(60) DEF TransferOne, States
  <2>4. ~InState(i, "DMAChannelIdle")
    BY <2>1 DEF InState
  <2> HIDE DEF d
  <2> QED
    BY <1>0, <2>2, <2>3, <2>4, BecomesIInv DEF regs, DMAchannel
<1>6. CASE TransferLast(i)
  <2> DEFINE st == IF c.repeated THEN "LoadDMAChannelConfig" ELSE "DisarmChannel"
             d == [Moved(c) EXCEPT !.DmaChState = st]
  <2>1. InSession(i) /\ ~InState(i, "DMAChannelIdle")
    BY <1>6 DEF TransferLast, InSession, InState
  <2>2. d \in DMAchannel /\ d.DmaChState \in {"LoadDMAChannelConfig", "DisarmChannel"}
    <3>1. st \in States /\ st \in {"LoadDMAChannelConfig", "DisarmChannel"}
      BY DEF States
    <3> HIDE DEF st
    <3> QED
      BY <1>0, <2>1, <3>1, MovedType
  <2>3. Becomes(i, d)
    BY <1>6 DEF TransferLast
  <2>4. dmaif' \in BOOLEAN
    BY <1>0, <1>6 DEF TransferLast, DMAchannel
  <2>5. dmaarm' \subseteq Channels \union {ABORT} /\ dmairq' \subseteq Channels
    BY <1>0, <1>6 DEF TransferLast
  <2> HIDE DEF d
  <2> QED
    BY <2>1, <2>2, <2>3, <2>4, <2>5, BecomesIInv
<1>7. CASE Disarm(i)
  <2> DEFINE d == [c EXCEPT !.armed = FALSE, !.DmaChState = "DMAChannelIdle"]
  <2>1. d \in DMAchannel /\ d.DmaChState = "DMAChannelIdle" /\ ~d.armed
    BY <1>0 DEF DMAchannel, States
  <2>2. Becomes(i, d) /\ UNCHANGED regs /\ ~InState(i, "DMAChannelIdle")
    BY <1>7 DEF Disarm, InState
  <2> HIDE DEF d
  <2> QED
    BY <1>0, <2>1, <2>2, BecomesIInv DEF regs
<1> QED
  BY <1>1, <1>2, <1>3, <1>4, <1>5, <1>6, <1>7 DEF StateTrans

LEMMA NextIInv == IInv /\ [Next]_vars => IInv'
<1> SUFFICES ASSUME IInv, [Next]_vars PROVE IInv'
  OBVIOUS
<1>1. CASE Reset
  <2>1. TypeOK'
    BY <1>1, ClearedType DEF Reset, IInv, TypeOK
  <2>2. ArmInv' /\ CountInv'
    BY <1>1 DEF Reset, ArmInv, CountInv, InSession, InState, Cleared
  <2> QED
    BY <2>1, <2>2 DEF IInv
<1>2. CASE UNCHANGED vars
  BY <1>2 DEF vars, regs, IInv, TypeOK, ArmInv, CountInv, InSession, InState
<1> QED
  BY <1>1, <1>2, OutsideIInv, StateTransIInv DEF Next, ListedEvent, UnlistedEvent, Outside

LEMMA SpecIInv == Spec => []IInv
BY InitIInv, NextIInv, PTL DEF Spec

\* Every variable keeps its type; the count of a channel never falls below -1.
THEOREM TypeCorrect == Spec => []TypeOK
<1>1. IInv => TypeOK
  BY DEF IInv
<1> QED
  BY <1>1, SpecIInv, PTL

\* Arming an idle channel is undone by no instruction that arms another one.
THEOREM ArmAlwaysHeard == Spec => []ArmIsHeard
<1>1. IInv => ArmIsHeard
  BY ChannelsInt DEF IInv, TypeOK, ArmInv, ArmIsHeard
<1> QED
  BY <1>1, SpecIInv, PTL

-----------------------------------------------------------------------------
(* The sessions.                                                           *)

Pending == [i \in Channels |-> ToMove(i)]

\* A step of channel i changes the elements channel i has to move, only.
LEMMA OnePending ==
  ASSUME IInv, NEW i \in Channels, NEW channel \in DMAchannel, Becomes(i, channel)
  PROVE  /\ tabDMACh'[i] = channel
         /\ Pending' = [Pending EXCEPT ![i] = Pending'[i]]
<1>1. /\ tabDMACh'[i] = channel
      /\ \A j \in Channels : j # i => tabDMACh'[j] = tabDMACh[j]
  BY DEF Becomes, IInv, TypeOK
<1>2. \A j \in Channels : j # i => ToMove(j)' = ToMove(j)
  BY <1>1 DEF ToMove, InSession, InState
<1> QED
  BY <1>1, <1>2 DEF Pending

LEMMA StateTransSession ==
  ASSUME IInv, NEW i \in Channels, StateTrans(i)
  PROVE  \/ Pending' = Pending /\ dmairq' = dmairq
         \/ /\ Pending[i] = 0
            /\ Pending'[i] \in Nat \ {0}
            /\ Pending' = [Pending EXCEPT ![i] = Pending'[i]]
            /\ dmairq' = dmairq
         \/ /\ Pending[i] > 1
            /\ Pending' = [Pending EXCEPT ![i] = Pending[i] - 1]
            /\ dmairq' = dmairq
         \/ /\ Pending[i] = 1
            /\ Pending' = [Pending EXCEPT ![i] = 0]
            /\ dmairq' = dmairq \union {i}
<1> DEFINE c == tabDMACh[i]
<1>0. /\ c \in DMAchannel
      /\ InSession(i) => c.TransferCount >= 0 /\ (c.TransferCount = 0 => c.moved = 0)
      /\ Pending[i] = ToMove(i) /\ Pending'[i] = ToMove(i)'
      /\ Pending \in [Channels -> {Pending[j] : j \in Channels}]
  BY DEF IInv, TypeOK, CountInv, Pending
<1>1. CASE Wait(i) \/ LeaveIdle(i) \/ StartTransfer(i) \/ Disarm(i)
  <2>1. PICK d \in DMAchannel :
          /\ Becomes(i, d) /\ UNCHANGED regs
          /\ \/ d = c
             \/ /\ c.DmaChState \in {"DMAChannelIdle", "DisarmChannel"}
                /\ d.DmaChState \in {"LoadDMAChannelConfig", "DMAChannelIdle"}
             \/ /\ c.DmaChState = "DMAChannelArmed"
                /\ d.DmaChState = "TransferOneByteOrWord"
                /\ d.TransferCount = c.TransferCount /\ d.moved = c.moved
    <3>1. CASE Wait(i)
      BY <1>0, <3>1 DEF Wait
    <3>2. CASE LeaveIdle(i)
      <4> DEFINE d == [c EXCEPT !.DmaChState = "LoadDMAChannelConfig"]
      <4>1. d \in DMAchannel /\ d.DmaChState = "LoadDMAChannelConfig"
        BY <1>0 DEF DMAchannel, States
      <4>2. Becomes(i, d) /\ UNCHANGED regs /\ c.DmaChState = "DMAChannelIdle"
        BY <3>2 DEF LeaveIdle, InState
      <4> HIDE DEF d
      <4> QED
        BY <4>1, <4>2
    <3>3. CASE StartTransfer(i)
      <4> DEFINE d == [c EXCEPT !.triggered = FALSE, !.DmaChState = "TransferOneByteOrWord"]
      <4>1. /\ d \in DMAchannel /\ d.DmaChState = "TransferOneByteOrWord"
            /\ d.TransferCount = c.TransferCount /\ d.moved = c.moved
        BY <1>0 DEF DMAchannel, States
      <4>2. Becomes(i, d) /\ UNCHANGED regs /\ c.DmaChState = "DMAChannelArmed"
        BY <3>3 DEF StartTransfer, InState
      <4> HIDE DEF d
      <4> QED
        BY <4>1, <4>2
    <3>4. CASE Disarm(i)
      <4> DEFINE d == [c EXCEPT !.armed = FALSE, !.DmaChState = "DMAChannelIdle"]
      <4>1. d \in DMAchannel /\ d.DmaChState = "DMAChannelIdle"
        BY <1>0 DEF DMAchannel, States
      <4>2. Becomes(i, d) /\ UNCHANGED regs /\ c.DmaChState = "DisarmChannel"
        BY <3>4 DEF Disarm, InState
      <4> HIDE DEF d
      <4> QED
        BY <4>1, <4>2
    <3> QED
      BY <1>1, <3>1, <3>2, <3>3, <3>4
  <2>2. tabDMACh'[i] = d /\ Pending' = [Pending EXCEPT ![i] = Pending'[i]]
    BY <2>1, OnePending
  <2>3. ToMove(i)' = ToMove(i)
    BY <2>1, <2>2 DEF ToMove, InSession, InState
  <2>4. Pending' = Pending
    BY <1>0, <2>2, <2>3
  <2> QED
    BY <2>1, <2>4 DEF regs
<1>2. CASE LoadConfig(i)
  <2>1. PICK desc \in Descriptors :
          \E count \in (IF desc.varlen THEN 0 ELSE desc.LEN) .. desc.LEN :
            Becomes(i, Loaded(desc, count))
    BY <1>2 DEF LoadConfig
  <2>2. PICK count \in (IF desc.varlen THEN 0 ELSE desc.LEN) .. desc.LEN :
            Becomes(i, Loaded(desc, count))
    BY <2>1
  <2> DEFINE d == Loaded(desc, count)
  <2>3. /\ d \in DMAchannel /\ d.DmaChState = "DMAChannelArmed"
        /\ d.TransferCount = count /\ d.moved = 0 /\ count \in Nat
    BY LoadedType
  <2>4. Becomes(i, d)
    BY <2>2
  <2> HIDE DEF d
  <2>5. tabDMACh'[i] = d /\ Pending' = [Pending EXCEPT ![i] = Pending'[i]]
    BY <2>3, <2>4, OnePending
  <2>6. ToMove(i) = 0 /\ ToMove(i)' \in Nat \ {0}
    BY <1>2, <2>3, <2>5 DEF LoadConfig, ToMove, InSession, InState
  <2> QED
    BY <1>0, <1>2, <2>5, <2>6 DEF LoadConfig, regs
<1>3. CASE TransferOne(i)
  <2> DEFINE st == IF c.single /\ ~c.triggered THEN "DMAChannelArmed"
                                             ELSE "TransferOneByteOrWord"
             d == [Moved(c) EXCEPT !.DmaChState = st]
  <2>1. InSession(i) /\ c.DmaChState = "TransferOneByteOrWord" /\ c.TransferCount - 1 > 0
    BY <1>0, <1>3 DEF TransferOne, InSession, InState, Last, DMAchannel
  <2>2. st \in States /\ st \in {"DMAChannelArmed", "TransferOneByteOrWord"}
    BY DEF States
  <2>3. Becomes(i, d) /\ UNCHANGED regs
    BY <1>0, <1>3, <2>1, MovedType, ZenonT(60) DEF TransferOne, States
  <2>4. /\ d \in DMAchannel /\ d.DmaChState \in {"DMAChannelArmed", "TransferOneByteOrWord"}
        /\ d.TransferCount = c.TransferCount - 1
    <3> HIDE DEF st
    <3> QED
      BY <1>0, <2>1, <2>2, MovedType
  <2> HIDE DEF st, d
  <2>5. tabDMACh'[i] = d /\ Pending' = [Pending EXCEPT ![i] = Pending'[i]]
    BY <2>3, <2>4, OnePending
  <2>6. c.TransferCount \in Nat /\ d.TransferCount > 0 /\ c.TransferCount > 1
    BY <1>0, <2>1, <2>4 DEF DMAchannel
  <2>7. ToMove(i) = c.TransferCount /\ ToMove(i)' = c.TransferCount - 1
    BY <2>1, <2>4, <2>5, <2>6 DEF ToMove, InSession, InState
  <2> QED
    BY <1>0, <2>3, <2>5, <2>6, <2>7 DEF regs
<1>4. CASE TransferLast(i)
  <2> DEFINE st == IF c.repeated THEN "LoadDMAChannelConfig" ELSE "DisarmChannel"
             d == [Moved(c) EXCEPT !.DmaChState = st]
  <2>1. InSession(i) /\ c.TransferCount - 1 <= 0
    BY <1>4 DEF TransferLast, InSession, Last
  <2>2. st \in States /\ st \in {"LoadDMAChannelConfig", "DisarmChannel"}
    BY DEF States
  <2>3. Becomes(i, d) /\ dmairq' = dmairq \union {i}
    BY <1>4 DEF TransferLast
  <2>4. d \in DMAchannel /\ d.DmaChState \in {"LoadDMAChannelConfig", "DisarmChannel"}
    <3> HIDE DEF st
    <3> QED
      BY <1>0, <2>1, <2>2, MovedType
  <2> HIDE DEF st, d
  <2>5. tabDMACh'[i] = d /\ Pending' = [Pending EXCEPT ![i] = Pending'[i]]
    BY <2>3, <2>4, OnePending
  <2>6. c.TransferCount = 0 \/ c.TransferCount = 1
    BY <1>0, <2>1 DEF DMAchannel
  <2>7. ToMove(i) = 1 /\ ToMove(i)' = 0
    BY <1>0, <2>1, <2>4, <2>5, <2>6 DEF ToMove, InSession, InState
  <2> QED
    BY <1>0, <2>3, <2>5, <2>7
<1> QED
  BY <1>1, <1>2, <1>3, <1>4 DEF StateTrans

\* The controller implements the sessions it promises: every step of a channel
\* starts one, moves one element of it or finishes it, and whatever software
\* writes leaves the elements to move as they are.
THEOREM TransferSessionsImplemented == Spec => ImplementsTransferSessions
<1>1. Init => TS!Init
  BY DEF Init, TS!Init, ToMove, InSession, InState, Cleared
<1>2. IInv /\ [Next]_vars => [TS!Next]_<<Pending, dmairq>>
  <2> SUFFICES ASSUME IInv, [Next]_vars
               PROVE  TS!Next \/ UNCHANGED <<Pending, dmairq>>
    OBVIOUS
  <2>1. ASSUME NEW i \in Channels, StateTrans(i)
        PROVE  TS!Next \/ UNCHANGED <<Pending, dmairq>>
    BY <2>1, StateTransSession DEF TS!Next, TS!Start, TS!Move, TS!Finish, Pending
  <2>2. CASE Reset
    <3>1. Pending' = [i \in Channels |-> 0]
      BY <2>2 DEF Reset, Pending, ToMove, InSession, InState, Cleared
    <3> QED
      BY <2>2, <3>1 DEF Reset, TS!Next, TS!Abandon, Pending
  <2>3. CASE Outside
    <3>1. FlagsOnly
      BY <2>3, OutsideFlags DEF IInv
    <3>2. Pending' = Pending
      BY <3>1 DEF FlagsOnly, SameSession, Pending, ToMove, InSession, InState
    <3> QED
      BY <3>1, <3>2 DEF FlagsOnly, TS!Next, TS!Software, Pending
  <2>4. CASE UNCHANGED vars
    BY <2>4 DEF vars, regs, Pending, ToMove, InSession, InState
  <2> QED
    BY <2>1, <2>2, <2>3, <2>4 DEF Next, ListedEvent, UnlistedEvent, Outside
<1> QED
  BY <1>1, <1>2, SpecIInv, PTL DEF Spec, ImplementsTransferSessions, TS!Spec, Pending

-----------------------------------------------------------------------------
(* The triggers.                                                           *)

TriggerLost(i) == tabDMACh[i].triggered /\ ~tabDMACh'[i].triggered

LEMMA OutsideKeepsTriggers ==
  ASSUME TypeOK, NEW i \in Channels, Outside
  PROVE  ~TriggerLost(i)
<1>1. tabDMACh[i] \in DMAchannel
  BY DEF TypeOK
<1>2. CASE OtherInstruction \/ \E bit \in BOOLEAN : WriteIRCON(bit)
  BY <1>2 DEF OtherInstruction, WriteIRCON, TriggerLost
<1>3. ASSUME NEW bits, WriteDMAARM(bits) \/ WriteDMAIRQ(bits) PROVE ~TriggerLost(i)
  BY <1>1, <1>3 DEF WriteDMAARM, WriteDMAIRQ, TriggerLost, DMAchannel
<1>4. ASSUME NEW bits, WriteDMAREQ(bits) PROVE ~TriggerLost(i)
  BY <1>1, <1>4 DEF WriteDMAREQ, TriggerLost, DMAchannel
<1>5. ASSUME NEW trigger, Happen(trigger) PROVE ~TriggerLost(i)
  BY <1>1, <1>5 DEF Happen, TriggerLost, DMAchannel
<1> QED
  BY <1>2, <1>3, <1>4, <1>5, OutsideWrites DEF WriteOther

LEMMA StateTransTriggers ==
  ASSUME TypeOK, NEW j \in Channels, StateTrans(j), NEW i \in Channels, TriggerLost(i)
  PROVE  \/ InState(i, "DMAChannelArmed") /\ InState(i, "TransferOneByteOrWord")'
         \/ InState(i, "LoadDMAChannelConfig")
<1>1. tabDMACh[j] \in DMAchannel /\ tabDMACh \in [Channels -> DMAchannel]
  BY DEF TypeOK
<1>2. i = j
  <2>1. \E channel : Becomes(j, channel)
    BY DEF StateTrans, Wait, LeaveIdle, LoadConfig, StartTransfer, TransferOne,
           TransferLast, Disarm
  <2> QED
    BY <1>1, <2>1 DEF Becomes, TriggerLost
<1>3. ~Wait(j)
  BY <1>1, <1>2 DEF Wait, Becomes, TriggerLost
<1>4. ~LeaveIdle(j) /\ ~Disarm(j)
  BY <1>1, <1>2 DEF LeaveIdle, Disarm, Becomes, TriggerLost, DMAchannel
<1>5. ~TransferOne(j) /\ ~TransferLast(j)
  BY <1>1, <1>2, ZenonT(60) DEF TransferOne, TransferLast, Moved, Becomes, TriggerLost, DMAchannel
<1>6. CASE LoadConfig(j)
  BY <1>2, <1>6 DEF LoadConfig
<1>7. CASE StartTransfer(j)
  <2>1. InState(j, "TransferOneByteOrWord")'
    BY <1>1, <1>7 DEF StartTransfer, Becomes, InState, DMAchannel
  <2> QED
    BY <1>2, <1>7, <2>1 DEF StartTransfer
<1> QED
  BY <1>3, <1>4, <1>5, <1>6, <1>7 DEF StateTrans

\* In a session a trigger is cleared only by the transfer it starts.
THEOREM TriggersAlwaysKept == Spec => TriggersKept
<1>1. TypeOK /\ [Next]_vars =>
        [\A i \in Channels : InSession(i) /\ tabDMACh[i].triggered /\ ~tabDMACh'[i].triggered =>
           \/ InState(i, "DMAChannelArmed") /\ InState(i, "TransferOneByteOrWord")'
           \/ tabDMACh' = [j \in Channels |-> Cleared]]_vars
  <2> SUFFICES ASSUME TypeOK, Next, NEW i \in Channels, InSession(i), TriggerLost(i)
               PROVE  \/ InState(i, "DMAChannelArmed") /\ InState(i, "TransferOneByteOrWord")'
                      \/ tabDMACh' = [j \in Channels |-> Cleared]
    BY DEF TriggerLost
  <2>1. CASE Reset
    BY <2>1 DEF Reset
  <2>2. ~InState(i, "LoadDMAChannelConfig")
    BY DEF InSession, InState
  <2> QED
    BY <2>1, <2>2, OutsideKeepsTriggers, StateTransTriggers
    DEF Next, ListedEvent, UnlistedEvent, Outside
<1> QED
  BY <1>1, TypeCorrect, PTL DEF Spec, TriggersKept

-----------------------------------------------------------------------------
(* A block comes to its end.                                               *)

\* Writes and events leave the mode of a channel and its session alone.
LEMMA OutsideKeepsBlock ==
  ASSUME TypeOK, NEW i \in Channels, Outside
  PROVE  /\ tabDMACh'[i].single = tabDMACh[i].single
         /\ ToMove(i)' = ToMove(i)
         /\ \A st \in States : InState(i, st)' <=> InState(i, st)
<1>1. tabDMACh[i] \in DMAchannel
  BY DEF TypeOK
<1>2. SameSession(tabDMACh[i], tabDMACh'[i])
  BY OutsideFlags DEF FlagsOnly
<1>3. tabDMACh'[i].single = tabDMACh[i].single
  <2>1. CASE OtherInstruction \/ \E bit \in BOOLEAN : WriteIRCON(bit)
    BY <2>1 DEF OtherInstruction, WriteIRCON
  <2>2. ASSUME NEW bits, WriteDMAARM(bits) \/ WriteDMAREQ(bits) \/ WriteDMAIRQ(bits)
        PROVE  tabDMACh'[i].single = tabDMACh[i].single
    BY <1>1, <2>2 DEF WriteDMAARM, WriteDMAREQ, WriteDMAIRQ, DMAchannel
  <2>3. ASSUME NEW trigger, Happen(trigger) PROVE tabDMACh'[i].single = tabDMACh[i].single
    BY <1>1, <2>3 DEF Happen, DMAchannel
  <2> QED
    BY <2>1, <2>2, <2>3, OutsideWrites DEF WriteOther
<1>4. (\A st : InState(i, st)' <=> InState(i, st)) /\ ToMove(i)' = ToMove(i)
  BY <1>2 DEF SameSession, InState, InSession, ToMove
<1> QED
  BY <1>3, <1>4

\* The step of one channel leaves the others as they are.
LEMMA OwnStepOnly ==
  ASSUME TypeOK, NEW j \in Channels, StateTrans(j), NEW i \in Channels, i # j
  PROVE  ~StateTrans(i) /\ tabDMACh'[i] = tabDMACh[i]
<1>1. ASSUME NEW k \in Channels, StateTrans(k) PROVE \E channel : Becomes(k, channel)
  BY <1>1 DEF StateTrans, Wait, LeaveIdle, LoadConfig, StartTransfer, TransferOne,
              TransferLast, Disarm
<1> QED
  BY <1>1 DEF Becomes, TypeOK

\* A step of a channel that moves a block moves one element or ends the session.
LEMMA BlockStep ==
  ASSUME IInv, NEW i \in Channels, StateTrans(i), InBlock(i)
  PROVE  ~InSession(i)' \/ (InBlock(i)' /\ ToMove(i)' < ToMove(i))
<1> DEFINE c == tabDMACh[i]
<1>0. /\ c \in DMAchannel /\ tabDMACh \in [Channels -> DMAchannel]
      /\ c.TransferCount >= 0 /\ (c.TransferCount = 0 => c.moved = 0)
      /\ c.DmaChState = "TransferOneByteOrWord" /\ ~c.single
  BY DEF IInv, TypeOK, CountInv, InSession, InBlock, InState
<1>1. TransferOne(i) \/ TransferLast(i)
  BY <1>0 DEF StateTrans, Wait, LeaveIdle, LoadConfig, StartTransfer, Disarm, InState
<1>2. CASE TransferOne(i)
  <2> DEFINE d == [Moved(c) EXCEPT !.DmaChState = "TransferOneByteOrWord"]
  <2>1. tabDMACh'[i] = d
    BY <1>0, <1>2, MovedType DEF TransferOne, Becomes, States
  <2>2. /\ d.DmaChState = "TransferOneByteOrWord" /\ d.TransferCount = c.TransferCount - 1
        /\ d.moved = c.moved + 1 /\ d.single = c.single
    BY <1>0, MovedType DEF States, Moved, DMAchannel
  <2> HIDE DEF d
  <2>3. InBlock(i)'
    BY <1>0, <2>1, <2>2 DEF InBlock, InState
  <2>4. c.TransferCount \in Nat /\ c.TransferCount > 1
    BY <1>0, <1>2 DEF TransferOne, Last, DMAchannel
  <2>5. ToMove(i) = c.TransferCount /\ ToMove(i)' = c.TransferCount - 1
    BY <1>0, <2>1, <2>2, <2>4 DEF ToMove, InSession, InState
  <2> QED
    BY <2>3, <2>4, <2>5
<1>3. CASE TransferLast(i)
  <2> DEFINE st == IF c.repeated THEN "LoadDMAChannelConfig" ELSE "DisarmChannel"
             d == [Moved(c) EXCEPT !.DmaChState = st]
  <2>1. tabDMACh'[i] = d
    BY <1>0, <1>3 DEF TransferLast, Becomes
  <2>2. st \in States /\ st \in {"LoadDMAChannelConfig", "DisarmChannel"}
    BY DEF States
  <2>3. d.DmaChState \in {"LoadDMAChannelConfig", "DisarmChannel"}
    <3> HIDE DEF st
    <3> QED
      BY <1>0, <2>2, MovedType
  <2> HIDE DEF st, d
  <2> QED
    BY <2>1, <2>3 DEF InSession, InState
<1> QED
  BY <1>1, <1>2, <1>3

\* A block that has begun is not interrupted: each step of its channel brings
\* its end nearer, and nothing that other channels, peripherals or software do
\* adds elements or makes it wait for an event.
THEOREM BlockAlwaysNears == Spec => BlockNears
<1>1. IInv /\ [Next]_vars =>
        [\A i \in Channels : InBlock(i) =>
           \/ ~InSession(i)'
           \/ /\ InBlock(i)'
              /\ IF StateTrans(i) THEN ToMove(i)' < ToMove(i) ELSE ToMove(i)' = ToMove(i)]_vars
  <2> SUFFICES ASSUME IInv, Next, NEW i \in Channels, InBlock(i)
               PROVE  \/ ~InSession(i)'
                      \/ /\ InBlock(i)'
                         /\ IF StateTrans(i) THEN ToMove(i)' < ToMove(i)
                                             ELSE ToMove(i)' = ToMove(i)
    OBVIOUS
  <2>0. TypeOK
    BY DEF IInv
  <2>1. CASE StateTrans(i)
    BY <2>1, BlockStep
  <2>2. ASSUME NEW j \in Channels, StateTrans(j), j # i
        PROVE  InBlock(i)' /\ ~StateTrans(i) /\ ToMove(i)' = ToMove(i)
    BY <2>0, <2>2, OwnStepOnly DEF InBlock, InState, ToMove, InSession
  <2>3. CASE ~StateTrans(i) /\ Outside
    <3>1. InBlock(i)' /\ ToMove(i)' = ToMove(i)
      BY <2>0, <2>3, OutsideKeepsBlock DEF InBlock, States
    <3> QED
      BY <2>3, <3>1
  <2>4. CASE Reset
    BY <2>4 DEF Reset, InSession, InState, Cleared
  <2> QED
    BY <2>1, <2>2, <2>3, <2>4 DEF Next, ListedEvent, UnlistedEvent, Outside
<1> QED
  BY <1>1, SpecIInv, PTL DEF Spec, BlockNears

-----------------------------------------------------------------------------
(* A trigger is served.                                                    *)

Waiting(i) == InState(i, "DMAChannelArmed") /\ tabDMACh[i].triggered
Served(i) == InState(i, "TransferOneByteOrWord") \/ InState(i, "DMAChannelIdle")

\* Nothing takes a pending trigger from a waiting channel but a reset and the
\* channel's own step, which starts the transfer.
LEMMA WaitingStep ==
  ASSUME TypeOK, Next, NEW i \in Channels, Waiting(i)
  PROVE  (Waiting(i)' /\ ~StateTrans(i)) \/ Served(i)'
<1> USE DEF Waiting, Served
<1>1. CASE StateTrans(i)
  <2>1. StartTransfer(i)
    BY <1>1 DEF StateTrans, Wait, LeaveIdle, LoadConfig, TransferOne, TransferLast, Disarm,
                InState
  <2> QED
    BY <2>1 DEF StartTransfer, Becomes, InState, TypeOK, DMAchannel
<1>2. ASSUME NEW j \in Channels, StateTrans(j), j # i PROVE Waiting(i)' /\ ~StateTrans(i)
  BY <1>2, OwnStepOnly DEF InState
<1>3. CASE ~StateTrans(i) /\ Outside
  <2>1. InState(i, "DMAChannelArmed")' /\ tabDMACh'[i].triggered
    BY <1>3, OutsideKeepsBlock, OutsideKeepsTriggers DEF TriggerLost, States
  <2> QED
    BY <1>3, <2>1
<1>4. CASE Reset
  BY <1>4 DEF Reset, InState, Cleared
<1> QED
  BY <1>1, <1>2, <1>3, <1>4 DEF Next, ListedEvent, UnlistedEvent, Outside

\* Once the tick loop has come round to the channel a pending trigger is served,
\* for any number of channels: TriggerServed holds of every behaviour in which
\* each channel is stepped again and again, fair or not in anything else.
THEOREM TriggersAreServed ==
  Spec /\ (\A i \in Channels : []<><<StateTrans(i)>>_vars) => TriggerServed
<1>1. ASSUME NEW i \in Channels
      PROVE  Spec /\ []<><<StateTrans(i)>>_vars =>
               ((InState(i, "DMAChannelArmed") /\ tabDMACh[i].triggered)
                  ~> (InState(i, "TransferOneByteOrWord") \/ InState(i, "DMAChannelIdle")))
  <2>1. TypeOK /\ [Next]_vars /\ Waiting(i) => Waiting(i)' \/ Served(i)'
    BY WaitingStep DEF Waiting, InState, vars
  <2>2. TypeOK /\ [Next]_vars /\ Waiting(i) /\ <<StateTrans(i)>>_vars => Served(i)'
    BY WaitingStep
  <2>3. /\ Waiting(i) <=> InState(i, "DMAChannelArmed") /\ tabDMACh[i].triggered
        /\ Served(i) <=> InState(i, "TransferOneByteOrWord") \/ InState(i, "DMAChannelIdle")
    BY DEF Waiting, Served
  <2> QED
    BY <2>1, <2>2, <2>3, TypeCorrect, PTL DEF Spec
<1> QED
  BY <1>1 DEF TriggerServed

-----------------------------------------------------------------------------
(* The tick loop of the chip's five channels comes round.                  *)

AtTurn(k) == turn = k

\* The loop stays where it is or goes on to the next channel.
LEMMA LoopStep ==
  ASSUME TypeOK, [Next]_vars, NEW k \in Channels, AtTurn(k)
  PROVE  /\ AtTurn(k)' \/ (StateTrans(k) /\ AtTurn(k + 1)')
         /\ <<\E i \in Channels : StateTrans(i)>>_vars =>
              <<StateTrans(k)>>_vars /\ AtTurn(k + 1)'
<1>1. k # N /\ k # k + 1
  BY ChannelsInt
<1>2. ASSUME NEW i \in Channels, StateTrans(i) PROVE turn = i /\ turn' = i + 1
  BY <1>2 DEF StateTrans, Wait, LeaveIdle, LoadConfig, StartTransfer, TransferOne,
              TransferLast, Disarm, Becomes
<1>3. <<\E i \in Channels : StateTrans(i)>>_vars => <<StateTrans(k)>>_vars /\ AtTurn(k + 1)'
  BY <1>2 DEF AtTurn
<1>4. CASE Software
  BY <1>1, <1>4 DEF AtTurn, Software, Instruction
<1>5. CASE ByteToRegister \/ Reset \/ ListedEvent \/ UnlistedEvent \/ UNCHANGED vars
  <2>1. turn' = turn
    BY <1>5 DEF ByteToRegister, Reset, ListedEvent, UnlistedEvent, Happen, vars
  <2> QED
    BY <1>3, <2>1 DEF AtTurn
<1>6. CASE \E i \in Channels : StateTrans(i)
  BY <1>2, <1>6 DEF AtTurn
<1> QED
  BY <1>3, <1>4, <1>5, <1>6 DEF Next

LEMMA LoopRestarts ==
  ASSUME [Next]_vars, AtTurn(N)
  PROVE  /\ AtTurn(N)' \/ AtTurn(0)'
         /\ <<Software>>_vars => AtTurn(0)'
<1>1. ASSUME NEW i \in Channels PROVE ~StateTrans(i)
  BY ChannelsInt, DMAAssumption
  DEF AtTurn, StateTrans, Wait, LeaveIdle, LoadConfig, StartTransfer, TransferOne,
      TransferLast, Disarm, Becomes
<1>2. Software => AtTurn(0)'
  BY DEF AtTurn, Software, Instruction
<1>3. ByteToRegister \/ Reset \/ ListedEvent \/ UnlistedEvent \/ UNCHANGED vars => AtTurn(N)'
  BY DEF AtTurn, ByteToRegister, Reset, ListedEvent, UnlistedEvent, Happen, vars
<1> QED
  BY <1>1, <1>2, <1>3 DEF Next

\* The loop goes from channel k to the next by a step of channel k.
Passes(k, next) ==
  /\ AtTurn(k) => AtTurn(k)' \/ (<<StateTrans(k)>>_vars /\ AtTurn(next)')
  /\ AtTurn(k) /\ <<\E i \in Channels : StateTrans(i)>>_vars =>
       <<StateTrans(k)>>_vars /\ AtTurn(next)'

\* One round of the loop: five channels, then the instruction.
LEMMA FiveStep ==
  ASSUME N = 5, TypeOK, [Next]_vars
  PROVE  /\ Passes(0, 1) /\ Passes(1, 2) /\ Passes(2, 3) /\ Passes(3, 4) /\ Passes(4, 5)
         /\ AtTurn(5) => AtTurn(5)' \/ AtTurn(0)'
         /\ AtTurn(5) /\ <<Software>>_vars => AtTurn(0)'
<1>1. ASSUME NEW k \in Channels, NEW next \in Nat, next = k + 1
      PROVE  Passes(k, next)
  <2>1. k # next
    BY <1>1, ChannelsInt
  <2>2. AtTurn(k) /\ AtTurn(next)' => vars' # vars
    BY <2>1 DEF AtTurn, vars
  <2> QED
    BY <1>1, <2>2, LoopStep DEF Passes
<1>2. /\ Channels = 0 .. 4 /\ 0 + 1 = 1 /\ 1 + 1 = 2 /\ 2 + 1 = 3 /\ 3 + 1 = 4 /\ 4 + 1 = 5
      /\ \A k \in 0 .. 5 : k \in Nat
  BY DEF Channels
<1> QED
  BY <1>1, <1>2, LoopRestarts

LEMMA FiveRound ==
  ASSUME N = 5
  PROVE  FairSpec /\ []LoopNeverBlocks =>
           /\ []<><<StateTrans(0)>>_vars /\ []<><<StateTrans(1)>>_vars
           /\ []<><<StateTrans(2)>>_vars /\ []<><<StateTrans(3)>>_vars
           /\ []<><<StateTrans(4)>>_vars
<1>1. Init => AtTurn(5)
  BY DEF Init, AtTurn
<1>2. LoopNeverBlocks =>
        /\ AtTurn(0) \/ AtTurn(1) \/ AtTurn(2) \/ AtTurn(3) \/ AtTurn(4) =>
             ENABLED <<\E i \in Channels : StateTrans(i)>>_vars
        /\ AtTurn(5) => ENABLED <<Software>>_vars
  BY DEF LoopNeverBlocks, AtTurn
<1>3. TypeOK /\ [Next]_vars =>
        /\ Passes(0, 1) /\ Passes(1, 2) /\ Passes(2, 3) /\ Passes(3, 4) /\ Passes(4, 5)
        /\ AtTurn(5) => AtTurn(5)' \/ AtTurn(0)'
        /\ AtTurn(5) /\ <<Software>>_vars => AtTurn(0)'
  BY FiveStep
<1> QED
  BY <1>1, <1>2, <1>3, TypeCorrect, PTL DEF FairSpec, Spec, Passes

\* In the chip, with its five channels, a pending trigger is served: the tick
\* loop of do_inst goes on for ever, by its fairness, and so it comes round to
\* every channel.
THEOREM ChipServesTriggers ==
  ASSUME N = 5
  PROVE  FairSpec /\ []LoopNeverBlocks => TriggerServed
<1>1. \A i \in Channels : i = 0 \/ i = 1 \/ i = 2 \/ i = 3 \/ i = 4
  BY DEF Channels
<1>2. ASSUME NEW i \in Channels
      PROVE  FairSpec /\ []LoopNeverBlocks => []<><<StateTrans(i)>>_vars
  <2>1. /\ i = 0 => (<<StateTrans(0)>>_vars => <<StateTrans(i)>>_vars)
        /\ i = 1 => (<<StateTrans(1)>>_vars => <<StateTrans(i)>>_vars)
        /\ i = 2 => (<<StateTrans(2)>>_vars => <<StateTrans(i)>>_vars)
        /\ i = 3 => (<<StateTrans(3)>>_vars => <<StateTrans(i)>>_vars)
        /\ i = 4 => (<<StateTrans(4)>>_vars => <<StateTrans(i)>>_vars)
    OBVIOUS
  <2>2. i = 0 \/ i = 1 \/ i = 2 \/ i = 3 \/ i = 4
    BY <1>1
  <2>3. /\ i = 0 => (i = 0)'
        /\ i = 1 => (i = 1)'
        /\ i = 2 => (i = 2)'
        /\ i = 3 => (i = 3)'
        /\ i = 4 => (i = 4)'
    OBVIOUS
  <2> QED
    BY <2>1, <2>2, <2>3, FiveRound, PTL
<1>3. FairSpec => Spec
  BY PTL DEF FairSpec
<1>4. FairSpec /\ []LoopNeverBlocks => \A i \in Channels : []<><<StateTrans(i)>>_vars
  BY <1>2
<1> QED
  BY <1>3, <1>4, TriggersAreServed
=============================================================================
