--------------------------------- MODULE DMA --------------------------------
(***************************************************************************)
(* The DMA controller of the CC2530, cl_CC2530_dma (CC2530DMA.cc): the     *)
(* state machine of each channel, the registers DMAARM, DMAREQ and DMAIRQ, *)
(* the flag IRCON.DMAIF, and the events that peripherals send it.          *)
(*                                                                         *)
(* After every instruction the hardware elements are ticked in order. The  *)
(* tick of the controller steps channel 0, then 1, and so on: turn is the  *)
(* channel whose step is next, and N while no tick is under way. Elements  *)
(* ticked before the controller (timers, USARTs) and after it (the radio)  *)
(* send events at turns 0 and N. A byte that a channel moves may land in a *)
(* register: XDATA 0x7080 - 0x70FF are the SFRs with their hooks (mem.cc), *)
(* the controller's own among them, and its peripheral may answer with an  *)
(* event. The descriptors in RAM are arbitrary: a channel may find any of  *)
(* Descriptors when it loads.                                              *)
(***************************************************************************)
EXTENDS Integers

CONSTANTS
  N,            \* the number of channels (5 in the code)
  Descriptors,  \* the descriptors software may prepare in RAM
  Triggers,     \* the trigger numbers of TriggerEvent
  NoTrigger,    \* the number 32 of a channel that was never loaded
  ABORT         \* bit 7 of DMAARM

Channels == 0 .. N - 1

\* LEN counts elements; with varlen (VLEN neither 0 nor 7) the first byte of
\* the source shortens it.
Descriptor == [LEN : Nat, varlen : BOOLEAN, single : BOOLEAN, repeated : BOOLEAN,
               ITmask : BOOLEAN, TriggerEvent : Triggers]

ASSUME DMAAssumption ==
  /\ N \in Nat \ {0}
  /\ Descriptors \subseteq Descriptor
  /\ NoTrigger \notin Triggers
  /\ ABORT \notin Channels

VARIABLES
  tabDMACh,   \* the channels
  turn,       \* where the tick loop stands
  dmaarm,     \* the bits of the DMAARM cell
  dmairq,     \* the bits of the DMAIRQ cell
  dmaif,      \* IRCON.DMAIF
  arming      \* history: the idle channels this pass's instruction armed and
              \* no byte moved since has taken back

regs == <<dmaarm, dmairq, dmaif>>
vars == <<tabDMACh, turn, regs, arming>>

States == {"DMAChannelIdle", "LoadDMAChannelConfig", "DMAChannelArmed",
           "TransferOneByteOrWord", "DisarmChannel"}

\* moved stands for the address counters s and d: how many increments they are
\* away from source and destination.
DMAchannel == [DmaChState : States, armed : BOOLEAN, triggered : BOOLEAN,
               single : BOOLEAN, repeated : BOOLEAN, ITmask : BOOLEAN,
               TransferCount : Nat \union {-1}, moved : Nat,
               TriggerEvent : Triggers \union {NoTrigger}]

TypeOK ==
  /\ tabDMACh \in [Channels -> DMAchannel]
  /\ turn \in 0 .. N
  /\ dmaarm \subseteq Channels \union {ABORT}
  /\ dmairq \subseteq Channels
  /\ dmaif \in BOOLEAN
  /\ arming \subseteq Channels

\* A channel after channel_init.
Cleared == [DmaChState |-> "DMAChannelIdle", armed |-> FALSE, triggered |-> FALSE,
            single |-> FALSE, repeated |-> FALSE, ITmask |-> FALSE,
            TransferCount |-> 0, moved |-> 0, TriggerEvent |-> NoTrigger]

Init ==
  /\ tabDMACh = [i \in Channels |-> Cleared]
  /\ turn = N
  /\ dmaarm = {} /\ dmairq = {} /\ dmaif = FALSE
  /\ arming = {}

InState(i, st) == tabDMACh[i].DmaChState = st

-----------------------------------------------------------------------------
(* The handler of a write to each register.                                *)

\* The channels whose bit is 0 are disarmed; ABORT disarms all. The cell then
\* takes the value written, over the 0 the handler has set.
WriteDMAARM(bits) ==
  /\ tabDMACh' = [i \in Channels |->
                    [tabDMACh[i] EXCEPT !.armed = ABORT \notin bits /\ i \in bits]]
  /\ dmaarm' = bits
  /\ UNCHANGED <<dmairq, dmaif>>

WriteDMAREQ(bits) ==
  /\ tabDMACh' = [i \in Channels |->
                    [tabDMACh[i] EXCEPT !.triggered = @ \/ i \in bits]]
  /\ UNCHANGED regs

\* A 1 written to a bit of DMAIRQ unmasks the channel's interrupt.
WriteDMAIRQ(bits) ==
  /\ tabDMACh' = [i \in Channels |-> [tabDMACh[i] EXCEPT !.ITmask = @ \/ i \in bits]]
  /\ dmairq' = bits
  /\ UNCHANGED <<dmaarm, dmaif>>

WriteIRCON(bit) ==
  /\ dmaif' = bit
  /\ UNCHANGED <<tabDMACh, dmaarm, dmairq>>

WriteOther ==
  \/ \E bits \in SUBSET Channels : WriteDMAREQ(bits) \/ WriteDMAIRQ(bits)
  \/ \E bit \in BOOLEAN : WriteIRCON(bit)

-----------------------------------------------------------------------------
(* The instruction writes one of the registers, or none of them.           *)

\* A wrong tick loop, that begins with channel 1.
Instruction_SkipsFirst == turn = N /\ turn' = 1

Instruction == turn = N /\ turn' = 0

OtherInstruction == UNCHANGED <<tabDMACh, regs>>

Software ==
  /\ Instruction
  /\ \/ (OtherInstruction \/ WriteOther) /\ arming' = {}
     \/ \E bits \in SUBSET (Channels \union {ABORT}) :
          /\ WriteDMAARM(bits)
          /\ arming' = {i \in Channels : InState(i, "DMAChannelIdle") /\ tabDMACh'[i].armed}

\* A byte moved by the channel whose turn it is, when it lands in one of the
\* registers. The handler runs before the channel counts the element.
Moving == turn \in Channels /\ InState(turn, "TransferOneByteOrWord")

ByteToRegister ==
  /\ Moving /\ UNCHANGED turn
  /\ \/ WriteOther /\ UNCHANGED arming
     \/ \E bits \in SUBSET (Channels \union {ABORT}) :
          /\ WriteDMAARM(bits)
          /\ arming' = {i \in arming : ~InState(i, "DMAChannelIdle")}

Reset ==
  /\ turn = N
  /\ tabDMACh' = [i \in Channels |-> Cleared]
  /\ dmaarm' = {} /\ dmairq' = {} /\ dmaif' = FALSE /\ arming' = {}
  /\ UNCHANGED turn

-----------------------------------------------------------------------------
(* happen: an event triggers the channels that wait for its number. For an *)
(* event the switch does not list (EV_OVERFLOW of a timer, EV_RADIO_ACK)   *)
(* the number is read uninitialized and may be any. A byte moved to or from *)
(* a register of a peripheral may make it send its event at once.          *)

Happen(trigger) ==
  /\ turn \in {0, N} \/ Moving
  /\ tabDMACh' = [i \in Channels |->
                    [tabDMACh[i] EXCEPT !.triggered = @ \/ tabDMACh[i].TriggerEvent = trigger]]
  /\ UNCHANGED <<turn, regs, arming>>

ListedEvent   == \E trigger \in Triggers : Happen(trigger)
UnlistedEvent == \E trigger \in Triggers \union {NoTrigger} : Happen(trigger)

-----------------------------------------------------------------------------
(* StateTrans, by the state of the channel.                                *)

Becomes(i, channel) ==
  /\ turn = i /\ turn' = i + 1
  /\ tabDMACh' = [tabDMACh EXCEPT ![i] = channel]
  /\ UNCHANGED arming

Wait(i) ==
  /\ \/ InState(i, "DMAChannelIdle") /\ ~tabDMACh[i].armed
     \/ InState(i, "DMAChannelArmed") /\ ~tabDMACh[i].triggered
  /\ Becomes(i, tabDMACh[i])
  /\ UNCHANGED regs

LeaveIdle(i) ==
  /\ InState(i, "DMAChannelIdle") /\ tabDMACh[i].armed
  /\ Becomes(i, [tabDMACh[i] EXCEPT !.DmaChState = "LoadDMAChannelConfig"])
  /\ UNCHANGED regs

\* LoadConfig clears the channel first, a trigger already raised included.
Loaded(desc, count) ==
  [Cleared EXCEPT !.DmaChState = "DMAChannelArmed",
                  !.single = desc.single, !.repeated = desc.repeated,
                  !.ITmask = desc.ITmask, !.TriggerEvent = desc.TriggerEvent,
                  !.TransferCount = count]

LoadConfig(i) ==
  /\ InState(i, "LoadDMAChannelConfig")
  /\ \E desc \in Descriptors :
       \E count \in (IF desc.varlen THEN 0 ELSE desc.LEN) .. desc.LEN :
         Becomes(i, Loaded(desc, count))
  /\ UNCHANGED regs

\* Wrong starts: the trigger is not taken; it is taken when the channel waits.
StartTransfer_NoTake(i) ==
  /\ InState(i, "DMAChannelArmed") /\ tabDMACh[i].triggered
  /\ Becomes(i, [tabDMACh[i] EXCEPT !.triggered = FALSE])
  /\ UNCHANGED regs

StartTransfer(i) ==
  /\ InState(i, "DMAChannelArmed") /\ tabDMACh[i].triggered
  /\ Becomes(i, [tabDMACh[i] EXCEPT !.triggered = FALSE,
                                    !.DmaChState = "TransferOneByteOrWord"])
  /\ UNCHANGED regs

\* transfer: one byte or word.
Moved(channel) == [channel EXCEPT !.TransferCount = @ - 1, !.moved = @ + 1]

\* Wrong tests: one element too many; a count of 0 runs below zero.
Last_TooLate(i) == tabDMACh[i].TransferCount - 1 < 0
Last_OnlyAtZero(i) == tabDMACh[i].TransferCount - 1 = 0

\* The transfer count is tested after the move, so a count of 0 moves one.
Last(i) == tabDMACh[i].TransferCount - 1 <= 0

\* Wrong ends of a step: a trigger is forgotten; a block waits for an event.
TransferOne_DropsTrigger(i) ==
  /\ InState(i, "TransferOneByteOrWord") /\ ~Last(i)
  /\ Becomes(i, [Moved(tabDMACh[i]) EXCEPT
                   !.triggered = FALSE,
                   !.DmaChState = IF tabDMACh[i].single THEN "DMAChannelArmed" ELSE @])
  /\ UNCHANGED regs

TransferOne_BlockAlsoWaits(i) ==
  /\ InState(i, "TransferOneByteOrWord") /\ ~Last(i)
  /\ Becomes(i, [Moved(tabDMACh[i]) EXCEPT
                   !.DmaChState = IF tabDMACh[i].triggered THEN @ ELSE "DMAChannelArmed"])
  /\ UNCHANGED regs

TransferOne(i) ==
  /\ InState(i, "TransferOneByteOrWord") /\ ~Last(i)
  /\ Becomes(i, [Moved(tabDMACh[i]) EXCEPT
                   !.DmaChState = IF tabDMACh[i].single /\ ~tabDMACh[i].triggered
                                    THEN "DMAChannelArmed" ELSE @])
  /\ UNCHANGED regs

TransferLast(i) ==
  /\ InState(i, "TransferOneByteOrWord") /\ Last(i)
  /\ Becomes(i, [Moved(tabDMACh[i]) EXCEPT
                   !.DmaChState = IF tabDMACh[i].repeated
                                    THEN "LoadDMAChannelConfig" ELSE "DisarmChannel"])
  /\ dmairq' = dmairq \union {i}
  /\ dmaif' = (dmaif \/ tabDMACh[i].ITmask)
  /\ UNCHANGED dmaarm

Disarm(i) ==
  /\ InState(i, "DisarmChannel")
  /\ Becomes(i, [tabDMACh[i] EXCEPT !.armed = FALSE, !.DmaChState = "DMAChannelIdle"])
  /\ UNCHANGED regs

StateTrans(i) ==
  \/ Wait(i) \/ LeaveIdle(i) \/ LoadConfig(i) \/ StartTransfer(i)
  \/ TransferOne(i) \/ TransferLast(i) \/ Disarm(i)

Next ==
  \/ Software
  \/ ByteToRegister
  \/ Reset
  \/ ListedEvent
  \/ UnlistedEvent
  \/ \E i \in Channels : StateTrans(i)

Spec == Init /\ [][Next]_vars

\* The loop of do_inst goes on for ever, and each pass ticks every channel.
FairSpec == Spec /\ WF_vars(Software) /\ WF_vars(\E i \in Channels : StateTrans(i))

-----------------------------------------------------------------------------
(* Properties.                                                             *)

\* A channel that an instruction arms while it is idle begins to load in the tick
\* that follows, before the next instruction can write 0 to its bit of DMAARM
\* for the sake of another channel. Only a channel that moves a byte into DMAARM
\* in that very tick can take the arming back.
ArmIsHeard == turn = N => \A i \in arming : InState(i, "LoadDMAChannelConfig")

InSession(i) == InState(i, "DMAChannelArmed") \/ InState(i, "TransferOneByteOrWord")

\* While a channel waits or moves elements its trigger is cleared only by
\* starting a transfer, or by a reset. This promises no event its transfer: one
\* that comes before the channel has loaded, during the moves of a block, or
\* during a move of a non-block transfer that it lets go on, may still be set
\* when the session ends, and channel_init wipes it at the next load.
TriggersKept ==
  [][\A i \in Channels : InSession(i) /\ tabDMACh[i].triggered /\ ~tabDMACh'[i].triggered =>
       \/ InState(i, "DMAChannelArmed") /\ InState(i, "TransferOneByteOrWord")'
       \/ tabDMACh' = [j \in Channels |-> Cleared]]_vars

\* ABORT disarms every channel (write, its comment): until DMAARM is written
\* again no channel moves an element. The code clears armed, which a channel
\* that waits or moves elements does not read.
AbortDisarms ==
  [][(ABORT \in dmaarm) => \A i \in Channels : tabDMACh'[i].moved <= tabDMACh[i].moved]_vars

\* The sessions of the channels: each moves the elements of the count loaded,
\* one for a count of 0, and sets its bit of DMAIRQ with the last one, whatever
\* is written to DMAARM, DMAREQ and DMAIRQ in between. That ABORT is no
\* exception is what the code does, against its comment (AbortDisarms).
ToMove(i) ==
  IF ~InSession(i) THEN 0
  ELSE IF tabDMACh[i].moved = 0 /\ tabDMACh[i].TransferCount = 0 THEN 1
  ELSE tabDMACh[i].TransferCount

TS == INSTANCE TransferSessions WITH
        pending <- [i \in Channels |-> ToMove(i)], irq <- dmairq
ImplementsTransferSessions == TS!Spec

\* A block transfer that has begun ends, by interrupt flag and disarming or
\* reloading, or by a reset; it needs no further event.
BlockCompletes ==
  \A i \in Channels :
    (InState(i, "TransferOneByteOrWord") /\ ~tabDMACh[i].single)
      ~> (~InState(i, "TransferOneByteOrWord") /\ ~InState(i, "DMAChannelArmed"))

\* A trigger pending on a waiting channel starts a transfer, or a reset
\* clears the channel.
TriggerServed ==
  \A i \in Channels :
    (InState(i, "DMAChannelArmed") /\ tabDMACh[i].triggered)
      ~> (InState(i, "TransferOneByteOrWord") \/ InState(i, "DMAChannelIdle"))

\* The loop never blocks: an instruction can be executed when all channels have
\* been stepped, and a channel has a step in each of its states.
LoopNeverBlocks ==
  IF turn = N THEN ENABLED <<Software>>_vars
              ELSE ENABLED <<\E i \in Channels : StateTrans(i)>>_vars

\* Why a block ends: whatever software, events and the other channels do, a
\* block that is being moved stays one, and each step of its own channel leaves
\* fewer elements to move, until the last one ends the session. Only a reset
\* ends it earlier.
InBlock(i) == InState(i, "TransferOneByteOrWord") /\ ~tabDMACh[i].single

BlockNears ==
  [][\A i \in Channels : InBlock(i) =>
       \/ ~InSession(i)'
       \/ /\ InBlock(i)'
          /\ IF StateTrans(i) THEN ToMove(i)' < ToMove(i) ELSE ToMove(i)' = ToMove(i)]_vars
=============================================================================
