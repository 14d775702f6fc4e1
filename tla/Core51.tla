------------------------------- MODULE Core51 -------------------------------
(***************************************************************************)
(* The instruction loop of the 8051 core and its interrupt controller:     *)
(* cl_51core::do_inst, do_interrupt, accept_it and idle_pd (uc51.cc),      *)
(* cl_interrupt (interrupt.cc) and the RETI instruction (jmp.cc).          *)
(*                                                                         *)
(* One pass of the loop of do_inst is three steps, in the code's order:    *)
(*   "fetch"  exec_inst runs one instruction, or none while idling;        *)
(*   "post"   post_inst ticks every hardware element: the DMA may write    *)
(*            registers of the core, and any element raise requests;       *)
(*   "irq"    do_interrupt and then idle_pd look at what the SFRs hold.    *)
(* Between two passes the operator may reset the chip or move a port pin.  *)
(* The program is arbitrary: any instruction may come next.                *)
(***************************************************************************)
EXTENDS Integers, Sequences

CONSTANTS
  ItSources,   \* it_sources in polling order: a sequence of sources
  EnBit,       \* EnBit[s]: the enable bit of source s (ie_reg, ie_mask)
  SrcFlags,    \* SrcFlags[s]: the request bits of s (src_reg, src_mask)
  ClrBit,      \* ClrBit[s]: the request is cleared when s is accepted
  PrBit,       \* PrBit[s]: the bit of IP that ie_mask selects for s
  IEN0Bits,    \* the enable bits of the register IEN0 (IE), EA among them
  IEN12Bits,   \* the enable bits of IEN1 and IEN2
  ExtFlags,    \* the request bits set from port 3 pins (IE0, IE1)
  CMOS,        \* technology = CPU_CMOS: idle and power-down exist
  EA, NoSource

Sources == {ItSources[i] : i \in DOMAIN ItSources}
Flags   == UNION {SrcFlags[s] : s \in Sources}
PrBits  == {PrBit[s] : s \in Sources}
EnBits  == IEN0Bits \union IEN12Bits

ASSUME SourcesAssumption ==
  /\ ItSources \in Seq(Sources)
  /\ EnBit  \in [Sources -> EnBits \ {EA}]
  /\ ClrBit \in [Sources -> BOOLEAN]
  /\ EA \in IEN0Bits
  /\ ExtFlags \subseteq Flags
  /\ CMOS \in BOOLEAN
  /\ NoSource \notin Sources

VARIABLES
  phase,       \* where the loop of do_inst stands
  result,      \* what exec_inst returned: "GO" or "STOP"
  state,       \* the power state: "GO", "IDLE" or "PD"
  was_reti,    \* cl_interrupt::was_reti
  it_levels,   \* the stack of interrupt levels in service
  ien,         \* the bits set in IEN0, IEN1 and IEN2
  ip,          \* the bits set in IP
  flags,       \* the request bits set in the source registers
  idl, pd,     \* PCON.IDL and PCON.PD
  edge,        \* the external requests in edge mode (bit_IT0, bit_IT1)
  low,         \* the external requests whose line is low (~bit_INT0, ~bit_INT1)
  instr,       \* history: the kind of the instruction this pass executed
  moved        \* history: what the DMA wrote since the last interrupt check

cpu  == <<phase, result, state, was_reti, instr, moved>>
sfrs == <<ien, ip, flags, idl, pd>>
pins == <<edge, low>>
vars == <<cpu, it_levels, sfrs, pins>>

Levels == -1 .. 1
ItLevel == [level : Levels, source : Sources \union {NoSource}]
BaseLevel == [level |-> -1, source |-> NoSource]

TypeOK ==
  /\ phase  \in {"fetch", "post", "irq"}
  /\ result \in {"GO", "STOP"}
  /\ state  \in {"GO", "IDLE", "PD"}
  /\ was_reti \in BOOLEAN
  /\ instr \in {"none", "plain", "reti", "ie", "pcon"}
  /\ moved \subseteq {"IE", "PCON"}
  /\ it_levels \in Seq(ItLevel) /\ it_levels # << >>
  /\ ien   \subseteq EnBits
  /\ ip    \subseteq PrBits
  /\ flags \subseteq Flags
  /\ idl \in BOOLEAN /\ pd \in BOOLEAN
  /\ edge  \subseteq ExtFlags
  /\ low   \subseteq ExtFlags

\* The chip after a first reset: clear_sfr writes IE, so was_reti is set.
Init ==
  /\ phase = "fetch" /\ result = "GO" /\ state = "GO" /\ instr = "none"
  /\ was_reti = TRUE /\ moved = {}
  /\ it_levels = <<BaseLevel>>
  /\ ien = {} /\ ip = {} /\ flags = {} /\ idl = FALSE /\ pd = FALSE
  /\ edge = {} /\ low = {}

Top == it_levels[Len(it_levels)]

-----------------------------------------------------------------------------
(* What a write to a register changes, by an instruction or by the DMA.    *)

WriteIEN0(bits) ==
  /\ ien' = (ien \ IEN0Bits) \union bits
  /\ UNCHANGED <<it_levels, ip, flags, idl, pd, pins>>

\* IEN1 and IEN2 are plain cells.
WriteIEN12(bits) ==
  /\ ien' = (ien \ IEN12Bits) \union bits
  /\ UNCHANGED <<it_levels, ip, flags, idl, pd, pins>>

WriteIP(bits) ==
  /\ ip' = bits
  /\ UNCHANGED <<it_levels, ien, flags, idl, pd, pins>>

\* A request bit is set or cleared.
WriteFlag(f) ==
  /\ flags' = IF f \in flags THEN flags \ {f} ELSE flags \union {f}
  /\ UNCHANGED <<it_levels, ien, ip, idl, pd, pins>>

\* TCON selects edge or level mode.
WriteIT(modes) ==
  /\ edge' = modes
  /\ UNCHANGED <<it_levels, sfrs, low>>

\* The line of an external request moves: its pin, or the latch of port 3. A
\* fall raises the request in edge mode (cl_interrupt::happen).
LineMoves(f) ==
  /\ low' = IF f \in low THEN low \ {f} ELSE low \union {f}
  /\ flags' = IF f \in edge /\ f \notin low THEN flags \union {f} ELSE flags
  /\ UNCHANGED <<it_levels, ien, ip, idl, pd, edge>>

\* PCON is a plain cell: idle_pd reads it at the end of the pass.
WritePCON(i, p) ==
  /\ idl' = i /\ pd' = p
  /\ UNCHANGED <<it_levels, ien, ip, flags, pins>>

\* The registers whose write changes nothing but themselves.
WriteOther ==
  \/ \E bits \in SUBSET IEN12Bits : WriteIEN12(bits)
  \/ \E bits \in SUBSET PrBits    : WriteIP(bits)
  \/ \E f \in Flags               : WriteFlag(f)
  \/ \E modes \in SUBSET ExtFlags : WriteIT(modes)
  \/ \E f \in ExtFlags            : LineMoves(f)

-----------------------------------------------------------------------------
(* exec_inst, by the kind of instruction met. Each starts with the reset   *)
(* of was_reti that do_inst makes before it executes an instruction.       *)

Executes(kind) ==
  /\ phase = "fetch" /\ state = "GO"
  /\ phase' = "post" /\ result' = "GO" /\ instr' = kind
  /\ UNCHANGED <<state, moved>>

\* An instruction that touches none of the registers below.
ExecPlain ==
  /\ Executes("plain")
  /\ was_reti' = FALSE
  /\ UNCHANGED <<it_levels, sfrs, pins>>

\* A wrong RETI, without the test of il->level.
ExecReti_PopsBase ==
  /\ Executes("reti")
  /\ was_reti' = TRUE
  /\ it_levels' = SubSeq(it_levels, 1, Len(it_levels) - 1)
  /\ UNCHANGED <<sfrs, pins>>

\* RETI ends the service of the interrupt in progress, if there is one.
ExecReti ==
  /\ Executes("reti")
  /\ was_reti' = TRUE
  /\ it_levels' = IF Top.level >= 0
                    THEN SubSeq(it_levels, 1, Len(it_levels) - 1)
                    ELSE it_levels
  /\ UNCHANGED <<sfrs, pins>>

\* A wrong IEN0, whose cell is not watched by cl_interrupt.
ExecWriteIEN0_Unwatched(bits) == Executes("ie") /\ was_reti' = FALSE /\ WriteIEN0(bits)

\* A write to IEN0 goes through cl_interrupt::write.
ExecWriteIEN0(bits) == Executes("ie") /\ was_reti' = TRUE /\ WriteIEN0(bits)

ExecWriteOther == Executes("plain") /\ was_reti' = FALSE /\ WriteOther

\* A wrong loop, that leaves was_reti standing when it executes an instruction.
ExecWritePCON_KeepsSkip(i, p) == Executes("pcon") /\ UNCHANGED was_reti /\ WritePCON(i, p)

ExecWritePCON(i, p) == Executes("pcon") /\ was_reti' = FALSE /\ WritePCON(i, p)

\* A fetch breakpoint is hit: nothing is executed and the pass is cut short.
ExecStop ==
  /\ phase = "fetch" /\ state = "GO"
  /\ phase' = "post" /\ result' = "STOP" /\ instr' = "none"
  /\ was_reti' = FALSE
  /\ UNCHANGED <<state, moved, it_levels, sfrs, pins>>

\* In idle mode time passes and nothing is executed.
IdleCycle ==
  /\ phase = "fetch" /\ state = "IDLE"
  /\ phase' = "post" /\ result' = "GO" /\ instr' = "none"
  /\ UNCHANGED <<state, was_reti, moved, it_levels, sfrs, pins>>

Exec ==
  \/ ExecPlain
  \/ ExecReti
  \/ \E bits \in SUBSET IEN0Bits : ExecWriteIEN0(bits)
  \/ ExecWriteOther
  \/ \E i, p \in BOOLEAN : ExecWritePCON(i, p)

-----------------------------------------------------------------------------
(* post_inst: the hardware elements tick. A DMA channel that is granted    *)
(* access writes a byte into XDATA, where 0x7080 - 0x70FF are the SFRs     *)
(* with their hooks (cl_address_space::write): IE sets was_reti here too.  *)
(* cl_interrupt ticks after the DMA and raises the requests of level-mode  *)
(* pins that are low. After a breakpoint the loop ends here; the next      *)
(* do_inst starts a new pass.                                              *)

\* A byte moved into a register of the core; any number may be, in one tick.
DmaMoves ==
  /\ phase = "post"
  /\ \/ \E bits \in SUBSET IEN0Bits :
          WriteIEN0(bits) /\ was_reti' = TRUE /\ moved' = moved \union {"IE"}
     \/ \E i, p \in BOOLEAN :
          WritePCON(i, p) /\ UNCHANGED was_reti /\ moved' = moved \union {"PCON"}
     \/ WriteOther /\ UNCHANGED <<was_reti, moved>>
  /\ UNCHANGED <<phase, result, state, instr>>

PostInst(raised) ==
  /\ phase = "post"
  /\ flags' = flags \union raised \union (low \ edge)
  /\ phase' = IF result = "GO" THEN "irq" ELSE "fetch"
  /\ UNCHANGED <<result, state, was_reti, instr, moved, it_levels, ien, ip, idl, pd, pins>>

-----------------------------------------------------------------------------
(* do_interrupt, accept_it and idle_pd.                                    *)

Enabled(s)   == EnBit[s] \in ien
Requested(s) == SrcFlags[s] \intersect flags # {}

it_priority(s) == IF PrBit[s] \in ip THEN 1 ELSE 0

\* Wrong comparisons with the level in service.
Outranks_OrEqual(s) == Top.level < 0 \/ it_priority(s) >= Top.level
Outranks_Always(s) == TRUE
Outranks_Never(s) == Top.level < 0

Outranks(s) == Top.level < 0 \/ it_priority(s) > Top.level

Acceptable(i) == LET s == ItSources[i] IN Enabled(s) /\ Requested(s) /\ Outranks(s)

SomeAcceptable == EA \in ien /\ \E i \in DOMAIN ItSources : Acceptable(i)

\* do_interrupt takes the first acceptable source of the polling order.
First(i) == Acceptable(i) /\ \A j \in DOMAIN ItSources : j < i => ~Acceptable(j)

\* idle_pd, on the power state and the IDL bit do_interrupt leaves behind.
IdlePd(st, i) ==
  state' = CASE CMOS /\ pd -> "PD"
             [] CMOS /\ ~pd /\ i -> "IDLE"
             [] OTHER -> st

EndPass ==
  /\ phase = "irq" /\ phase' = "fetch" /\ instr' = "none" /\ moved' = {}
  /\ UNCHANGED result

\* A wrong pass, that leaves do_inst's loop body where do_interrupt returns.
SkipInterrupts_NoIdlePd ==
  /\ EndPass
  /\ was_reti
  /\ was_reti' = FALSE
  /\ UNCHANGED <<state, it_levels, sfrs, pins>>

\* RETI or a write to IE: no interrupt is looked at in this pass.
SkipInterrupts ==
  /\ EndPass
  /\ was_reti
  /\ was_reti' = FALSE
  /\ IdlePd(state, idl)
  /\ UNCHANGED <<it_levels, sfrs, pins>>

NoInterrupt ==
  /\ EndPass
  /\ ~was_reti /\ ~SomeAcceptable
  /\ IdlePd(state, idl)
  /\ UNCHANGED <<was_reti, it_levels, sfrs, pins>>

\* Wrong wake-ups: IDL is left set; the request is cleared as if accepted.
WakeUp_KeepsIDL ==
  /\ EndPass
  /\ ~was_reti /\ SomeAcceptable
  /\ state = "IDLE"
  /\ was_reti' = TRUE
  /\ IdlePd("GO", idl)
  /\ UNCHANGED <<it_levels, sfrs, pins>>

WakeUp_ClearsRequest ==
  /\ EndPass
  /\ ~was_reti /\ SomeAcceptable
  /\ state = "IDLE"
  /\ \E i \in DOMAIN ItSources : First(i) /\ flags' = flags \ SrcFlags[ItSources[i]]
  /\ idl' = FALSE
  /\ was_reti' = TRUE
  /\ IdlePd("GO", FALSE)
  /\ UNCHANGED <<it_levels, ien, ip, pd, pins>>

\* A request ends idle mode; the interrupt itself is taken by a later pass.
WakeUp ==
  /\ EndPass
  /\ ~was_reti /\ SomeAcceptable
  /\ state = "IDLE"
  /\ idl' = FALSE
  /\ was_reti' = TRUE
  /\ IdlePd("GO", FALSE)
  /\ UNCHANGED <<it_levels, ien, ip, flags, pd, pins>>

\* do_inst does not call idle_pd in a pass that accepts an interrupt.
Accept(i) ==
  /\ EndPass
  /\ ~was_reti /\ EA \in ien /\ First(i)
  /\ state # "IDLE"
  /\ LET s == ItSources[i] IN
       /\ flags' = IF ClrBit[s] THEN flags \ SrcFlags[s] ELSE flags
       /\ it_levels' = Append(it_levels, [level |-> it_priority(s), source |-> s])
  /\ state' = "GO"
  /\ idl' = FALSE
  /\ UNCHANGED <<was_reti, ien, ip, pd, pins>>

Interrupts == SkipInterrupts \/ NoInterrupt \/ WakeUp \/ \E i \in DOMAIN ItSources : Accept(i)

-----------------------------------------------------------------------------
(* The operator: cl_51core::reset, and "set hardware port" for the pins.   *)

Reset ==
  /\ phase = "fetch"
  /\ phase' = "fetch" /\ result' = "GO" /\ state' = "GO" /\ instr' = "none"
  /\ was_reti' = TRUE /\ moved' = {}
  /\ it_levels' = <<BaseLevel>>
  /\ ien' = {} /\ ip' = {} /\ flags' = {} /\ idl' = FALSE /\ pd' = FALSE
  /\ edge' = {}
  /\ low' \in SUBSET low   \* the latch of port 3 goes high, the pins stay

SetPin(f) == phase = "fetch" /\ LineMoves(f) /\ UNCHANGED cpu

Next ==
  \/ Exec
  \/ ExecStop
  \/ IdleCycle
  \/ DmaMoves
  \/ \E raised \in SUBSET Flags : PostInst(raised)
  \/ Interrupts
  \/ Reset
  \/ \E f \in ExtFlags : SetPin(f)

Spec == Init /\ [][Next]_vars

(* The loop of do_inst never rests while the chip runs. ExecStop cannot    *)
(* stop it for ever: the run command first steps over a breakpoint at PC.  *)
(* A program executes plain instructions for ever: a loop needs a jump.    *)
LoopFairness ==
  /\ SF_vars(ExecPlain)
  /\ WF_vars(IdleCycle)
  /\ WF_vars(\E raised \in SUBSET Flags : PostInst(raised))
  /\ WF_vars(Interrupts)

FairSpec == Spec /\ LoopFairness

-----------------------------------------------------------------------------
(* Properties.                                                             *)

\* The stack of levels rises strictly from its base, so at most one routine of
\* each priority is in service, whatever software writes to IP meanwhile
\* (the comparison with il->level in do_interrupt).
LevelsIncrease ==
  /\ it_levels[1] = BaseLevel
  /\ \A i \in 2 .. Len(it_levels) : it_levels[i - 1].level < it_levels[i].level

\* The instruction after a RETI, or after a write to IE, always runs before an
\* interrupt is taken, with any request pending and any peripheral ticking in
\* between (was_reti).
OneInstructionAfterReti ==
  [][phase = "irq" /\ instr \in {"reti", "ie"} => Len(it_levels') <= Len(it_levels)]_vars

\* A level-1 request preempts a level-0 routine in the very pass that sees it,
\* even when level-0 requests stand before it in the polling order (the
\* "continue" in the loop of do_interrupt).
HighPreemptsLow ==
  [][(/\ phase = "irq" /\ ~was_reti /\ state = "GO" /\ EA \in ien /\ Top.level = 0
      /\ \E s \in Sources : Enabled(s) /\ Requested(s) /\ it_priority(s) = 1)
     => it_levels'[Len(it_levels')].level = 1]_vars

\* In do_interrupt and accept_it a request bit is cleared only by accepting a
\* source that owns it; a wake-up, a return or a skipped pass keeps it, so a
\* request raised again during its own routine is served again.
RequestsKept ==
  [][phase = "irq" /\ flags' # flags =>
       /\ Len(it_levels') = Len(it_levels) + 1
       /\ flags \ flags' \subseteq SrcFlags[it_levels'[Len(it_levels')].source]
       /\ flags' \subseteq flags]_vars

\* The core goes to sleep, or sleeps on, with a request it could accept only if
\* the DMA wrote IE, or put it to sleep with PCON, since the last check: the
\* instruction that sets IDL races with the peripherals ticked after it, and
\* do_interrupt runs before idle_pd, but not in a pass that was_reti skips.
NeverSleepsOnRequest ==
  [][phase = "irq" /\ SomeAcceptable /\ state' = "IDLE" =>
       "IE" \in moved \/ (state = "GO" /\ "PCON" \in moved)]_vars

\* A request that can be accepted while the main program runs or idles is not
\* ignored for ever: it wakes the core and a routine starts, unless the request
\* is withdrawn, the core is powered down, or a DMA channel writes IE again and
\* again, each time between an instruction and the check that follows it.
Ignored == SomeAcceptable /\ Top.level < 0 /\ state # "PD"

RequestInterruptsMain == <>[]("IE" \notin moved) => []<>~Ignored

\* Once software sets PCON.PD the core powers down, or PD is cleared, however many
\* requests keep arriving: a pass that accepts an interrupt skips idle_pd, but the
\* levels bound how many such passes can follow each other.
PoweringDown == CMOS /\ pd /\ state # "PD"

PowerDownReached == []<>~PoweringDown

\* The loop never gets stuck: the step of do_inst that is due can be taken, with
\* any requests and levels, an interrupt check that finds one to accept included.
LoopNeverBlocks ==
  /\ phase = "fetch" /\ state = "GO" => ENABLED <<ExecPlain>>_vars
  /\ phase = "fetch" /\ state = "IDLE" => ENABLED <<IdleCycle>>_vars
  /\ phase = "post" => ENABLED <<\E raised \in SUBSET Flags : PostInst(raised)>>_vars
  /\ phase = "irq" => ENABLED <<Interrupts>>_vars

\* The stack of levels implements strictly nested service.
NS == INSTANCE NestedService WITH
        PriorityLevels <- {0, 1},
        inService <- {it_levels[i].level : i \in DOMAIN it_levels} \ {-1}
ImplementsNestedService == NS!Spec
=============================================================================
