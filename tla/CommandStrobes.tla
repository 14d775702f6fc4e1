----------------------------- MODULE CommandStrobes -----------------------------
(***************************************************************************)
(* The command strobe processor of the CC2530 and the state machine of the *)
(* radio it strobes (s51.src/CC2530Radio.cc): a program in CSPPROG, the    *)
(* commands software gives through RFST, the time-out CSPT the MAC timer   *)
(* counts down, and the transmitter with its calibration.                  *)
(*                                                                         *)
(* The receiver is left out: rxEnable is set by nothing that is reachable, *)
(* so the radio stays in the three states below. An instruction stands for *)
(* all that move PC and the flags alike; conditions are read from members  *)
(* nobody sets. A skip past the program and REPEAT, which jumps to a label *)
(* nobody sets, are no inputs; nor are the instructions that go through    *)
(* the pointers of cells never registered (STXON in a program among them). *)
(***************************************************************************)
EXTENDS Integers

CONSTANTS
  ProgLen,       \* slots of the program: 24
  Top,           \* the largest byte, in CSPT "no time-out": 255
  CalTicks,      \* 192 microseconds in ticks, by clock speed
  MaxOverflows   \* of the MAC timer in one tick: at most the instruction's cycles

ASSUME StrobesAssumption ==
  /\ ProgLen \in Nat \ {0, 1} /\ Top \in Nat \ {0, 1}
  /\ CalTicks \subseteq Nat \ {0} /\ CalTicks # {}
  /\ MaxOverflows \in Nat

Loadable == {"SNOP", "STOP", "SRXON", "SRFOFF", "STXONCCA", "WAITX", "SACK", "SKIP"}
Immediate == {"ISSTART", "STOP", "SRXON", "ISTXON", "SRFOFF", "STXONCCA", "SACK"}

VARIABLES
  prog, PC, PCwrite,     \* CSPPROG0..23, where it runs and where RFST writes
  csp_stop, running,     \* the processor's own flag, and the bit software sees
  cspt,                  \* CSPT
  radioAnswer,           \* the radio has answered an acknowledge strobe
  STXON, SRXON,          \* the strobes the radio looks at in every tick
  state, TX_ACTIVE, Timer, SFD

strobes == <<STXON, SRXON>>
radio == <<state, TX_ACTIVE, Timer, SFD>>
vars == <<prog, PC, PCwrite, csp_stop, running, cspt, radioAnswer, strobes, radio>>

Slots == 0 .. ProgLen - 1

TypeOK ==
  /\ prog \in [Slots -> Loadable \cup {"ISCLEAR"}]
  /\ PC \in Slots /\ PCwrite \in Slots
  /\ csp_stop \in BOOLEAN /\ running \in BOOLEAN
  /\ cspt \in 0 .. Top
  /\ radioAnswer \in BOOLEAN /\ STXON \in BOOLEAN /\ SRXON \in BOOLEAN
  /\ state \in {"IDLE", "TX_CALIBRATION", "TX"}
  /\ TX_ACTIVE \in BOOLEAN /\ SFD \in BOOLEAN
  /\ Timer \in Nat

\* The processor starts going, with CSPSTAT saying it does not. No constructor
\* sets PCwrite or radioAnswer.
Init ==
  /\ prog = [i \in Slots |-> "SNOP"]
  /\ PC = 0 /\ PCwrite \in Slots
  /\ csp_stop = FALSE /\ running = FALSE
  /\ cspt = Top
  /\ radioAnswer \in BOOLEAN /\ STXON = FALSE /\ SRXON = FALSE
  /\ state = "IDLE" /\ TX_ACTIVE = FALSE /\ Timer = 0 /\ SFD = FALSE

-----------------------------------------------------------------------------
(* The state machine of the radio.                                         *)

\* A strobe SRXON ends whatever the transmitter does, through TX_SHUTDOWN.
ShutsDown == TX_ACTIVE /\ SRXON

\* STXON is looked at in every state.
Strobed == IF STXON THEN "TX_CALIBRATION" ELSE state

\* The timer stays at 0, and every tick at 0 is a time-out.
Timeout == Timer <= 1

TimerAfter(t) ==
  IF STXON \/ ShutsDown THEN t ELSE IF Timer = 0 THEN 0 ELSE Timer - 1

\* The frame is out when TX_PC meets its length; the transmitter then starts over.
\* doTX is called in the state the tick began with.
doTX_Unstrobed ==
  SFD' \in IF state # "TX" THEN {SFD} ELSE IF SFD THEN BOOLEAN ELSE {TRUE}

doTX ==
  SFD' \in IF Strobed # "TX" \/ ShutsDown THEN {SFD} ELSE IF SFD THEN BOOLEAN ELSE {TRUE}

\* The calibration waits for its timer without a time-out of its own.
StateAfter_NoTimeout == IF ShutsDown THEN "IDLE" ELSE Strobed

StateAfter ==
  IF ShutsDown THEN "IDLE"
  ELSE IF Strobed = "TX_CALIBRATION" /\ Timeout THEN "TX" ELSE Strobed

fsm ==
  /\ state' = StateAfter
  /\ TX_ACTIVE' = (ShutsDown \/ Strobed # "IDLE")
  /\ \E t \in CalTicks : Timer' = TimerAfter(t)
  /\ doTX

-----------------------------------------------------------------------------
(* The instructions. Each leaves prog and cspt alone.                      *)

\* The last slot is taken for one before it.
Wrapped_Late(pc) == IF pc = ProgLen + 1 THEN 0 ELSE pc

Wrapped(pc) == IF pc = ProgLen THEN 0 ELSE pc

Advance == PC' = Wrapped(PC + 1)

Stop == csp_stop' = TRUE /\ running' = FALSE

\* NOPs, interrupts, flushes and arithmetic, but DECY.
inst_snop ==
  Advance /\ UNCHANGED <<PCwrite, csp_stop, running, radioAnswer, strobes>>

inst_stop == Stop /\ UNCHANGED <<PC, PCwrite, radioAnswer, strobes>>

inst_srxon ==
  Advance /\ SRXON' = TRUE /\ UNCHANGED <<PCwrite, csp_stop, running, radioAnswer, STXON>>

inst_istxon ==
  Advance /\ STXON' = TRUE /\ UNCHANGED <<PCwrite, csp_stop, running, radioAnswer, SRXON>>

inst_stxoncca == inst_istxon \/ inst_snop

inst_srfoff ==
  /\ Advance /\ STXON' = FALSE /\ SRXON' = FALSE
  /\ UNCHANGED <<PCwrite, csp_stop, running, radioAnswer>>

\* Nothing happens, and PC does not move on.
Stays == UNCHANGED <<PC, PCwrite, csp_stop, running, radioAnswer, strobes>>

\* The wait is over if CSPX is 0. Software may write it at any time; no overflow of
\* the MAC timer reaches it, as the processor is no member of the hardware list.
inst_waitx == inst_snop \/ Stays

\* SACK, SACKPEND and the waits for events: an answer nobody gives. LABEL, DECY and
\* the codes without meaning never move on either.
inst_sack ==
  /\ IF radioAnswer THEN Advance ELSE UNCHANGED PC
  /\ radioAnswer' = FALSE
  /\ UNCHANGED <<PCwrite, csp_stop, running, strobes>>

inst_skipCS ==
  /\ PC' = Wrapped(PC + 2)
  /\ UNCHANGED <<PCwrite, csp_stop, running, radioAnswer, strobes>>

inst_isstart ==
  /\ csp_stop' = FALSE /\ running' = TRUE /\ PC' = 0
  /\ UNCHANGED <<PCwrite, radioAnswer, strobes>>

\* The NOPs go into the transmit FIFO, not into the program.
inst_isclear ==
  /\ Stop /\ PC' = 0 /\ PCwrite' = 0
  /\ UNCHANGED <<radioAnswer, strobes>>

exec_inst(code) ==
  \/ code = "SNOP" /\ inst_snop
  \/ code = "STOP" /\ inst_stop
  \/ code = "SRXON" /\ inst_srxon
  \/ code = "ISTXON" /\ inst_istxon
  \/ code = "STXONCCA" /\ inst_stxoncca
  \/ code = "SRFOFF" /\ inst_srfoff
  \/ code = "WAITX" /\ inst_waitx
  \/ code = "SACK" /\ inst_sack
  \/ code = "SKIP" /\ (inst_skipCS \/ inst_snop)
  \/ code = "ISSTART" /\ inst_isstart
  \/ code = "ISCLEAR" /\ inst_isclear

-----------------------------------------------------------------------------
(* Ticks and software.                                                     *)

\* CSPT after k overflows, which the MAC timer may have as often as the instruction
\* has cycles when its period is short. One that follows the 0 in the same tick
\* turns it into "no time-out" before the processor looks.
CSPTAfter(k) == IF cspt = Top THEN Top ELSE IF k <= cspt THEN cspt - k ELSE Top

\* Only a program that has run to its end is timed out.
CSP_tick_AtStart ==
  IF cspt' = 0 /\ PC = 0
  THEN inst_stop
  ELSE IF csp_stop THEN Stays ELSE exec_inst(prog[PC])

CSP_tick ==
  IF cspt' = 0
  THEN inst_stop
  ELSE IF csp_stop THEN Stays ELSE exec_inst(prog[PC])

\* The MAC timer is ticked before the radio, and the radio before the processor.
Tick(k) ==
  /\ cspt' = CSPTAfter(k)
  /\ fsm
  /\ CSP_tick
  /\ UNCHANGED prog

\* RFST: a command is executed at once, PC and all; anything else is stored.
Command(code) ==
  exec_inst(code) /\ UNCHANGED <<prog, cspt, radio>>

Load(code) ==
  /\ code = "SKIP" => PCwrite + 2 <= ProgLen
  /\ prog' = [prog EXCEPT ![PCwrite] = code]
  /\ PCwrite' = Wrapped(PCwrite + 1)
  /\ UNCHANGED <<PC, csp_stop, running, cspt, radioAnswer, strobes, radio>>

\* The code of ISCLEAR is not among those executed: it is stored as well.
ISClear ==
  /\ Stop /\ PC' = 0
  /\ prog' = [prog EXCEPT ![0] = "ISCLEAR"] /\ PCwrite' = 1
  /\ UNCHANGED <<cspt, radioAnswer, strobes, radio>>

\* Software arms the time-out, calls it off with Top, or writes a 0, which the next
\* tick takes for a time-out that has run out unless an overflow comes first.
WriteCSPT(t) ==
  cspt' = t /\ UNCHANGED <<prog, PC, PCwrite, csp_stop, running, radioAnswer, strobes, radio>>

\* The reset of the chip reaches the radio and not the processor.
Reset ==
  /\ state' = "IDLE" /\ TX_ACTIVE' = FALSE /\ Timer' = 0 /\ SFD' = FALSE
  /\ UNCHANGED <<prog, PC, PCwrite, csp_stop, running, cspt, radioAnswer, strobes>>

Software ==
  \/ \E code \in Immediate : Command(code)
  \/ \E code \in Loadable : Load(code)
  \/ ISClear
  \/ \E t \in 0 .. Top : WriteCSPT(t)
  \/ Reset

AnyTick == \E k \in 0 .. MaxOverflows : Tick(k)
OverflowTick == \E k \in 1 .. MaxOverflows : Tick(k)

Next == AnyTick \/ Software

Spec == Init /\ [][Next]_vars

\* Every instruction ticks the hardware, and the MAC timer runs.
FairSpec == Spec /\ WF_vars(AnyTick) /\ WF_vars(OverflowTick)

-----------------------------------------------------------------------------
(* Properties.                                                             *)

\* CSPSTAT says that the processor runs only while it does, however it was stopped:
\* by its program, by a command, by clearing or by the time-out.
RunningMeansGoing == running => ~csp_stop

\* No frame goes out, or is ended, by a radio that has been told to calibrate or to
\* receive: a strobe is heeded before the next byte.
NoFrameWhileStrobed == [][SFD' # SFD /\ state' = "TX" => ~STXON /\ ~SRXON]_vars

\* A calibration that no further strobe restarts ends: the timer cannot miss its 0.
CalibrationEnds ==
  (state = "TX_CALIBRATION" /\ ~STXON /\ ~SRXON) ~> (state # "TX_CALIBRATION" \/ STXON \/ SRXON)

Armed == cspt \in 1 .. Top - 1

\* If from some time on software leaves each armed time-out alone and no second
\* overflow hides a 0, time-outs that are armed again and again stop the processor
\* again and again, whatever its programs wait for and however often it is
\* restarted. Where a second overflow hides the 0 the time-out is lost.
TimeoutStops ==
  <>[][Armed => (cspt' = cspt \/ AnyTick) /\ cspt' # Top]_vars
    => ([]<>Armed => []<>csp_stop)

\* Why a calibration ends: each tick of the radio brings its end nearer, and
\* nothing software does, a strobe of the other kind, a command or a reset, puts
\* its timer back. Only the tick that sees STXON does.
CalibrationNears ==
  [][state = "TX_CALIBRATION" /\ ~STXON /\ ~SRXON =>
       /\ Timer' <= Timer
       /\ AnyTick => state' = "TX" \/ (state' = state /\ Timer' < Timer)]_vars

\* Why an armed time-out stops the processor: each overflow of the MAC timer takes
\* it down, counting takes it to 0 only in a tick that stops whatever runs, and
\* turns it off only where an overflow follows the 0 in the same tick.
TimeoutNears ==
  [][Armed /\ AnyTick =>
       /\ OverflowTick => cspt' < cspt \/ cspt' = Top
       /\ cspt' = 0 => csp_stop' /\ ~running'
       /\ cspt' = Top => cspt < MaxOverflows]_vars
=============================================================================
