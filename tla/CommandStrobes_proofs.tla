-------------------------- MODULE CommandStrobes_proofs --------------------------
(***************************************************************************)
(* Proofs about CommandStrobes, for programs of any length, any time-out   *)
(* and any calibration: types, the bit software sees, and that a frame     *)
(* waits for the strobes.                                                  *)
(***************************************************************************)
EXTENDS CommandStrobes, TLAPS

USE StrobesAssumption

-----------------------------------------------------------------------------
(* Types: the processor's part, the program, and the radio's.              *)

CSPType ==
  /\ PC \in Slots /\ PCwrite \in Slots
  /\ csp_stop \in BOOLEAN /\ running \in BOOLEAN
  /\ radioAnswer \in BOOLEAN /\ STXON \in BOOLEAN /\ SRXON \in BOOLEAN

ProgType == prog \in [Slots -> Loadable \cup {"ISCLEAR"}]

TimeType == cspt \in 0 .. Top

RadioType ==
  /\ state \in {"IDLE", "TX_CALIBRATION", "TX"}
  /\ TX_ACTIVE \in BOOLEAN /\ SFD \in BOOLEAN
  /\ Timer \in Nat

LEMMA TypeParts == TypeOK <=> CSPType /\ ProgType /\ TimeType /\ RadioType
  BY DEF TypeOK, CSPType, ProgType, TimeType, RadioType

LEMMA SlotsType == 0 \in Slots /\ 1 \in Slots /\ \A i \in Slots : Wrapped(i + 1) \in Slots
  BY DEF Slots, Wrapped

LEMMA InitType == Init => TypeOK
<1> SUFFICES ASSUME Init
    PROVE  TypeOK
  OBVIOUS
<1>1. CSPType
  BY SlotsType DEF Init, CSPType
<1>2. ProgType /\ TimeType
  BY DEF Init, ProgType, TimeType, Loadable
<1>3. RadioType
  BY DEF Init, RadioType
<1> QED
  BY <1>1, <1>2, <1>3, TypeParts

\* A skip that starts in the program stays in it or meets its end.
SkipsFit == \A i \in Slots : prog[i] = "SKIP" => i + 2 <= ProgLen

\* Whatever is executed, in the program or as a command, keeps the types.
LEMMA ExecType ==
  ASSUME CSPType, NEW code, code = "SKIP" => PC + 2 <= ProgLen, exec_inst(code)
  PROVE  CSPType'
<1>1. Wrapped(PC + 1) \in Slots /\ 0 \in Slots
  BY SlotsType DEF CSPType
<1>2. code = "SKIP" => Wrapped(PC + 2) \in Slots
  BY DEF CSPType, Slots, Wrapped
<1>3. ASSUME inst_snop
      PROVE  CSPType'
  BY <1>1, <1>3 DEF inst_snop, Advance, CSPType, strobes, Slots
<1>4. ASSUME inst_istxon
      PROVE  CSPType'
  BY <1>1, <1>4 DEF inst_istxon, Advance, CSPType, Slots
<1>5. ASSUME Stays
      PROVE  CSPType'
  BY <1>5 DEF Stays, CSPType, strobes, Slots
<1>6. CASE code = "SNOP" /\ inst_snop
  BY <1>3, <1>6
<1>7. CASE code = "STOP" /\ inst_stop
  BY <1>7 DEF inst_stop, Stop, CSPType, strobes, Slots
<1>8. CASE code = "SRXON" /\ inst_srxon
  BY <1>1, <1>8 DEF inst_srxon, Advance, CSPType, Slots
<1>9. CASE code = "ISTXON" /\ inst_istxon
  BY <1>4, <1>9
<1>10. CASE code = "STXONCCA" /\ inst_stxoncca
  BY <1>3, <1>4, <1>10 DEF inst_stxoncca
<1>11. CASE code = "SRFOFF" /\ inst_srfoff
  BY <1>1, <1>11 DEF inst_srfoff, Advance, CSPType, Slots
<1>12. CASE code = "WAITX" /\ inst_waitx
  BY <1>3, <1>5, <1>12 DEF inst_waitx
<1>13. CASE code = "SACK" /\ inst_sack
  BY <1>1, <1>13 DEF inst_sack, Advance, CSPType, strobes, Slots
<1>14. CASE code = "SKIP" /\ (inst_skipCS \/ inst_snop)
  BY <1>2, <1>3, <1>14 DEF inst_skipCS, CSPType, strobes, Slots
<1>15. CASE code = "ISSTART" /\ inst_isstart
  BY <1>1, <1>15 DEF inst_isstart, CSPType, strobes, Slots
<1>16. CASE code = "ISCLEAR" /\ inst_isclear
  BY <1>1, <1>16 DEF inst_isclear, Stop, CSPType, strobes, Slots
<1> QED
  BY <1>6, <1>7, <1>8, <1>9, <1>10, <1>11, <1>12, <1>13, <1>14, <1>15, <1>16 DEF exec_inst

\* The state machine of the radio keeps its types.
LEMMA FsmType ==
  ASSUME RadioType, fsm
  PROVE  RadioType'
<1>1. Strobed \in {"IDLE", "TX_CALIBRATION", "TX"}
  BY DEF Strobed, RadioType
<1>2. state' \in {"IDLE", "TX_CALIBRATION", "TX"}
  BY <1>1 DEF fsm, StateAfter
<1>3. TX_ACTIVE' \in BOOLEAN
  BY DEF fsm
<1>4. SFD' \in BOOLEAN
  BY DEF fsm, doTX, RadioType
<1>5. Timer' \in Nat
  <2>1. \A t \in CalTicks : TimerAfter(t) \in Nat
    BY DEF TimerAfter, RadioType
  <2> QED
    BY <2>1 DEF fsm
<1> QED
  BY <1>2, <1>3, <1>4, <1>5 DEF RadioType

\* The invariant: types, skips that fit, the bit software sees, and that a radio
\* that is not idle has its transmitter on.
TransmitterOn == state # "IDLE" => TX_ACTIVE

IInv == TypeOK /\ SkipsFit /\ RunningMeansGoing /\ TransmitterOn

LEMMA TickType ==
  ASSUME TypeOK, SkipsFit, NEW k \in 0 .. MaxOverflows, Tick(k)
  PROVE  TypeOK'
<1>1. CSPType /\ ProgType /\ TimeType /\ RadioType
  BY TypeParts
<1>2. CSPType'
  <2>1. ASSUME inst_stop
        PROVE  CSPType'
    BY <1>1, <2>1 DEF inst_stop, Stop, CSPType, strobes, Slots
  <2>2. ASSUME Stays
        PROVE  CSPType'
    BY <1>1, <2>2 DEF Stays, CSPType, strobes, Slots
  <2>3. ASSUME exec_inst(prog[PC])
        PROVE  CSPType'
    <3>1. prog[PC] = "SKIP" => PC + 2 <= ProgLen
      BY <1>1 DEF SkipsFit, CSPType
    <3> QED
      BY <1>1, <2>3, <3>1, ExecType
  <2> QED
    BY <2>1, <2>2, <2>3 DEF Tick, CSP_tick
<1>3. ProgType'
  BY <1>1 DEF Tick, ProgType, Slots
<1>4. TimeType'
  <2>1. CSPTAfter(k) \in 0 .. Top
    BY <1>1 DEF CSPTAfter, TimeType
  <2> QED
    BY <2>1 DEF Tick, TimeType
<1>5. RadioType'
  BY <1>1, FsmType DEF Tick
<1>6. (CSPType /\ ProgType /\ TimeType /\ RadioType)' => TypeOK'
  BY DEF TypeOK, CSPType, ProgType, TimeType, RadioType
<1> QED
  BY <1>2, <1>3, <1>4, <1>5, <1>6

LEMMA CommandType ==
  ASSUME TypeOK, NEW code \in Immediate, Command(code)
  PROVE  TypeOK'
<1>1. CSPType /\ ProgType /\ TimeType /\ RadioType
  BY TypeParts
<1>2. CSPType'
  BY <1>1, ExecType DEF Command, Immediate
<1>3. ProgType' /\ TimeType'
  BY <1>1 DEF Command, ProgType, TimeType, Slots
<1>4. RadioType'
  BY <1>1 DEF Command, RadioType, radio
<1>5. (CSPType /\ ProgType /\ TimeType /\ RadioType)' => TypeOK'
  BY DEF TypeOK, CSPType, ProgType, TimeType, RadioType
<1> QED
  BY <1>2, <1>3, <1>4, <1>5

\* What software stores stays a program.
LEMMA LoadKeeps ==
  ASSUME TypeOK, SkipsFit, NEW code \in Loadable, Load(code)
  PROVE  TypeOK' /\ SkipsFit'
<1>1. Wrapped(PCwrite + 1) \in Slots
  BY SlotsType DEF TypeOK
<1>2. prog' \in [Slots -> Loadable \cup {"ISCLEAR"}] /\ PCwrite' \in Slots
  BY <1>1 DEF Load, TypeOK
<1>3. TypeOK'
  BY <1>2 DEF Load, TypeOK, strobes, radio, Slots
<1>4. SkipsFit'
  <2>1. \A i \in Slots : prog'[i] = IF i = PCwrite THEN code ELSE prog[i]
    BY DEF Load, TypeOK
  <2> QED
    BY <2>1 DEF Load, SkipsFit, Slots
<1> QED
  BY <1>3, <1>4

LEMMA ClearKeeps ==
  ASSUME TypeOK, SkipsFit, ISClear
  PROVE  TypeOK' /\ SkipsFit'
<1>1. prog' \in [Slots -> Loadable \cup {"ISCLEAR"}] /\ PCwrite' \in Slots /\ PC' \in Slots
  BY SlotsType DEF ISClear, TypeOK
<1>2. TypeOK'
  BY <1>1 DEF ISClear, Stop, TypeOK, strobes, radio, Slots
<1>3. SkipsFit'
  <2>1. \A i \in Slots : prog'[i] = IF i = 0 THEN "ISCLEAR" ELSE prog[i]
    BY SlotsType DEF ISClear, TypeOK
  <2> QED
    BY <2>1 DEF SkipsFit, Slots
<1> QED
  BY <1>2, <1>3

-----------------------------------------------------------------------------
(* The bit of CSPSTAT.                                                     *)

LEMMA ExecBit ==
  ASSUME RunningMeansGoing, NEW code, exec_inst(code)
  PROVE  RunningMeansGoing'
<1>1. (UNCHANGED <<csp_stop, running>>) \/ Stop \/ (csp_stop' = FALSE /\ running' = TRUE)
  <2>1. exec_inst(code) => (UNCHANGED <<csp_stop, running>>) \/ inst_stop \/ inst_isstart \/ inst_isclear
    BY DEF exec_inst, inst_snop, inst_srxon, inst_istxon, inst_stxoncca, inst_srfoff,
           inst_waitx, Stays, inst_sack, inst_skipCS
  <2> QED
    BY <2>1 DEF inst_stop, inst_isstart, inst_isclear
<1> QED
  BY <1>1 DEF RunningMeansGoing, Stop

LEMMA StepBit ==
  ASSUME RunningMeansGoing, [Next]_vars
  PROVE  RunningMeansGoing'
<1>1. ASSUME NEW k \in 0 .. MaxOverflows, Tick(k)
      PROVE  RunningMeansGoing'
  BY <1>1, ExecBit DEF Tick, CSP_tick, inst_stop, Stop, Stays, RunningMeansGoing
<1>2. ASSUME NEW code \in Immediate, Command(code)
      PROVE  RunningMeansGoing'
  BY <1>2, ExecBit DEF Command
<1>3. ASSUME NEW code \in Loadable, Load(code)
      PROVE  RunningMeansGoing'
  BY <1>3 DEF Load, RunningMeansGoing
<1>4. CASE ISClear
  BY <1>4 DEF ISClear, Stop, RunningMeansGoing
<1>5. ASSUME NEW t \in 0 .. Top, WriteCSPT(t)
      PROVE  RunningMeansGoing'
  BY <1>5 DEF WriteCSPT, RunningMeansGoing
<1>6. CASE Reset
  BY <1>6 DEF Reset, RunningMeansGoing
<1>7. CASE UNCHANGED vars
  BY <1>7 DEF vars, RunningMeansGoing
<1> QED
  BY <1>1, <1>2, <1>3, <1>4, <1>5, <1>6, <1>7 DEF Next, AnyTick, Software

-----------------------------------------------------------------------------
(* The invariant.                                                          *)

LEMMA StepRest ==
  ASSUME TypeOK, SkipsFit, TransmitterOn, [Next]_vars
  PROVE  TypeOK' /\ SkipsFit' /\ TransmitterOn'
<1>1. ASSUME NEW k \in 0 .. MaxOverflows, Tick(k)
      PROVE  TypeOK' /\ SkipsFit' /\ TransmitterOn'
  <2>1. SkipsFit'
    BY <1>1 DEF Tick, SkipsFit, Slots
  <2>2. TransmitterOn'
    BY <1>1 DEF Tick, fsm, StateAfter, TransmitterOn
  <2> QED
    BY <1>1, <2>1, <2>2, TickType
<1>2. ASSUME NEW code \in Immediate, Command(code)
      PROVE  TypeOK' /\ SkipsFit' /\ TransmitterOn'
  <2>1. SkipsFit' /\ TransmitterOn'
    BY <1>2 DEF Command, SkipsFit, Slots, TransmitterOn, radio
  <2> QED
    BY <1>2, <2>1, CommandType
<1>3. ASSUME NEW code \in Loadable, Load(code)
      PROVE  TypeOK' /\ SkipsFit' /\ TransmitterOn'
  <2>1. TransmitterOn'
    BY <1>3 DEF Load, TransmitterOn, radio
  <2> QED
    BY <1>3, <2>1, LoadKeeps
<1>4. CASE ISClear
  <2>1. TransmitterOn'
    BY <1>4 DEF ISClear, TransmitterOn, radio
  <2> QED
    BY <1>4, <2>1, ClearKeeps
<1>5. ASSUME NEW t \in 0 .. Top, WriteCSPT(t)
      PROVE  TypeOK' /\ SkipsFit' /\ TransmitterOn'
  <2>1. cspt' \in 0 .. Top
    BY <1>5 DEF WriteCSPT
  <2> QED
    BY <1>5, <2>1 DEF WriteCSPT, TypeOK, SkipsFit, Slots, TransmitterOn, radio, strobes
<1>6. CASE Reset
  BY <1>6 DEF Reset, TypeOK, SkipsFit, Slots, TransmitterOn, strobes
<1>7. CASE UNCHANGED vars
  BY <1>7 DEF vars, TypeOK, SkipsFit, Slots, TransmitterOn, strobes, radio
<1> QED
  BY <1>1, <1>2, <1>3, <1>4, <1>5, <1>6, <1>7 DEF Next, AnyTick, Software

LEMMA InitIInv == Init => IInv
<1>1. Init => TypeOK
  BY InitType
<1>2. Init => SkipsFit /\ RunningMeansGoing /\ TransmitterOn
  BY DEF Init, SkipsFit, RunningMeansGoing, TransmitterOn
<1> QED
  BY <1>1, <1>2 DEF IInv

LEMMA StepIInv == IInv /\ [Next]_vars => IInv'
  BY StepRest, StepBit DEF IInv

LEMMA Inductive == Spec => []IInv
  BY InitIInv, StepIInv, PTL DEF Spec

-----------------------------------------------------------------------------
(* The theorems.                                                           *)

\* The program counter and the slot RFST writes stay in the program, and every
\* register keeps its type.
THEOREM TypeCorrect == Spec => []TypeOK
<1>1. IInv => TypeOK
  BY DEF IInv
<1> QED
  BY <1>1, Inductive, PTL

\* CSPSTAT says that the processor runs only while it does.
THEOREM AlwaysRunningMeansGoing == Spec => []RunningMeansGoing
<1>1. IInv => RunningMeansGoing
  BY DEF IInv
<1> QED
  BY <1>1, Inductive, PTL

\* A frame begins and ends only in a tick in which no strobe is pending.
THEOREM FramesWaitForStrobes == Spec => NoFrameWhileStrobed
<1>1. IInv /\ [Next]_vars => [SFD' # SFD /\ state' = "TX" => ~STXON /\ ~SRXON]_vars
  <2> SUFFICES ASSUME IInv, Next, SFD' # SFD, state' = "TX"
      PROVE  ~STXON /\ ~SRXON
    BY DEF vars, radio
  <2>1. PICK k \in 0 .. MaxOverflows : Tick(k)
    <3>1. AnyTick
      BY DEF Next, Software, Command, Load, ISClear, WriteCSPT, Reset, radio
    <3> QED
      BY <3>1 DEF AnyTick
  <2>2. Strobed = "TX" /\ ~ShutsDown
    BY <2>1 DEF Tick, fsm, doTX
  <2>3. ~STXON /\ state = "TX"
    BY <2>2 DEF Strobed
  <2>4. TX_ACTIVE
    BY <2>3 DEF IInv, TransmitterOn
  <2> QED
    BY <2>2, <2>3, <2>4 DEF ShutsDown
<1> QED
  BY <1>1, Inductive, PTL DEF Spec, NoFrameWhileStrobed

-----------------------------------------------------------------------------
(* The countdowns.                                                         *)

\* Software leaves the timer of the radio alone, or a reset clears it.
LEMMA SoftwareKeepsRadio == Software => UNCHANGED radio \/ (Timer' = 0 /\ state' = "IDLE")
BY DEF Software, Command, Load, ISClear, WriteCSPT, Reset

\* Each tick brings the end of an unstrobed calibration nearer, whatever software
\* does between the ticks, and the last one turns the transmitter on.
THEOREM CalibrationAlwaysNears == Spec => CalibrationNears
<1>1. IInv /\ [Next]_vars =>
        [state = "TX_CALIBRATION" /\ ~STXON /\ ~SRXON =>
           /\ Timer' <= Timer
           /\ AnyTick => state' = "TX" \/ (state' = state /\ Timer' < Timer)]_vars
  <2> SUFFICES ASSUME IInv, Next, state = "TX_CALIBRATION", ~STXON, ~SRXON
               PROVE  /\ Timer' <= Timer
                      /\ AnyTick => state' = "TX" \/ (state' = state /\ Timer' < Timer)
    OBVIOUS
  <2>1. Timer \in Nat
    BY DEF IInv, TypeOK
  <2>2. ASSUME AnyTick
        PROVE  Timer' <= Timer /\ (state' = "TX" \/ (state' = state /\ Timer' < Timer))
    <3>1. fsm
      BY <2>2 DEF AnyTick, Tick
    <3>2. Timer' = IF Timer = 0 THEN 0 ELSE Timer - 1
      BY <3>1 DEF fsm, TimerAfter, ShutsDown
    <3>3. state' = IF Timer <= 1 THEN "TX" ELSE state
      BY <3>1 DEF fsm, StateAfter, ShutsDown, Strobed, Timeout
    <3> QED
      BY <2>1, <3>2, <3>3
  <2>3. CASE Software /\ ~AnyTick
    BY <2>1, <2>3, SoftwareKeepsRadio DEF radio
  <2> QED
    BY <2>2, <2>3 DEF Next
<1> QED
  BY <1>1, Inductive, PTL DEF Spec, CalibrationNears

\* Counting takes an armed time-out to 0 in no other way than by stopping the
\* processor, whatever its program waits for, and turns it off only where an
\* overflow follows the 0 in the same tick.
THEOREM TimeoutAlwaysNears == Spec => TimeoutNears
<1>1. ASSUME Armed, NEW k \in 0 .. MaxOverflows, Tick(k)
      PROVE  /\ k > 0 => cspt' < cspt \/ cspt' = Top
             /\ cspt' = 0 => csp_stop' /\ ~running'
             /\ cspt' = Top => cspt < MaxOverflows
  <2>1. cspt' = IF k <= cspt THEN cspt - k ELSE Top
    BY <1>1 DEF Tick, CSPTAfter, Armed
  <2>2. cspt' = 0 => csp_stop' /\ ~running'
    BY <1>1 DEF Tick, CSP_tick, inst_stop, Stop
  <2> QED
    BY <1>1, <2>1, <2>2 DEF Armed
<1>2. [Armed /\ AnyTick =>
         /\ OverflowTick => cspt' < cspt \/ cspt' = Top
         /\ cspt' = 0 => csp_stop' /\ ~running'
         /\ cspt' = Top => cspt < MaxOverflows]_vars
  <2> SUFFICES ASSUME Armed, AnyTick
               PROVE  /\ OverflowTick => cspt' < cspt \/ cspt' = Top
                      /\ cspt' = 0 => csp_stop' /\ ~running'
                      /\ cspt' = Top => cspt < MaxOverflows
    OBVIOUS
  <2>1. OverflowTick => cspt' < cspt \/ cspt' = Top
    <3> SUFFICES ASSUME NEW k \in 1 .. MaxOverflows, Tick(k)
                 PROVE  cspt' < cspt \/ cspt' = Top
      BY DEF OverflowTick
    <3> QED
      BY <1>1
  <2> QED
    BY <1>1, <2>1 DEF AnyTick
<1> QED
  BY <1>2, PTL DEF TimeoutNears
=============================================================================
