--------------------------- MODULE Core51_proofs ----------------------------
(***************************************************************************)
(* Proofs about Core51 for any set of interrupt sources, polling order and *)
(* assignment of bits. The types and LevelsIncrease are proved together:   *)
(* RETI keeps the stack nonempty only because its base entry, which has    *)
(* level -1, is never popped.                                              *)
(***************************************************************************)
EXTENDS Core51, SequenceTheorems, TLAPS

-----------------------------------------------------------------------------
(* The stack of levels as a sequence.                                      *)

LEMMA PopStack ==
  ASSUME NEW s \in Seq(ItLevel), Len(s) > 1
  PROVE  /\ SubSeq(s, 1, Len(s) - 1) \in Seq(ItLevel)
         /\ Len(SubSeq(s, 1, Len(s) - 1)) = Len(s) - 1
         /\ \A i \in 1 .. Len(s) - 1 : SubSeq(s, 1, Len(s) - 1)[i] = s[i]
OBVIOUS

LEMMA PushStack ==
  ASSUME NEW s \in Seq(ItLevel), NEW e \in ItLevel
  PROVE  /\ Append(s, e) \in Seq(ItLevel)
         /\ Len(Append(s, e)) = Len(s) + 1
         /\ \A i \in 1 .. Len(s) : Append(s, e)[i] = s[i]
         /\ Append(s, e)[Len(s) + 1] = e
OBVIOUS

LEMMA TopInStack ==
  ASSUME TypeOK
  PROVE  /\ Len(it_levels) \in Nat \ {0}
         /\ Top \in ItLevel
         /\ Top.level \in Levels
<1>1. Len(it_levels) \in Nat \ {0}
  BY EmptySeq DEF TypeOK
<1>2. Top \in ItLevel
  BY <1>1, LenProperties DEF TypeOK, Top
<1> QED
  BY <1>1, <1>2 DEF ItLevel

LEMMA SourceInOrder ==
  ASSUME NEW i \in DOMAIN ItSources
  PROVE  /\ ItSources[i] \in Sources
         /\ [level |-> it_priority(ItSources[i]), source |-> ItSources[i]] \in ItLevel
         /\ it_priority(ItSources[i]) \in {0, 1}
<1>1. ItSources[i] \in Sources
  BY DEF Sources
<1>2. it_priority(ItSources[i]) \in {0, 1}
  BY DEF it_priority
<1> QED
  BY <1>1, <1>2 DEF ItLevel, Levels

-----------------------------------------------------------------------------
(* Type correctness and the shape of the stack.                            *)

IInv == TypeOK /\ LevelsIncrease

LEMMA InitIInv == Init => IInv
<1> SUFFICES ASSUME Init PROVE IInv
  OBVIOUS
<1>1. BaseLevel \in ItLevel
  BY DEF BaseLevel, ItLevel, Levels
<1>2. TypeOK
  <2>1. it_levels \in Seq(ItLevel) /\ it_levels # << >>
    BY <1>1 DEF Init
  <2>2. was_reti \in BOOLEAN /\ idl \in BOOLEAN /\ pd \in BOOLEAN
    BY Zenon DEF Init
  <2> QED
    BY <2>1, <2>2 DEF Init, TypeOK
<1>3. LevelsIncrease
  BY DEF Init, LevelsIncrease
<1> QED
  BY <1>2, <1>3 DEF IInv

\* RETI: the level popped is not the base, so an entry is left below it.
LEMMA RetiIInv == IInv /\ ExecReti => IInv'
<1> SUFFICES ASSUME IInv, ExecReti PROVE IInv'
  OBVIOUS
<1>1. it_levels \in Seq(ItLevel) /\ Len(it_levels) \in Nat /\ Len(it_levels) # 0
  BY TopInStack DEF IInv, TypeOK
<1>2. it_levels' \in Seq(ItLevel) /\ it_levels' # << >> /\ LevelsIncrease'
  <2>1. CASE Top.level >= 0
    <3>1. Len(it_levels) > 1
      <4>1. Len(it_levels) # 1
        BY <2>1 DEF IInv, LevelsIncrease, Top, BaseLevel
      <4>2. \A n \in Nat : n # 0 /\ n # 1 => n > 1
        OBVIOUS
      <4> QED
        BY <1>1, <4>1, <4>2, Zenon
    <3>2. it_levels' = SubSeq(it_levels, 1, Len(it_levels) - 1)
      BY <2>1 DEF ExecReti
    <3>3. /\ it_levels' \in Seq(ItLevel)
          /\ Len(it_levels') = Len(it_levels) - 1
          /\ \A i \in 1 .. Len(it_levels) - 1 : it_levels'[i] = it_levels[i]
      BY <1>1, <3>1, <3>2, PopStack
    <3> QED
      BY <1>1, <3>1, <3>3 DEF IInv, LevelsIncrease
  <2>2. CASE ~(Top.level >= 0)
    BY <2>2, <1>1 DEF ExecReti, IInv, TypeOK, LevelsIncrease
  <2> QED
    BY <2>1, <2>2
<1>3. TypeOK'
  BY <1>2 DEF ExecReti, Executes, TypeOK, IInv, sfrs, pins
<1> QED
  BY <1>2, <1>3 DEF IInv

\* Accept: the source taken outranks the level on top.
LEMMA AcceptIInv ==
  ASSUME NEW i \in DOMAIN ItSources, IInv, Accept(i)
  PROVE  IInv'
<1> DEFINE s == ItSources[i]
           e == [level |-> it_priority(s), source |-> s]
<1>1. e \in ItLevel /\ e.level \in {0, 1}
  BY SourceInOrder
<1>2. Top.level < e.level
  BY <1>1, TopInStack DEF Accept, First, Acceptable, Outranks, IInv, Levels
<1>3. it_levels' = Append(it_levels, e)
  BY DEF Accept
<1>4. /\ it_levels' \in Seq(ItLevel)
      /\ Len(it_levels') = Len(it_levels) + 1
      /\ \A j \in 1 .. Len(it_levels) : it_levels'[j] = it_levels[j]
      /\ it_levels'[Len(it_levels) + 1] = e
  BY <1>1, <1>3, PushStack DEF IInv, TypeOK
<1>5. TypeOK'
  <2>1. flags' \subseteq Flags
    BY DEF Accept, IInv, TypeOK
  <2>2. it_levels' # << >>
    BY <1>1, <1>3, AppendProperties DEF IInv, TypeOK
  <2>3. was_reti' \in BOOLEAN /\ idl' \in BOOLEAN /\ pd' \in BOOLEAN
    BY Zenon DEF Accept, IInv, TypeOK
  <2> QED
    BY <1>4, <2>1, <2>2, <2>3 DEF Accept, EndPass, IInv, TypeOK, pins
<1>6. LevelsIncrease'
  <2>1. it_levels'[1] = BaseLevel
    BY <1>4, TopInStack DEF IInv, LevelsIncrease
  <2>2. ASSUME NEW j \in 2 .. Len(it_levels')
        PROVE  it_levels'[j - 1].level < it_levels'[j].level
    <3>1. CASE j = Len(it_levels) + 1
      BY <3>1, <1>2, <1>4, TopInStack DEF IInv, Top
    <3>2. CASE j # Len(it_levels) + 1
      <4>1. j \in 2 .. Len(it_levels) /\ j - 1 \in 1 .. Len(it_levels)
        BY <3>2, <1>4, TopInStack DEF IInv
      <4> QED
        BY <4>1, <1>4 DEF IInv, LevelsIncrease
    <3> QED
      BY <3>1, <3>2
  <2> QED
    BY <2>1, <2>2 DEF LevelsIncrease
<1> QED
  BY <1>5, <1>6 DEF IInv

\* A write to a register leaves the stack alone, whoever makes it.
LEMMA WritesKeepStack ==
  /\ \A bits : WriteIEN0(bits) => it_levels' = it_levels
  /\ \A i, p : WritePCON(i, p) => it_levels' = it_levels
  /\ WriteOther => it_levels' = it_levels
BY DEF WriteIEN0, WritePCON, WriteOther, WriteIEN12, WriteIP, WriteFlag, WriteIT, LineMoves

\* A write to a register keeps the types.
LEMMA WritesKeepTypes ==
  ASSUME TypeOK,
         \/ \E bits \in SUBSET IEN0Bits : WriteIEN0(bits)
         \/ \E i, p \in BOOLEAN : WritePCON(i, p)
         \/ WriteOther
  PROVE  /\ it_levels' = it_levels
         /\ ien' \subseteq EnBits /\ ip' \subseteq PrBits /\ flags' \subseteq Flags
         /\ idl' \in BOOLEAN /\ pd' \in BOOLEAN
         /\ edge' \subseteq ExtFlags /\ low' \subseteq ExtFlags
<1> USE DEF TypeOK, sfrs, pins
<1>1. ASSUME NEW bits \in SUBSET IEN0Bits, WriteIEN0(bits) PROVE ien' \subseteq EnBits
  BY <1>1 DEF WriteIEN0, EnBits
<1>2. ASSUME NEW bits \in SUBSET IEN12Bits, WriteIEN12(bits) PROVE ien' \subseteq EnBits
  BY <1>2 DEF WriteIEN12, EnBits
<1>3. ASSUME NEW f \in ExtFlags, LineMoves(f)
      PROVE  flags' \subseteq Flags /\ low' \subseteq ExtFlags
  BY <1>3, SourcesAssumption DEF LineMoves
<1>4. ASSUME NEW i \in BOOLEAN, NEW p \in BOOLEAN, WritePCON(i, p)
      PROVE  idl' \in BOOLEAN /\ pd' \in BOOLEAN
  BY <1>4, Zenon DEF WritePCON
<1>5. CASE \E bits \in SUBSET IEN0Bits : WriteIEN0(bits)
  BY <1>1, <1>5 DEF WriteIEN0
<1>6. CASE \E i, p \in BOOLEAN : WritePCON(i, p)
  BY <1>4, <1>6 DEF WritePCON
<1>7. CASE WriteOther
  BY <1>2, <1>3, <1>7 DEF WriteOther, WriteIEN12, WriteIP, WriteFlag, WriteIT, LineMoves
<1> QED
  BY <1>5, <1>6, <1>7

\* Every other step leaves the stack alone, or clears it.
LEMMA NextIInv == IInv /\ [Next]_vars => IInv'
<1> SUFFICES ASSUME IInv, [Next]_vars PROVE IInv'
  OBVIOUS
<1> USE DEF IInv, sfrs, pins, cpu
<1>1. CASE Exec
  <2>1. CASE ExecReti
    BY <2>1, RetiIInv
  <2>2. CASE ExecPlain
    BY <2>2 DEF ExecPlain, Executes, TypeOK, LevelsIncrease
  <2>3. ASSUME NEW bits \in SUBSET IEN0Bits, ExecWriteIEN0(bits) PROVE IInv'
    BY <2>3, WritesKeepTypes DEF ExecWriteIEN0, Executes, TypeOK, LevelsIncrease
  <2>4. CASE ExecWriteOther
    BY <2>4, WritesKeepTypes DEF ExecWriteOther, Executes, TypeOK, LevelsIncrease
  <2>5. ASSUME NEW i \in BOOLEAN, NEW p \in BOOLEAN, ExecWritePCON(i, p) PROVE IInv'
    BY <2>5, WritesKeepTypes DEF ExecWritePCON, Executes, TypeOK, LevelsIncrease
  <2> QED
    BY <1>1, <2>1, <2>2, <2>3, <2>4, <2>5 DEF Exec
<1>2. CASE ExecStop
  BY <1>2 DEF ExecStop, TypeOK, LevelsIncrease
<1>3. CASE IdleCycle
  BY <1>3 DEF IdleCycle, TypeOK, LevelsIncrease
<1>4. ASSUME NEW raised \in SUBSET Flags, PostInst(raised) PROVE IInv'
  <2>1. flags' \subseteq Flags
    BY <1>4, SourcesAssumption DEF PostInst, TypeOK
  <2> QED
    BY <1>4, <2>1 DEF PostInst, TypeOK, LevelsIncrease
<1>5. CASE SkipInterrupts
  BY <1>5 DEF SkipInterrupts, EndPass, IdlePd, TypeOK, LevelsIncrease
<1>6. CASE NoInterrupt
  BY <1>6 DEF NoInterrupt, EndPass, IdlePd, TypeOK, LevelsIncrease
<1>7. CASE WakeUp
  BY <1>7 DEF WakeUp, EndPass, IdlePd, TypeOK, LevelsIncrease
<1>8. ASSUME NEW i \in DOMAIN ItSources, Accept(i) PROVE IInv'
  BY <1>8, AcceptIInv
<1>9. CASE Reset
  <2>1. BaseLevel \in ItLevel
    BY DEF BaseLevel, ItLevel, Levels
  <2>2. it_levels' \in Seq(ItLevel) /\ it_levels' # << >>
    BY <1>9, <2>1 DEF Reset
  <2>3. was_reti' \in BOOLEAN /\ idl' \in BOOLEAN /\ pd' \in BOOLEAN
    BY <1>9, Zenon DEF Reset
  <2>4. TypeOK'
    BY <1>9, <2>2, <2>3 DEF Reset, TypeOK
  <2>5. LevelsIncrease'
    BY <1>9 DEF Reset, LevelsIncrease
  <2> QED
    BY <2>4, <2>5
<1>10. ASSUME NEW f \in ExtFlags, SetPin(f) PROVE IInv'
  <2>1. flags' \subseteq Flags /\ low' \subseteq ExtFlags
    BY <1>10, SourcesAssumption DEF SetPin, LineMoves, TypeOK
  <2> QED
    BY <1>10, <2>1 DEF SetPin, LineMoves, TypeOK, LevelsIncrease
<1>11. CASE DmaMoves
  <2>1. was_reti' \in BOOLEAN /\ moved' \subseteq {"IE", "PCON"}
    BY <1>11 DEF DmaMoves, TypeOK
  <2> QED
    BY <1>11, <2>1, WritesKeepTypes DEF DmaMoves, TypeOK, LevelsIncrease
<1>12. CASE UNCHANGED vars
  BY <1>12 DEF vars, TypeOK, LevelsIncrease
<1> QED
  BY <1>1, <1>2, <1>3, <1>4, <1>5, <1>6, <1>7, <1>8, <1>9, <1>10, <1>11, <1>12
  DEF Next, Interrupts

LEMMA SpecIInv == Spec => []IInv
BY InitIInv, NextIInv, PTL DEF Spec

\* Every variable keeps its type, whatever the sources and the program.
THEOREM TypeCorrect == Spec => []TypeOK
<1>1. IInv => TypeOK
  BY DEF IInv
<1> QED
  BY <1>1, SpecIInv, PTL

\* The levels in service rise strictly: do_interrupt accepts only a source
\* that outranks the top of the stack, whatever software has written to IP.
THEOREM LevelsAlwaysIncrease == Spec => []LevelsIncrease
<1>1. IInv => LevelsIncrease
  BY DEF IInv
<1> QED
  BY <1>1, SpecIInv, PTL

-----------------------------------------------------------------------------
(* The nesting of services.                                                *)

\* Levels lie between -1 and 1 and rise strictly, so three entries at most.
LEMMA StackShape ==
  ASSUME IInv
  PROVE  /\ Len(it_levels) \in 1 .. 3
         /\ DOMAIN it_levels = 1 .. Len(it_levels)
         /\ \A i \in 1 .. Len(it_levels) : it_levels[i].level \in Levels
         /\ \A i \in 1 .. Len(it_levels) - 1 : it_levels[i].level < Top.level
<1>1. /\ Len(it_levels) \in Nat /\ Len(it_levels) # 0
      /\ DOMAIN it_levels = 1 .. Len(it_levels)
      /\ \A i \in 1 .. Len(it_levels) : it_levels[i] \in ItLevel
  BY TopInStack, LenProperties DEF IInv, TypeOK
<1>2. \A i \in 1 .. Len(it_levels) : it_levels[i].level \in Levels
  BY <1>1 DEF ItLevel
<1>3. it_levels[1].level = -1
  BY DEF IInv, LevelsIncrease, BaseLevel
<1>4. \A i \in 2 .. Len(it_levels) : it_levels[i - 1].level < it_levels[i].level
  BY DEF IInv, LevelsIncrease
<1> DEFINE n == Len(it_levels)
           lev == [i \in 1 .. n |-> it_levels[i].level]
<1>5. /\ n \in Nat /\ n # 0 /\ lev \in [1 .. n -> -1 .. 1] /\ lev[1] = -1
      /\ \A i \in 2 .. n : lev[i - 1] < lev[i]
  BY <1>1, <1>2, <1>3, <1>4 DEF Levels
<1>6. n < 4
  <2> SUFFICES ASSUME n >= 4 PROVE FALSE
    BY <1>5
  <2> HIDE DEF n, lev
  <2>1. lev[2] > -1 /\ lev[3] > lev[2] /\ lev[4] > lev[3]
    BY <1>5
  <2>2. lev[2] \in -1 .. 1 /\ lev[3] \in -1 .. 1 /\ lev[4] \in -1 .. 1
    BY <1>5
  <2> QED
    BY <2>1, <2>2
<1>7. \A i \in 1 .. n - 1 : lev[i] < lev[n]
  <2> HIDE DEF n, lev
  <2>1. n = 1 \/ n = 2 \/ n = 3
    BY <1>5, <1>6
  <2>2. CASE n = 1
    BY <2>2
  <2>3. CASE n = 2
    BY <1>5, <2>3
  <2>4. CASE n = 3
    <3>1. lev[1] < lev[2] /\ lev[2] < lev[3]
      BY <1>5, <2>4
    <3>2. lev[1] \in -1 .. 1 /\ lev[2] \in -1 .. 1 /\ lev[3] \in -1 .. 1
      BY <1>5, <2>4
    <3>3. \A i \in 1 .. n - 1 : i = 1 \/ i = 2
      BY <2>4
    <3> QED
      BY <2>4, <3>1, <3>2, <3>3
  <2> QED
    BY <2>1, <2>2, <2>3, <2>4
<1>8. n \in 1 .. 3
  <2> HIDE DEF n
  <2> QED
    BY <1>5, <1>6
<1>9. n \in 1 .. n /\ \A i \in 1 .. n - 1 : i \in 1 .. n
  <2> HIDE DEF n
  <2> QED
    BY <1>8
<1>10. \A i \in 1 .. n - 1 : it_levels[i].level < it_levels[n].level
  BY <1>7, <1>9
<1>11. Top.level = it_levels[n].level
  BY DEF Top
<1> QED
  BY <1>1, <1>2, <1>8, <1>10, <1>11

Service == {it_levels[i].level : i \in DOMAIN it_levels} \ {-1}

\* RETI ends the highest level in service, or none.
LEMMA RetiEnds ==
  ASSUME IInv, ExecReti
  PROVE  Service' = Service \/ \E p \in {0, 1} :
           /\ p \in Service
           /\ \A q \in Service : q <= p
           /\ Service' = Service \ {p}
<1> DEFINE n == Len(it_levels)
           p == Top.level
<1>1. /\ n \in 1 .. 3 /\ DOMAIN it_levels = 1 .. n
      /\ \A i \in 1 .. n : it_levels[i].level \in Levels
      /\ \A i \in 1 .. n - 1 : it_levels[i].level < p
  BY StackShape
<1>2. CASE ~(Top.level >= 0)
  BY <1>2 DEF ExecReti, Service
<1>3. CASE Top.level >= 0
  <2>1. p \in {0, 1}
    BY <1>1, <1>3 DEF Top, Levels
  <2>2. p = it_levels[n].level
    BY DEF Top
  <2>3. it_levels' = SubSeq(it_levels, 1, n - 1)
    BY <1>3 DEF ExecReti
  <2>4. n # 1
    BY <1>3 DEF IInv, LevelsIncrease, Top, BaseLevel
  <2>5. n > 1
    <3> HIDE DEF n
    <3> QED
      BY <1>1, <2>4
  <2>6. /\ it_levels' \in Seq(ItLevel) /\ Len(it_levels') = n - 1
        /\ \A i \in 1 .. n - 1 : it_levels'[i] = it_levels[i]
    BY <2>3, <2>5, PopStack DEF IInv, TypeOK
  <2>7. DOMAIN it_levels' = 1 .. n - 1
    BY <2>6, LenProperties
  <2>8. Service = {it_levels[i].level : i \in 1 .. n} \ {-1}
    BY <1>1 DEF Service
  <2>9. Service' = {it_levels[i].level : i \in 1 .. n - 1} \ {-1}
    BY <2>6, <2>7 DEF Service
  <2> HIDE DEF n, p
  <2>10. p \in Service
    BY <1>1, <2>1, <2>2, <2>8
  <2>11. \A i \in 1 .. n : i = n \/ i \in 1 .. n - 1
    BY <1>1
  <2>12. \A q \in Service : q <= p
    BY <1>1, <2>1, <2>2, <2>8, <2>11 DEF Levels
  <2>13. Service' = Service \ {p}
    BY <1>1, <2>1, <2>2, <2>8, <2>9, <2>11 DEF Levels
  <2> QED
    BY <2>1, <2>10, <2>12, <2>13
<1> QED
  BY <1>2, <1>3

\* An accepted source begins a level above every level in service.
LEMMA AcceptBegins ==
  ASSUME NEW i \in DOMAIN ItSources, IInv, Accept(i)
  PROVE  \E p \in {0, 1} :
           /\ \A q \in Service : q < p
           /\ Service' = Service \union {p}
<1> DEFINE n == Len(it_levels)
           s == ItSources[i]
           e == [level |-> it_priority(s), source |-> s]
           p == it_priority(s)
<1>1. /\ n \in 1 .. 3 /\ DOMAIN it_levels = 1 .. n
      /\ \A j \in 1 .. n : it_levels[j].level \in Levels
      /\ \A j \in 1 .. n - 1 : it_levels[j].level < Top.level
  BY StackShape
<1>2. e \in ItLevel /\ p \in {0, 1} /\ e.level = p
  BY SourceInOrder
<1>3. Top.level = it_levels[n].level
  BY DEF Top
<1>4. Top.level < p
  BY <1>2, TopInStack DEF Accept, First, Acceptable, Outranks, IInv, Levels
<1>5. it_levels' = Append(it_levels, e)
  BY DEF Accept
<1>6. /\ it_levels' \in Seq(ItLevel) /\ Len(it_levels') = n + 1
      /\ \A j \in 1 .. n : it_levels'[j] = it_levels[j]
      /\ it_levels'[n + 1] = e
  BY <1>2, <1>5, PushStack DEF IInv, TypeOK
<1>7. DOMAIN it_levels' = 1 .. n + 1
  BY <1>6, LenProperties
<1>8. Service = {it_levels[j].level : j \in 1 .. n} \ {-1}
  BY <1>1 DEF Service
<1>9. Service' = {it_levels'[j].level : j \in 1 .. n + 1} \ {-1}
  BY <1>7 DEF Service
<1> HIDE DEF n, p, e
<1>10. \A j \in 1 .. n : j = n \/ j \in 1 .. n - 1
  BY <1>1
<1>11. \A q \in Service : q < p
  BY <1>1, <1>2, <1>3, <1>4, <1>8, <1>10 DEF Levels
<1>12. \A j \in 1 .. n + 1 : j = n + 1 \/ j \in 1 .. n
  BY <1>1
<1>13. n + 1 \in 1 .. n + 1 /\ \A j \in 1 .. n : j \in 1 .. n + 1
  BY <1>1
<1>14. Service' = Service \union {p}
  BY <1>2, <1>6, <1>8, <1>9, <1>12, <1>13
<1> QED
  BY <1>2, <1>11, <1>14

\* The steps other than RETI, an acceptance and a reset leave the stack alone.
LEMMA StackSteps ==
  [Next]_vars => \/ it_levels' = it_levels
                 \/ ExecReti
                 \/ \E i \in DOMAIN ItSources : Accept(i)
                 \/ Reset
BY WritesKeepStack
DEF Next, Exec, ExecPlain, ExecWriteIEN0, ExecWriteOther, ExecWritePCON, ExecStop, IdleCycle,
    DmaMoves, PostInst, Interrupts, SkipInterrupts, NoInterrupt, WakeUp, SetPin, LineMoves, vars,
    cpu

\* The interrupt controller implements strictly nested service: every step of
\* the loop begins a level above those in service, ends the highest, abandons
\* them all, or leaves them as they are.
THEOREM NestedServiceImplemented == Spec => ImplementsNestedService
<1>1. Init => NS!Init
  BY DEF Init, NS!Init, BaseLevel
<1>2. IInv /\ [Next]_vars => [NS!Next]_Service
  <2> SUFFICES ASSUME IInv, [Next]_vars PROVE NS!Next \/ UNCHANGED Service
    OBVIOUS
  <2>1. CASE it_levels' = it_levels
    BY <2>1 DEF Service
  <2>2. CASE ExecReti
    BY <2>2, RetiEnds DEF NS!Next, NS!End, Service
  <2>3. CASE \E i \in DOMAIN ItSources : Accept(i)
    BY <2>3, AcceptBegins DEF NS!Next, NS!Begin, Service
  <2>4. CASE Reset
    <3>1. Service' = {}
      BY <2>4 DEF Reset, BaseLevel, Service
    <3> QED
      BY <3>1 DEF NS!Next, NS!Abandon, Service
  <2> QED
    BY <2>1, <2>2, <2>3, <2>4, StackSteps
<1> QED
  BY <1>1, <1>2, SpecIInv, PTL DEF Spec, ImplementsNestedService, NS!Spec, Service

-----------------------------------------------------------------------------
(* What one pass of the loop may not do.                                   *)

\* A pass whose instruction was RETI or a write to IE carries was_reti to the
\* interrupt check, whatever happens in post_inst.
RetiInv == phase \in {"post", "irq"} /\ instr \in {"reti", "ie"} => was_reti

LEMMA RetiInvInductive == RetiInv /\ [Next]_vars => RetiInv'
<1> SUFFICES ASSUME RetiInv, [Next]_vars PROVE RetiInv'
  OBVIOUS
<1>1. CASE Exec
  BY <1>1 DEF Exec, ExecPlain, ExecReti, ExecWriteIEN0, ExecWriteOther, ExecWritePCON, Executes,
              RetiInv
<1>2. CASE ExecStop \/ IdleCycle \/ Reset
  BY <1>2 DEF ExecStop, IdleCycle, Reset, RetiInv
<1>3. ASSUME NEW raised \in SUBSET Flags, PostInst(raised) PROVE RetiInv'
  BY <1>3 DEF PostInst, RetiInv
<1>4. CASE Interrupts
  BY <1>4 DEF Interrupts, SkipInterrupts, NoInterrupt, WakeUp, Accept, EndPass, RetiInv
<1>5. ASSUME NEW f \in ExtFlags, SetPin(f) PROVE RetiInv'
  BY <1>5 DEF SetPin, LineMoves, cpu, RetiInv
<1>6. CASE DmaMoves
  BY <1>6 DEF DmaMoves, RetiInv
<1>7. CASE UNCHANGED vars
  BY <1>7 DEF vars, cpu, RetiInv
<1> QED
  BY <1>1, <1>2, <1>3, <1>4, <1>5, <1>6, <1>7 DEF Next

\* After RETI or a write to IE no interrupt is accepted before the next
\* instruction has run.
THEOREM OneInstruction == Spec => OneInstructionAfterReti
<1>1. Init => RetiInv
  BY DEF Init, RetiInv
<1>2. IInv /\ RetiInv /\ [Next]_vars =>
        [phase = "irq" /\ instr \in {"reti", "ie"} => Len(it_levels') <= Len(it_levels)]_vars
  <2> SUFFICES ASSUME IInv, RetiInv, [Next]_vars, phase = "irq", instr \in {"reti", "ie"}
               PROVE  Len(it_levels') <= Len(it_levels) \/ UNCHANGED vars
    OBVIOUS
  <2>1. was_reti
    BY DEF RetiInv
  <2>2. ~ExecReti /\ ~Reset /\ \A i \in DOMAIN ItSources : ~Accept(i)
    BY <2>1 DEF ExecReti, Executes, Reset, Accept
  <2>3. it_levels' = it_levels
    BY <2>2, StackSteps
  <2>4. Len(it_levels) \in Nat
    BY TopInStack DEF IInv
  <2> QED
    BY <2>3, <2>4
<1> QED
  BY <1>1, <1>2, RetiInvInductive, SpecIInv, PTL DEF Spec, OneInstructionAfterReti

\* Of the steps of the interrupt check, only an acceptance touches a request.
THEOREM RequestsAreKept == Spec => RequestsKept
<1> DEFINE Kept ==
      phase = "irq" /\ flags' # flags =>
        /\ Len(it_levels') = Len(it_levels) + 1
        /\ flags \ flags' \subseteq SrcFlags[it_levels'[Len(it_levels')].source]
        /\ flags' \subseteq flags
<1>1. IInv /\ [Next]_vars => [Kept]_vars
  <2> SUFFICES ASSUME IInv, [Next]_vars, phase = "irq", flags' # flags PROVE Kept
    OBVIOUS
  <2>1. PICK i \in DOMAIN ItSources : Accept(i)
    BY DEF Next, Exec, ExecPlain, ExecReti, ExecWriteIEN0, ExecWriteOther, ExecWritePCON, Executes,
         ExecStop, IdleCycle, DmaMoves, PostInst, Interrupts, SkipInterrupts, NoInterrupt, WakeUp,
         Reset, SetPin, vars, sfrs
  <2> DEFINE s == ItSources[i]
             e == [level |-> it_priority(s), source |-> s]
  <2>2. e \in ItLevel /\ e.source = s
    BY SourceInOrder
  <2>3. it_levels' = Append(it_levels, e)
    BY <2>1 DEF Accept
  <2>4. Len(it_levels') = Len(it_levels) + 1 /\ it_levels'[Len(it_levels) + 1] = e
    BY <2>2, <2>3, PushStack DEF IInv, TypeOK
  <2>5. flags' \in {flags, flags \ SrcFlags[s]}
    BY <2>1 DEF Accept
  <2> HIDE DEF e, s
  <2> QED
    BY <2>2, <2>4, <2>5
<1> QED
  BY <1>1, SpecIInv, PTL DEF Spec, RequestsKept, Kept

\* A request of level 1 interrupts a routine of level 0 in the pass that sees
\* it, wherever it stands in the polling order.
THEOREM HighAlwaysPreempts == Spec => HighPreemptsLow
<1> DEFINE Due == /\ phase = "irq" /\ ~was_reti /\ state = "GO" /\ EA \in ien /\ Top.level = 0
                  /\ \E s \in Sources : Enabled(s) /\ Requested(s) /\ it_priority(s) = 1
           Taken == it_levels'[Len(it_levels')].level = 1
<1>1. IInv /\ [Next]_vars => [Due => Taken]_vars
  <2> SUFFICES ASSUME IInv, [Next]_vars, Due, ~UNCHANGED vars PROVE Taken
    OBVIOUS
  <2>1. SomeAcceptable
    <3>1. PICK i \in DOMAIN ItSources :
             /\ Enabled(ItSources[i]) /\ Requested(ItSources[i])
             /\ it_priority(ItSources[i]) = 1
      BY DEF Sources
    <3>2. Outranks(ItSources[i])
      BY <3>1 DEF Outranks
    <3> QED
      BY <3>1, <3>2 DEF SomeAcceptable, Acceptable
  <2>2. PICK i \in DOMAIN ItSources : Accept(i)
    BY <2>1 DEF Next, Exec, ExecPlain, ExecReti, ExecWriteIEN0, ExecWriteOther, ExecWritePCON,
         Executes, ExecStop, IdleCycle, DmaMoves, PostInst, Interrupts, SkipInterrupts,
         NoInterrupt, WakeUp, Reset, SetPin
  <2> DEFINE s == ItSources[i]
             e == [level |-> it_priority(s), source |-> s]
  <2>3. e \in ItLevel /\ e.level = it_priority(s) /\ it_priority(s) \in {0, 1}
    BY SourceInOrder
  <2>4. it_priority(s) = 1
    BY <2>2, <2>3 DEF Accept, First, Acceptable, Outranks
  <2>5. it_levels' = Append(it_levels, e)
    BY <2>2 DEF Accept
  <2>6. Len(it_levels') = Len(it_levels) + 1 /\ it_levels'[Len(it_levels) + 1] = e
    BY <2>3, <2>5, PushStack DEF IInv, TypeOK
  <2> HIDE DEF e, s
  <2> QED
    BY <2>3, <2>4, <2>6
<1> QED
  BY <1>1, SpecIInv, PTL DEF Spec, HighPreemptsLow

\* Why a check is skipped and why the core goes to sleep: an instruction of this
\* pass, or a byte the DMA moved since the last check. An idle core executes
\* nothing, so only the DMA can have set was_reti there, and no breakpoint is hit.
PassInv ==
  /\ phase = "fetch" \/ result = "STOP" => instr = "none"
  /\ phase # "fetch" => state # "PD" /\ result \in {"GO", "STOP"}
  /\ phase # "fetch" /\ was_reti => "IE" \in moved \/ instr \in {"reti", "ie"}
  /\ CMOS /\ state = "GO" /\ idl => "PCON" \in moved \/ instr = "pcon"
  /\ state = "IDLE" => /\ instr = "none"
                       /\ phase = "fetch" => ~was_reti
                       /\ phase = "post" => result = "GO"

LEMMA PassInvInductive == PassInv /\ [Next]_vars => PassInv'
<1> SUFFICES ASSUME PassInv, [Next]_vars PROVE PassInv'
  OBVIOUS
<1> USE DEF PassInv, sfrs
<1>1. CASE ExecPlain \/ ExecReti
  BY <1>1 DEF ExecPlain, ExecReti, Executes
<1>2. ASSUME NEW bits \in SUBSET IEN0Bits, ExecWriteIEN0(bits) PROVE PassInv'
  BY <1>2 DEF ExecWriteIEN0, WriteIEN0, Executes
<1>3. WriteOther => UNCHANGED <<idl, pd>>
  BY DEF WriteOther, WriteIEN12, WriteIP, WriteFlag, WriteIT, LineMoves
<1>4. CASE ExecWriteOther
  BY <1>3, <1>4 DEF ExecWriteOther, Executes
<1>5. ASSUME NEW i \in BOOLEAN, NEW p \in BOOLEAN, ExecWritePCON(i, p) PROVE PassInv'
  BY <1>5 DEF ExecWritePCON, Executes
<1>6. CASE ExecStop \/ IdleCycle \/ Reset
  BY <1>6 DEF ExecStop, IdleCycle, Reset
<1>7. CASE DmaMoves
  BY <1>3, <1>7 DEF DmaMoves, WriteIEN0
<1>8. ASSUME NEW raised \in SUBSET Flags, PostInst(raised) PROVE PassInv'
  BY <1>8 DEF PostInst
<1>9. CASE SkipInterrupts \/ NoInterrupt \/ WakeUp
  BY <1>9 DEF SkipInterrupts, NoInterrupt, WakeUp, EndPass, IdlePd
<1>10. ASSUME NEW i \in DOMAIN ItSources, Accept(i) PROVE PassInv'
  BY <1>10 DEF Accept, EndPass
<1>11. ASSUME NEW f \in ExtFlags, SetPin(f) PROVE PassInv'
  BY <1>11 DEF SetPin, LineMoves, cpu
<1>12. CASE UNCHANGED vars
  BY <1>12 DEF vars, cpu
<1> QED
  BY <1>1, <1>2, <1>4, <1>5, <1>6, <1>7, <1>8, <1>9, <1>10, <1>11, <1>12
  DEF Next, Exec, Interrupts

\* The core sleeps on a request it could accept only where the DMA wrote IE, or
\* put it to sleep, since the last check.
THEOREM NeverSleeps == Spec => NeverSleepsOnRequest
<1> DEFINE Asleep == phase = "irq" /\ SomeAcceptable /\ state' = "IDLE"
           Moved == "IE" \in moved \/ (state = "GO" /\ "PCON" \in moved)
<1>1. Init => PassInv
  BY DEF Init, PassInv
<1>2. IInv /\ PassInv /\ [Next]_vars => [Asleep => Moved]_vars
  <2> SUFFICES ASSUME IInv, PassInv, [Next]_vars, Asleep, ~UNCHANGED vars PROVE Moved
    OBVIOUS
  <2>1. SkipInterrupts
    BY DEF Next, Exec, ExecPlain, ExecReti, ExecWriteIEN0, ExecWriteOther, ExecWritePCON, Executes,
         ExecStop, IdleCycle, DmaMoves, PostInst, Interrupts, NoInterrupt, WakeUp, IdlePd, Accept,
         Reset, SetPin
  <2>2. state \in {"GO", "IDLE"}
    BY <2>1 DEF SkipInterrupts, EndPass, IInv, TypeOK, PassInv
  <2>3. state = "IDLE" \/ (CMOS /\ state = "GO" /\ idl)
    BY <2>1, <2>2 DEF SkipInterrupts, IdlePd
  <2> QED
    BY <2>1, <2>3 DEF SkipInterrupts, EndPass, PassInv
<1> QED
  BY <1>1, <1>2, PassInvInductive, SpecIInv, PTL DEF Spec, NeverSleepsOnRequest, Asleep, Moved

-----------------------------------------------------------------------------
(* Liveness, by the places the loop can be in while it is not powered      *)
(* down. Each of these steps leaves its place only for the next one. The   *)
(* rest is propositional temporal logic, from the fairness of FairSpec and *)
(* from LoopNeverBlocks, which says when its steps can be taken: the       *)
(* prover does not know ENABLED.                                           *)

AtFetch == phase = "fetch" /\ state = "GO"
AtIdle == phase = "fetch" /\ state = "IDLE"
InPost == phase = "post" /\ state = "GO"
InPostIdle == phase = "post" /\ state = "IDLE"
InCheck == phase = "irq" /\ state = "GO"
InCheckIdle == phase = "irq" /\ state = "IDLE"
Post == \E raised \in SUBSET Flags : PostInst(raised)

LEMMA Places ==
  TypeOK /\ state # "PD" => AtFetch \/ AtIdle \/ InPost \/ InPostIdle \/ InCheck \/ InCheckIdle
BY DEF TypeOK, AtFetch, AtIdle, InPost, InPostIdle, InCheck, InCheckIdle

LEMMA StepsAreDue ==
  LoopNeverBlocks =>
    /\ AtFetch => ENABLED <<ExecPlain>>_vars
    /\ AtIdle => ENABLED <<IdleCycle>>_vars
    /\ InPost \/ InPostIdle => ENABLED <<Post>>_vars
    /\ InCheck \/ InCheckIdle => ENABLED <<Interrupts>>_vars
BY DEF LoopNeverBlocks, AtFetch, AtIdle, InPost, InPostIdle, InCheck, InCheckIdle, Post

\* An instruction is executed, a breakpoint hit, or the operator acts.
LEMMA FromFetch == AtFetch /\ [Next]_vars => AtFetch' \/ InPost'
BY DEF AtFetch, InPost, Next, Exec, ExecPlain, ExecReti, ExecWriteIEN0, ExecWriteOther,
       ExecWritePCON, Executes, ExecStop, IdleCycle, DmaMoves, PostInst, Interrupts,
       SkipInterrupts, NoInterrupt, WakeUp, Accept, EndPass, Reset, SetPin, vars, cpu

LEMMA FromIdle ==
  /\ AtIdle /\ [Next]_vars => AtIdle' \/ InPostIdle' \/ AtFetch'
  /\ <<IdleCycle>>_vars => InPostIdle'
BY DEF AtFetch, AtIdle, InPostIdle, Next, Exec, ExecPlain, ExecReti, ExecWriteIEN0,
       ExecWriteOther, ExecWritePCON, Executes, ExecStop, IdleCycle, DmaMoves, PostInst,
       Interrupts, SkipInterrupts, NoInterrupt, WakeUp, Accept, EndPass, Reset, SetPin, vars, cpu

\* Nothing but ticks of the hardware happens after an instruction, nothing but
\* the interrupt check after that.
LEMMA OnlyPost == phase = "post" /\ [Next]_vars => Post \/ DmaMoves \/ UNCHANGED vars
BY DEF Post, Next, Exec, ExecPlain, ExecReti, ExecWriteIEN0, ExecWriteOther, ExecWritePCON,
       Executes, ExecStop, IdleCycle, Interrupts, SkipInterrupts, NoInterrupt, WakeUp, Accept,
       EndPass, Reset, SetPin

LEMMA OnlyCheck == phase = "irq" /\ [Next]_vars => Interrupts \/ UNCHANGED vars
BY DEF Next, Exec, ExecPlain, ExecReti, ExecWriteIEN0, ExecWriteOther, ExecWritePCON, Executes,
       ExecStop, IdleCycle, DmaMoves, PostInst, Reset, SetPin

\* A byte the DMA moves ends neither the tick nor a skip it finds set.
LEMMA MoveStep ==
  ASSUME DmaMoves
  PROVE  /\ UNCHANGED <<phase, result, state, it_levels>>
         /\ was_reti => was_reti'
         /\ was_reti' /\ ~was_reti => "IE" \in moved'
BY WritesKeepStack DEF DmaMoves

LEMMA PostStep ==
  ASSUME Post
  PROVE  /\ UNCHANGED <<state, was_reti, it_levels, idl, pd>>
         /\ phase' = IF result = "GO" THEN "irq" ELSE "fetch"
BY DEF Post, PostInst

LEMMA FromPost ==
  /\ InPost /\ [Next]_vars => InPost' \/ InCheck' \/ AtFetch'
  /\ InPost /\ <<Post>>_vars => InCheck' \/ AtFetch'
<1>1. InPost /\ Post => InCheck' \/ AtFetch'
  BY PostStep DEF InPost, InCheck, AtFetch
<1>2. InPost /\ (DmaMoves \/ UNCHANGED vars) => InPost'
  BY MoveStep DEF InPost, vars, cpu
<1> QED
  BY <1>1, <1>2, OnlyPost DEF InPost

LEMMA FromPostIdle ==
  /\ PassInv /\ InPostIdle /\ [Next]_vars => InPostIdle' \/ InCheckIdle'
  /\ PassInv /\ InPostIdle /\ <<Post>>_vars => InCheckIdle'
<1>1. PassInv /\ InPostIdle /\ Post => InCheckIdle'
  BY PostStep DEF InPostIdle, InCheckIdle, PassInv
<1>2. InPostIdle /\ (DmaMoves \/ UNCHANGED vars) => InPostIdle'
  BY MoveStep DEF InPostIdle, vars, cpu
<1> QED
  BY <1>1, <1>2, OnlyPost DEF InPostIdle

LEMMA FromCheck ==
  /\ InCheck /\ [Next]_vars => InCheck' \/ AtFetch' \/ AtIdle' \/ state' = "PD"
  /\ InCheck /\ <<Interrupts>>_vars => AtFetch' \/ AtIdle' \/ state' = "PD"
<1>1. InCheck /\ Interrupts => AtFetch' \/ AtIdle' \/ state' = "PD"
  BY DEF InCheck, AtFetch, AtIdle, Interrupts, SkipInterrupts, NoInterrupt, WakeUp, Accept,
         EndPass, IdlePd
<1>2. InCheck /\ UNCHANGED vars => InCheck'
  BY DEF InCheck, vars, cpu
<1> QED
  BY <1>1, <1>2, OnlyCheck DEF InCheck

-----------------------------------------------------------------------------
(* A request that can be accepted interrupts the main program.             *)

\* After a plain instruction the pass looks for interrupts, unless a byte moved
\* into IE makes it skip the check.
InPostPlain == InPost /\ result = "GO" /\ ~was_reti
InCheckOpen == InCheck /\ ~was_reti
SkipsAfterPost == InPost /\ result = "GO" /\ was_reti
Undisturbed == "IE" \notin moved

LEMMA PlainPass ==
  /\ <<ExecPlain>>_vars => InPostPlain'
  /\ InPostPlain /\ [Next]_vars =>
       InPostPlain' \/ InCheckOpen' \/ (SkipsAfterPost' /\ ~Undisturbed')
  /\ InPostPlain /\ <<Post>>_vars => InCheckOpen'
<1>1. <<ExecPlain>>_vars => InPostPlain'
  BY DEF ExecPlain, Executes, InPostPlain, InPost
<1>2. InPostPlain /\ Post => InCheckOpen'
  BY PostStep DEF InPostPlain, InPost, InCheckOpen, InCheck
<1>3. InPostPlain /\ UNCHANGED vars => InPostPlain'
  BY DEF InPostPlain, InPost, vars, cpu
<1>4. InPostPlain /\ DmaMoves => InPostPlain' \/ (SkipsAfterPost' /\ ~Undisturbed')
  BY MoveStep DEF InPostPlain, InPost, SkipsAfterPost, Undisturbed
<1> QED
  BY <1>1, <1>2, <1>3, <1>4, OnlyPost DEF InPostPlain, InPost

\* A check that is not skipped accepts the request it sees.
LEMMA CheckAccepts ==
  ASSUME IInv, Ignored, InCheckOpen, Interrupts
  PROVE  ~Ignored'
<1>1. PICK i \in DOMAIN ItSources : Accept(i)
  BY DEF Interrupts, SkipInterrupts, NoInterrupt, WakeUp, Ignored, InCheckOpen, InCheck
<1> DEFINE s == ItSources[i]
           e == [level |-> it_priority(s), source |-> s]
<1>2. e \in ItLevel /\ e.level \in {0, 1}
  BY SourceInOrder
<1>3. it_levels' = Append(it_levels, e)
  BY <1>1 DEF Accept
<1>4. Len(it_levels') = Len(it_levels) + 1 /\ it_levels'[Len(it_levels) + 1] = e
  BY <1>2, <1>3, PushStack DEF IInv, TypeOK
<1>5. Top' = e
  BY <1>4 DEF Top
<1> HIDE DEF e
<1>6. ~(Top.level < 0)'
  BY <1>2, <1>5
<1> QED
  BY <1>6 DEF Ignored

\* A core that idles wakes up instead.
LEMMA CheckWakes ==
  ASSUME PassInv, Undisturbed, Ignored, InCheckIdle, Interrupts
  PROVE  AtFetch' \/ ~Ignored'
<1>1. WakeUp
  BY DEF Interrupts, SkipInterrupts, NoInterrupt, Accept, Ignored, InCheckIdle, PassInv,
         Undisturbed
<1>2. phase' = "fetch" /\ state' \in {"GO", "PD"}
  BY <1>1 DEF WakeUp, EndPass, IdlePd
<1> QED
  BY <1>2 DEF AtFetch, Ignored

LEMMA FromCheckOpen ==
  /\ IInv /\ Ignored /\ InCheckOpen /\ [Next]_vars => InCheckOpen' \/ ~Ignored'
  /\ IInv /\ Ignored /\ InCheckOpen /\ <<Interrupts>>_vars => ~Ignored'
<1>1. InCheckOpen /\ UNCHANGED vars => InCheckOpen'
  BY DEF InCheckOpen, InCheck, vars, cpu
<1> QED
  BY <1>1, OnlyCheck, CheckAccepts DEF InCheckOpen, InCheck

LEMMA FromCheckIdle ==
  /\ PassInv /\ Undisturbed /\ Ignored /\ InCheckIdle /\ [Next]_vars =>
       InCheckIdle' \/ AtFetch' \/ ~Ignored'
  /\ PassInv /\ Undisturbed /\ Ignored /\ InCheckIdle /\ <<Interrupts>>_vars =>
       AtFetch' \/ ~Ignored'
<1>1. InCheckIdle /\ UNCHANGED vars => InCheckIdle'
  BY DEF InCheckIdle, vars, cpu
<1> QED
  BY <1>1, OnlyCheck, CheckWakes DEF InCheckIdle

\* A request that can be accepted while the main program runs or idles starts a
\* routine, or is withdrawn, or the core is powered down: a program that goes on
\* executes plain instructions, and after one of them a check is not skipped,
\* once the DMA has stopped writing IE.
THEOREM MainIsInterrupted == FairSpec /\ []LoopNeverBlocks => RequestInterruptsMain
<1>1. Init => PassInv
  BY DEF Init, PassInv
<1>2. IInv /\ Ignored => AtFetch \/ AtIdle \/ InPost \/ InPostIdle \/ InCheck \/ InCheckIdle
  BY Places DEF IInv, Ignored
<1>3. state' = "PD" => ~Ignored'
  BY DEF Ignored
<1>4. InCheckOpen => InCheck
  BY DEF InCheckOpen
<1>5. InPostPlain => InPost
  BY DEF InPostPlain
<1>6. Undisturbed <=> "IE" \notin moved
  BY DEF Undisturbed
<1>7. FairSpec /\ []LoopNeverBlocks /\ <>[]Undisturbed => (Ignored ~> ~Ignored)
  BY <1>1, <1>2, <1>3, <1>4, <1>5, SpecIInv, PassInvInductive, StepsAreDue, FromFetch, FromIdle,
     FromPost, FromPostIdle, FromCheck, PlainPass, FromCheckOpen, FromCheckIdle, PTL
  DEF FairSpec, Spec, LoopFairness, Post
<1> QED
  BY <1>6, <1>7, PTL DEF RequestInterruptsMain

-----------------------------------------------------------------------------
(* PCON.PD powers the core down. A pass that accepts an interrupt does not *)
(* look at it, but it adds a level, and there is room for two; a RETI that *)
(* takes one away makes its own pass look at PCON.                         *)

One == Len(it_levels) = 1
Two == Len(it_levels) = 2
Three == Len(it_levels) = 3

Skips == InCheck /\ was_reti

LEMMA OneTwoThree ==
  IInv => /\ One \/ Two \/ Three
          /\ ~(One /\ Two) /\ ~(One /\ Three) /\ ~(Two /\ Three)
BY StackShape DEF One, Two, Three

LEMMA NextDepth == IInv' => One' \/ Two' \/ Three'
BY OneTwoThree, PTL

\* The stack changes nowhere else.
LEMMA StackStands ==
  ASSUME [Next]_vars, PoweringDown, phase # "irq"
  PROVE  it_levels' = it_levels \/ SkipsAfterPost' \/ ~PoweringDown'
<1>1. CASE ExecReti
  BY <1>1 DEF ExecReti, Executes, SkipsAfterPost, InPost
<1>2. CASE Reset
  BY <1>2 DEF Reset, PoweringDown
<1>3. CASE ~ExecReti /\ ~Reset
  BY <1>3, StackSteps DEF Accept, EndPass
<1> QED
  BY <1>1, <1>2, <1>3

LEMMA DepthStands ==
  PoweringDown /\ [Next]_vars /\ ~InCheck /\ ~InCheckIdle =>
    \/ (One => One') /\ (Two => Two') /\ (Three => Three')
    \/ SkipsAfterPost' \/ ~PoweringDown' \/ ~TypeOK
<1>1. TypeOK /\ PoweringDown /\ ~InCheck /\ ~InCheckIdle => phase # "irq"
  BY DEF TypeOK, PoweringDown, InCheck, InCheckIdle
<1> QED
  BY <1>1, StackStands DEF One, Two, Three

\* A check powers the core down or accepts an interrupt.
LEMMA CheckDecides ==
  ASSUME IInv, PoweringDown, Interrupts
  PROVE  \/ ~PoweringDown'
         \/ /\ ~was_reti /\ state # "IDLE"
            /\ (One => Two') /\ (Two => Three') /\ ~Three
<1>1. CASE \E i \in DOMAIN ItSources : Accept(i)
  <2>1. PICK i \in DOMAIN ItSources : Accept(i)
    BY <1>1
  <2> DEFINE e == [level |-> it_priority(ItSources[i]), source |-> ItSources[i]]
  <2>2. e \in ItLevel
    BY SourceInOrder
  <2>3. it_levels' = Append(it_levels, e)
    BY <2>1 DEF Accept
  <2>4. Len(it_levels') = Len(it_levels) + 1
    BY <2>2, <2>3, PushStack DEF IInv, TypeOK
  <2>5. IInv'
    BY <2>1, AcceptIInv
  <2>6. One' \/ Two' \/ Three'
    BY <2>5, NextDepth
  <2>7. ~was_reti /\ state # "IDLE"
    BY <2>1 DEF Accept
  <2>8. One => Len(it_levels') = 2
    BY <2>4 DEF One
  <2>9. Two => Len(it_levels') = 3
    BY <2>4 DEF Two
  <2>10. Three => Len(it_levels') = 4
    BY <2>4 DEF Three
  <2>11. (One => Two') /\ (Two => Three') /\ ~Three
    BY <2>6, <2>8, <2>9, <2>10 DEF One, Two, Three
  <2> QED
    BY <2>7, <2>11
<1>2. CASE SkipInterrupts \/ NoInterrupt \/ WakeUp
  BY <1>2 DEF SkipInterrupts, NoInterrupt, WakeUp, IdlePd, PoweringDown
<1> QED
  BY <1>1, <1>2 DEF Interrupts

LEMMA DepthGrows ==
  /\ IInv /\ PoweringDown /\ InCheck /\ <<Interrupts>>_vars =>
       ~PoweringDown' \/ ((One => Two') /\ (Two => Three') /\ ~Three)
  /\ IInv /\ PoweringDown /\ InCheck /\ [Next]_vars =>
       \/ ~PoweringDown'
       \/ (One => Two') /\ (Two => Three') /\ ~Three
       \/ InCheck' /\ (One => One') /\ (Two => Two') /\ (Three => Three')
  /\ IInv /\ PoweringDown /\ InCheckIdle /\ <<Interrupts>>_vars => ~PoweringDown'
  /\ IInv /\ PoweringDown /\ InCheckIdle /\ [Next]_vars =>
       \/ ~PoweringDown'
       \/ InCheckIdle' /\ (One => One') /\ (Two => Two') /\ (Three => Three')
<1>1. InCheck /\ UNCHANGED vars => InCheck'
  BY DEF InCheck, vars, cpu
<1>2. InCheckIdle /\ UNCHANGED vars => InCheckIdle'
  BY DEF InCheckIdle, vars, cpu
<1>3. UNCHANGED vars => (One => One') /\ (Two => Two') /\ (Three => Three')
  BY DEF One, Two, Three, vars
<1> QED
  BY <1>1, <1>2, <1>3, OnlyCheck, CheckDecides DEF InCheck, InCheckIdle

\* A pass that skips the check powers the core down.
LEMMA SkippingPass ==
  /\ SkipsAfterPost /\ [Next]_vars => SkipsAfterPost' \/ Skips'
  /\ SkipsAfterPost /\ <<Post>>_vars => Skips'
  /\ IInv /\ PoweringDown /\ Skips /\ [Next]_vars => Skips' \/ ~PoweringDown'
  /\ IInv /\ PoweringDown /\ Skips /\ <<Interrupts>>_vars => ~PoweringDown'
<1>1. SkipsAfterPost /\ Post => Skips'
  BY PostStep DEF SkipsAfterPost, InPost, Skips, InCheck
<1>2. SkipsAfterPost /\ (DmaMoves \/ UNCHANGED vars) => SkipsAfterPost'
  BY MoveStep DEF SkipsAfterPost, InPost, vars, cpu
<1>3. Skips /\ UNCHANGED vars => Skips'
  BY DEF Skips, InCheck, vars, cpu
<1>4. IInv /\ PoweringDown /\ Skips /\ Interrupts => ~PoweringDown'
  BY CheckDecides DEF Skips
<1> QED
  BY <1>1, <1>2, <1>3, <1>4, OnlyPost, OnlyCheck DEF SkipsAfterPost, InPost, Skips, InCheck

\* Once software has set PCON.PD the core powers down or the bit is cleared: an
\* accepted interrupt puts it off, but at most twice in a row.
THEOREM PowersDown == FairSpec /\ []LoopNeverBlocks => PowerDownReached
<1>1. Init => PassInv
  BY DEF Init, PassInv
<1>2. IInv /\ PoweringDown =>
        TypeOK /\ (AtFetch \/ AtIdle \/ InPost \/ InPostIdle \/ InCheck \/ InCheckIdle)
  BY Places DEF IInv, PoweringDown
<1>3. state' = "PD" => ~PoweringDown'
  BY DEF PoweringDown
<1>4. InCheckOpen => InCheck
  BY DEF InCheckOpen
<1>5. InPostPlain => InPost
  BY DEF InPostPlain
<1>6. InCheckOpen /\ [Next]_vars => InCheckOpen' \/ Interrupts
  BY OnlyCheck DEF InCheckOpen, InCheck, vars, cpu
<1>7. /\ SkipsAfterPost => InPost
      /\ Skips => InCheck
      /\ ~(InPost /\ InCheck) /\ ~(InPost /\ InCheckIdle) /\ ~(InPostIdle /\ InCheck)
      /\ ~(InPostIdle /\ InCheckIdle) /\ ~(InCheck /\ InCheckIdle)
      /\ ~(AtFetch /\ InCheck) /\ ~(AtFetch /\ InCheckIdle)
      /\ ~(AtIdle /\ InCheck) /\ ~(AtIdle /\ InCheckIdle)
  BY DEF SkipsAfterPost, Skips, InPost, InPostIdle, InCheck, InCheckIdle, AtFetch, AtIdle
<1>8. FairSpec /\ []LoopNeverBlocks => (PoweringDown ~> ~PoweringDown)
  BY <1>1, <1>2, <1>3, <1>4, <1>5, <1>6, <1>7, SpecIInv, PassInvInductive, StepsAreDue,
     OneTwoThree, FromFetch, FromIdle, FromPost, FromPostIdle, FromCheck, PlainPass, DepthStands,
     DepthGrows, SkippingPass, PTL
  DEF FairSpec, Spec, LoopFairness, Post
<1> QED
  BY <1>8, PTL DEF PowerDownReached
=============================================================================
