------------------------- MODULE CompareTimer_proofs -------------------------
(***************************************************************************)
(* Proofs about CompareTimer: its types, and that the countdown misses no  *)
(* match it promises, for a count of any width and any program.            *)
(***************************************************************************)
EXTENDS CompareTimer, TLAPS

USE TimerAssumption DEF M, Word

-----------------------------------------------------------------------------
(* Arithmetic of a char, and the schedule.                                 *)

\* Steps and differences of two counts are counts.
LEMMA WordSteps ==
  ASSUME NEW x \in Word, NEW y \in Word
  PROVE  Up(x) \in Word /\ Down(x) \in Word /\ Minus(x, y) \in Word
  BY DEF Up, Down, Minus

\* A channel's distance is a count.
LEMMA DistanceType ==
  ASSUME NEW i \in Channels, NEW c \in Word, NEW m, NEW ud,
         NEW cc \in [Channels -> Word]
  PROVE  cmpEventIn(i, c, m, ud, cc) \in Word
<1>1. cc[i] \in Word
  OBVIOUS
<1> QED
  BY <1>1, WordSteps DEF cmpEventIn

\* One channel's part in the schedule: the result is never 0, never later than
\* before, and not later than the channel's event unless the result before was a
\* negative number other than the initial one.
LEMMA EarliestIsEarly ==
  ASSUME NEW d \in Word, NEW enabled \in BOOLEAN, NEW n \in Word, n # 0
  PROVE  /\ Earliest(d, enabled, n) \in Word
         /\ Earliest(d, enabled, n) # 0
         /\ Earliest(d, enabled, n) <= n
         /\ d = 0 => Earliest(d, enabled, n) = n
         /\ enabled /\ d # 0 /\ (n = M - 1 \/ n < Half) => Earliest(d, enabled, n) <= d
  BY DEF Earliest, Sooner, Signed

\* The schedule of the two channels: never 0, never after the event of channel
\* 0, and never after the event of channel 1 if that of channel 0 is near.
LEMMA ScheduleIsEarly ==
  ASSUME NEW c \in Word, NEW m, NEW ud, NEW cc \in [Channels -> Word],
         NEW k \in [Channels -> Control],
         NEW n, n = get_next_cc_event(c, m, ud, cc, k),
         NEW d0, d0 = cmpEventIn(0, c, m, ud, cc),
         NEW d1, d1 = cmpEventIn(1, c, m, ud, cc)
  PROVE  /\ n \in Word
         /\ n # 0
         /\ k[0].compare /\ d0 # 0 => n <= d0
         /\ k[0].compare /\ k[1].compare /\ d0 < Half /\ d1 # 0 => n <= d1
<1> DEFINE e0 == Earliest(d0, k[0].compare, M - 1)
<1>1. d0 \in Word /\ d1 \in Word
  BY DistanceType DEF Channels
<1>2. k[0].compare \in BOOLEAN /\ k[1].compare \in BOOLEAN
  BY DEF Channels, Control
<1>3. /\ e0 \in Word /\ e0 # 0
      /\ d0 = 0 => e0 = M - 1
      /\ k[0].compare /\ d0 # 0 => e0 <= d0
  <2>1. M - 1 \in Word /\ M - 1 # 0
    OBVIOUS
  <2> QED
    BY <1>1, <1>2, <2>1, EarliestIsEarly
<1>4. n = Earliest(d1, k[1].compare, e0)
  BY DEF get_next_cc_event
<1> HIDE DEF e0
<1>5. /\ n \in Word /\ n # 0 /\ n <= e0
      /\ k[1].compare /\ d1 # 0 /\ (e0 = M - 1 \/ e0 < Half) => n <= d1
  <2> DEFINE e1 == Earliest(d1, k[1].compare, e0)
  <2>1. /\ e1 \in Word /\ e1 # 0 /\ e1 <= e0
        /\ k[1].compare /\ d1 # 0 /\ (e0 = M - 1 \/ e0 < Half) => e1 <= d1
    BY <1>1, <1>2, <1>3, EarliestIsEarly
  <2> HIDE DEF e1
  <2>2. n = e1
    BY <1>4 DEF e1
  <2> QED
    BY <2>1, <2>2
<1> QED
  BY <1>1, <1>3, <1>5

-----------------------------------------------------------------------------
(* The inductive invariant.                                                *)

\* The countdown is never late: it is not 0, it does not pass the match of
\* channel 0 where the count runs to it without a jump, nor, on the way up to a
\* near TxCC0 in modulo mode, the match of either channel.
ScheduleInv ==
  fresh =>
    /\ NextCmpEvent # 0
    /\ mode \in {0, 3} /\ RegCTL[0].compare =>
         LET d0 == cmpEventIn(0, count, mode, up_down, ValRegCMP)
         IN  d0 = 0 \/ NextCmpEvent <= d0
    /\ mode = 2 /\ RegCTL[0].compare /\ count <= ValRegCMP[0] /\ ValRegCMP[0] < Half =>
         \A i \in Channels :
           RegCTL[i].compare /\ count < ValRegCMP[i]
             => NextCmpEvent <= ValRegCMP[i] - count

-----------------------------------------------------------------------------
(* Type correctness.                                                       *)

\* A new schedule is a count.
LEMMA ScheduleType ==
  ASSUME NEW c \in Word, NEW m, NEW ud, NEW cc \in [Channels -> Word],
         NEW k \in [Channels -> Control]
  PROVE  get_next_cc_event(c, m, ud, cc, k) \in Word
  BY ScheduleIsEarly

\* What Compare makes of a pin is a level of a pin.
LEMMA CompareType ==
  ASSUME NEW i \in Channels, NEW c, NEW ud, NEW cc
  PROVE  Compare(i, c, ud, cc) \in BOOLEAN
  BY DEF Compare

\* One count keeps the types, whatever the mode made of count and direction.
LEMMA CountsType ==
  ASSUME TypeOK, NEW c \in Word, NEW ud \in BOOLEAN, NEW due \in BOOLEAN,
         NEW turns \in BOOLEAN, NEW overflows \in BOOLEAN,
         Counts(c, ud, due, turns, overflows)
  PROVE  TypeOK'
<1> USE DEF TypeOK, Counts
<1>1. ValRegCMP' \in [Channels -> Word] /\ compared' \subseteq Channels
  BY DEF CaptureCompare, Captured
<1>2. IOPin' \in [Channels -> BOOLEAN]
  <2>1. CASE due
    <3>1. PICK t1 \in Values : CaptureCompare(c, ud, Captured(t1))
      BY <2>1
    <3>2. ASSUME NEW i \in Channels
          PROVE  Compare(i, c, ud, Captured(t1)) \in BOOLEAN
      BY CompareType
    <3> QED
      BY <3>1, <3>2 DEF CaptureCompare
  <2>2. CASE ~due
    BY <2>2 DEF pins
  <2> QED
    BY <2>1, <2>2
<1>3. ExIOPin' \in [Channels -> BOOLEAN]
  <2>1. CASE due
    BY <2>1 DEF CaptureCompare
  <2>2. CASE ~due
    BY <2>2 DEF pins
  <2> QED
    BY <2>1, <2>2
<1>4. NextCmpEvent' \in Word
  BY <1>1, ScheduleType, WordSteps
<1> QED
  BY <1>1, <1>2, <1>3, <1>4

\* Each mode's count is an instance of Counts with arguments of the right types.
LEMMA CountCases ==
  ASSUME TypeOK, Count
  PROVE  \E c \in Word, ud, due, turns, overflows \in BOOLEAN :
           Counts(c, ud, due, turns, overflows)
<1> USE DEF TypeOK
<1>up. Up(count) \in Word /\ Down(count) \in Word /\ 0 \in Word
  BY DEF Up, Down
<1>1. CASE CountFree
  BY <1>1, <1>up DEF CountFree, Due
<1>2. CASE CountDown
  <2> DEFINE c == IF count = 0 THEN ValRegCMP[0] ELSE count - 1
  <2>1. c \in Word
    BY DEF Channels
  <2>2. Counts(c, up_down, Due, count = 0, c = 0)
    BY <1>2 DEF CountDown
  <2> HIDE DEF c
  <2> QED
    BY <2>1, <2>2 DEF Due
<1>3. CASE CountModulo
  <2> DEFINE c == IF count = ValRegCMP[0] THEN 0 ELSE Up(count)
  <2>1. c \in Word
    BY <1>up
  <2>2. Counts(c, up_down, Due /\ c # 0, c = 0, c = 0)
    BY <1>3 DEF CountModulo
  <2> HIDE DEF c
  <2> QED
    BY <2>1, <2>2 DEF Due
<1>4. CASE CountUpDown
  <2> DEFINE c == IF up_down THEN Down(count) ELSE Up(count)
             turns == IF up_down THEN c = 0 ELSE c = ValRegCMP[0]
  <2>1. c \in Word
    BY <1>up
  <2>2. Counts(c, up_down # turns, Due, turns, c = 0)
    BY <1>4 DEF CountUpDown
  <2>3. turns \in BOOLEAN
    OBVIOUS
  <2> HIDE DEF c, turns
  <2> QED
    BY <2>1, <2>2, <2>3 DEF Due
<1> QED
  BY <1>1, <1>2, <1>3, <1>4 DEF Count

\* TypeOK is inductive.
LEMMA TypeInductive == TypeOK /\ [Next]_vars => TypeOK'
<1> SUFFICES ASSUME TypeOK, [Next]_vars PROVE TypeOK'
  OBVIOUS
<1>1. CASE Count
  BY <1>1, CountCases, CountsType
<1>2. ASSUME NEW m \in 0 .. 3, NEW start \in BOOLEAN, WriteTxCTL(m, start)
      PROVE  TypeOK'
  BY <1>2, ScheduleType DEF WriteTxCTL, NoEvents, TypeOK, pins
<1>3. ASSUME NEW i \in Channels, NEW v \in Values, WriteTxCC(i, v)
      PROVE  TypeOK'
  <2>1. ValRegCMP' \in [Channels -> Word]
    BY <1>3 DEF WriteTxCC, TypeOK
  <2> QED
    BY <1>3, <2>1, ScheduleType DEF WriteTxCC, NoEvents, TypeOK, pins
<1>4. ASSUME NEW i \in Channels, NEW k \in Controls, WriteTxCCTL(i, k)
      PROVE  TypeOK'
  BY <1>4 DEF WriteTxCCTL, NoEvents, TypeOK, pins
<1>5. CASE Reset
  <2>1. Off \in Control
    BY DEF Off, Control
  <2> QED
    BY <1>5, <2>1 DEF Reset, NoEvents, TypeOK, pins
<1>6. CASE UNCHANGED vars
  BY <1>6 DEF vars, pins, events, TypeOK
<1> QED
  BY <1>1, <1>2, <1>3, <1>4, <1>5, <1>6 DEF Next, Software

-----------------------------------------------------------------------------
(* The countdown is never late.                                            *)

\* A new schedule establishes ScheduleInv.
LEMMA RescheduleInv ==
  ASSUME TypeOK',
         NextCmpEvent' = get_next_cc_event(count', mode', up_down', ValRegCMP', RegCTL')
  PROVE  ScheduleInv'
<1> DEFINE n == NextCmpEvent'
           d0 == cmpEventIn(0, count', mode', up_down', ValRegCMP')
           d1 == cmpEventIn(1, count', mode', up_down', ValRegCMP')
<1> USE DEF TypeOK
<1>1. /\ n # 0
      /\ RegCTL'[0].compare /\ d0 # 0 => n <= d0
      /\ RegCTL'[0].compare /\ RegCTL'[1].compare /\ d0 < Half /\ d1 # 0 => n <= d1
  <2>1. /\ count' \in Word /\ ValRegCMP' \in [Channels -> Word]
        /\ RegCTL' \in [Channels -> Control]
    OBVIOUS
  <2>2. n = get_next_cc_event(count', mode', up_down', ValRegCMP', RegCTL')
    OBVIOUS
  <2>3. ASSUME NEW e0, e0 = cmpEventIn(0, count', mode', up_down', ValRegCMP'),
               NEW e1, e1 = cmpEventIn(1, count', mode', up_down', ValRegCMP')
        PROVE  /\ n # 0
               /\ RegCTL'[0].compare /\ e0 # 0 => n <= e0
               /\ RegCTL'[0].compare /\ RegCTL'[1].compare /\ e0 < Half /\ e1 # 0 => n <= e1
    <3> HIDE DEF n
    <3> QED
      BY <2>1, <2>2, <2>3, ScheduleIsEarly
  <2> QED
    BY <2>3
<1>2. ASSUME mode' = 2, RegCTL'[0].compare, count' <= ValRegCMP'[0],
             ValRegCMP'[0] < Half,
             NEW i \in Channels, RegCTL'[i].compare, count' < ValRegCMP'[i]
      PROVE  n <= ValRegCMP'[i] - count'
  <2>1. /\ ValRegCMP'[0] \in Word /\ ValRegCMP'[1] \in Word /\ count' \in Word
        /\ i \in {0, 1}
    BY DEF Channels
  <2>2. /\ d0 = Minus(ValRegCMP'[0], count')
        /\ d1 = Minus(ValRegCMP'[1], count')
    BY <1>2 DEF cmpEventIn, CountsDown
  <2> HIDE DEF n, d0, d1
  <2>3. d0 = ValRegCMP'[0] - count' /\ d0 < Half
    BY <1>2, <2>1, <2>2 DEF Minus
  <2>4. CASE i = 0
    BY <1>1, <1>2, <2>1, <2>3, <2>4
  <2>5. CASE i = 1
    <3>1. d1 = ValRegCMP'[1] - count' /\ d1 # 0
      BY <1>2, <2>1, <2>2, <2>5 DEF Minus
    <3> QED
      BY <1>1, <1>2, <2>3, <2>5, <3>1
  <2> QED
    BY <2>1, <2>4, <2>5
<1> QED
  BY <1>1, <1>2 DEF ScheduleInv

\* So does, if ScheduleInv held, a count that neither is due nor turns: the
\* countdown and the distance have both come one count nearer.
LEMMA CountdownInv ==
  ASSUME TypeOK, TypeOK', ScheduleInv,
         NextCmpEvent' = Down(NextCmpEvent), ~Due,
         UNCHANGED <<mode, ValRegCMP, RegCTL, up_down, fresh>>,
         \/ mode = 1
         \/ mode \in {0, 3} /\ count' = (IF CountsDown(mode, up_down)
                                           THEN Down(count) ELSE Up(count))
         \/ mode = 2 /\ count # ValRegCMP[0] /\ count' = Up(count) /\ count' # 0
  PROVE  ScheduleInv'
<1> SUFFICES ASSUME fresh PROVE ScheduleInv'
  BY DEF ScheduleInv
<1> USE DEF TypeOK
<1>1. /\ NextCmpEvent' \in Word /\ NextCmpEvent' # 0
      /\ NextCmpEvent' = NextCmpEvent - 1
  BY DEF ScheduleInv, Down, Due
<1>2. ASSUME mode \in {0, 3}, RegCTL[0].compare
      PROVE  LET d0 == cmpEventIn(0, count', mode, up_down, ValRegCMP)
             IN  d0 = 0 \/ NextCmpEvent' <= d0
  <2> DEFINE v == ValRegCMP[0]
  <2>1. v \in Word
    BY DEF Channels
  <2>2. CASE CountsDown(mode, up_down)
    <3>1. count' = Down(count)
      BY <1>2, <2>2
    <3>2. Minus(count, v) = 0 \/ NextCmpEvent <= Minus(count, v)
      BY <1>2, <2>2 DEF ScheduleInv, cmpEventIn
    <3> HIDE DEF v
    <3>3. Minus(count', v) = 0 \/ NextCmpEvent' <= Minus(count', v)
      BY <1>1, <2>1, <3>1, <3>2 DEF Minus, Down
    <3> QED
      BY <2>2, <3>3 DEF cmpEventIn, v
  <2>3. CASE ~CountsDown(mode, up_down)
    <3>1. count' = Up(count)
      BY <1>2, <2>3
    <3>2. Minus(v, count) = 0 \/ NextCmpEvent <= Minus(v, count)
      BY <1>2, <2>3 DEF ScheduleInv, cmpEventIn
    <3> HIDE DEF v
    <3>3. Minus(v, count') = 0 \/ NextCmpEvent' <= Minus(v, count')
      BY <1>1, <2>1, <3>1, <3>2 DEF Minus, Up
    <3> QED
      BY <2>3, <3>3 DEF cmpEventIn, v
  <2> QED
    BY <2>2, <2>3
<1>3. ASSUME mode = 2, RegCTL[0].compare, count' <= ValRegCMP[0], ValRegCMP[0] < Half,
             NEW i \in Channels, RegCTL[i].compare, count' < ValRegCMP[i]
      PROVE  NextCmpEvent' <= ValRegCMP[i] - count'
  <2>1. ValRegCMP[0] \in Word /\ ValRegCMP[i] \in Word
    BY DEF Channels
  <2>2. count' = count + 1
    BY <1>3 DEF Up
  <2>3. count <= ValRegCMP[0] /\ count < ValRegCMP[i]
    BY <1>3, <2>1, <2>2
  <2>4. NextCmpEvent <= ValRegCMP[i] - count
    BY <1>3, <2>3 DEF ScheduleInv
  <2> QED
    BY <1>1, <2>1, <2>2, <2>4
<1> QED
  BY <1>1, <1>2, <1>3 DEF ScheduleInv

\* One count in each of the modes preserves ScheduleInv.
LEMMA CountInv ==
  ASSUME TypeOK, TypeOK', ScheduleInv, Count
  PROVE  ScheduleInv'
<1>0. fresh \in BOOLEAN /\ up_down \in BOOLEAN
  BY DEF TypeOK
<1>1. ASSUME NEW c, NEW ud, NEW due, NEW turns, NEW overflows,
             Counts(c, ud, due, turns, overflows), due \/ turns
      PROVE  ScheduleInv'
  BY <1>1, RescheduleInv DEF Counts
<1>2. ASSUME NEW c, NEW ud, NEW due, NEW turns, NEW overflows,
             Counts(c, ud, due, turns, overflows), ~due, ~turns, fresh \in BOOLEAN
      PROVE  /\ count' = c /\ up_down' = ud
             /\ NextCmpEvent' = Down(NextCmpEvent)
             /\ UNCHANGED <<mode, ValRegCMP, RegCTL, fresh>>
  BY <1>2 DEF Counts
<1>3. CASE CountFree
  <2>1. mode = 0 /\ Counts(Up(count), up_down, Due, FALSE, Up(count) = 0)
    BY <1>3 DEF CountFree
  <2>2. CASE Due
    BY <1>1, <2>1, <2>2
  <2>3. CASE ~Due
    <3>1. /\ count' = Up(count) /\ up_down' = up_down
          /\ NextCmpEvent' = Down(NextCmpEvent)
          /\ UNCHANGED <<mode, ValRegCMP, RegCTL, fresh>>
      BY <1>0, <2>1, <2>3 DEF Counts
    <3> QED
      BY <2>1, <2>3, <3>1, CountdownInv DEF CountsDown
  <2> QED
    BY <2>2, <2>3
<1>4. CASE CountDown
  <2> DEFINE c == IF count = 0 THEN ValRegCMP[0] ELSE count - 1
             turns == count = 0
  <2>1. mode = 1 /\ Counts(c, up_down, Due, turns, c = 0)
    BY <1>4 DEF CountDown
  <2> HIDE DEF c, turns
  <2>2. CASE Due \/ turns
    BY <1>1, <2>1, <2>2
  <2>3. CASE ~Due /\ ~turns
    <3>1. /\ up_down' = up_down
          /\ NextCmpEvent' = Down(NextCmpEvent)
          /\ UNCHANGED <<mode, ValRegCMP, RegCTL, fresh>>
      BY <1>0, <1>2, <2>1, <2>3
    <3> QED
      BY <2>1, <2>3, <3>1, CountdownInv
  <2> QED
    BY <2>2, <2>3
<1>5. CASE CountModulo
  <2> DEFINE c == IF count = ValRegCMP[0] THEN 0 ELSE Up(count)
             due == Due /\ c # 0
             turns == c = 0
  <2>1. mode = 2 /\ Counts(c, up_down, due, turns, c = 0)
    BY <1>5 DEF CountModulo
  <2>2. ~due /\ ~turns =>
          ~Due /\ count # ValRegCMP[0] /\ c = Up(count) /\ c # 0
    OBVIOUS
  <2> HIDE DEF c, due, turns
  <2>3. CASE due \/ turns
    BY <1>1, <2>1, <2>3
  <2>4. CASE ~due /\ ~turns
    <3>1. /\ count' = c /\ up_down' = up_down
          /\ NextCmpEvent' = Down(NextCmpEvent)
          /\ UNCHANGED <<mode, ValRegCMP, RegCTL, fresh>>
      BY <1>0, <1>2, <2>1, <2>4
    <3> QED
      BY <2>1, <2>2, <2>4, <3>1, CountdownInv
  <2> QED
    BY <2>3, <2>4
<1>6. CASE CountUpDown
  <2> DEFINE c == IF up_down THEN Down(count) ELSE Up(count)
             turns == IF up_down THEN c = 0 ELSE c = ValRegCMP[0]
             ud == up_down # turns
  <2>1. mode = 3 /\ Counts(c, ud, Due, turns, c = 0)
    BY <1>6 DEF CountUpDown
  <2>2. ~turns => ud = up_down
    BY <1>0
  <2>3. c = IF CountsDown(3, up_down) THEN Down(count) ELSE Up(count)
    BY <1>0 DEF CountsDown
  <2> HIDE DEF c, turns, ud
  <2>4. CASE Due \/ turns
    BY <1>1, <2>1, <2>4
  <2>5. CASE ~Due /\ ~turns
    <3>1. /\ count' = c /\ up_down' = up_down
          /\ NextCmpEvent' = Down(NextCmpEvent)
          /\ UNCHANGED <<mode, ValRegCMP, RegCTL, fresh>>
      BY <1>0, <1>2, <2>1, <2>2, <2>5
    <3> QED
      BY <2>1, <2>3, <2>5, <3>1, CountdownInv
  <2> QED
    BY <2>4, <2>5
<1> QED
  BY <1>3, <1>4, <1>5, <1>6 DEF Count

IInv == TypeOK /\ ScheduleInv

\* IInv holds at the start and is kept by every step.
LEMMA InitIInv == Init => IInv
<1> SUFFICES ASSUME Init PROVE TypeOK /\ ScheduleInv
  BY DEF IInv
<1>1. 0 \in Word /\ Off \in Control
  BY DEF Off, Control
<1>2. TypeOK
  <2>1. IOPin \in [Channels -> BOOLEAN] /\ ExIOPin \in [Channels -> BOOLEAN]
    BY DEF Init
  <2>2. RegCTL \in [Channels -> Control] /\ ValRegCMP \in [Channels -> Word]
    BY <1>1 DEF Init
  <2>3. /\ TR \in BOOLEAN /\ up_down \in BOOLEAN /\ overflowed \in BOOLEAN
        /\ fresh \in BOOLEAN /\ compared \subseteq Channels
    BY DEF Init
  <2>4. mode \in 0 .. 3 /\ count \in Word /\ NextCmpEvent \in Word
    BY <1>1 DEF Init
  <2> QED
    BY <2>1, <2>2, <2>3, <2>4 DEF TypeOK
<1> QED
  BY <1>2 DEF Init, ScheduleInv

LEMMA NextIInv == IInv /\ [Next]_vars => IInv'
<1> SUFFICES ASSUME IInv, [Next]_vars PROVE IInv'
  OBVIOUS
<1>1. TypeOK /\ TypeOK' /\ ScheduleInv
  BY TypeInductive DEF IInv
<1>2. CASE Count
  BY <1>1, <1>2, CountInv DEF IInv
<1>3. ASSUME NEW m \in 0 .. 3, NEW start \in BOOLEAN, WriteTxCTL(m, start)
      PROVE  IInv'
  BY <1>1, <1>3, RescheduleInv DEF WriteTxCTL, IInv
<1>4. ASSUME NEW i \in Channels, NEW v \in Values, WriteTxCC(i, v)
      PROVE  IInv'
  BY <1>1, <1>4, RescheduleInv DEF WriteTxCC, IInv
<1>5. ASSUME NEW i \in Channels, NEW k \in Controls, WriteTxCCTL(i, k)
      PROVE  IInv'
  BY <1>1, <1>5 DEF WriteTxCCTL, ScheduleInv, IInv
<1>6. CASE Reset
  BY <1>1, <1>6 DEF Reset, ScheduleInv, IInv
<1>7. CASE UNCHANGED vars
  <2>1. ScheduleInv' = ScheduleInv
    BY <1>7 DEF vars, pins, events, ScheduleInv, cmpEventIn, CountsDown
  <2> QED
    BY <1>1, <2>1 DEF IInv
<1> QED
  BY <1>2, <1>3, <1>4, <1>5, <1>6, <1>7 DEF Next, Software

-----------------------------------------------------------------------------
(* The theorems.                                                           *)

\* Every variable of the timer stays in its type, the signed chars in range.
THEOREM TypeCorrect == Spec => []TypeOK
<1>1. Init => TypeOK
  BY InitIInv DEF IInv
<1> QED
  BY <1>1, TypeInductive, PTL DEF Spec

\* A due event looks at every channel whose compare value is reached.
LEMMA DueCompares ==
  ASSUME TypeOK, NEW c, NEW ud, NEW due, NEW turns, NEW overflows,
         Counts(c, ud, due, turns, overflows), due,
         NEW i \in Channels, RegCTL[i].compare, c = ValRegCMP[i]
  PROVE  i \in compared'
<1>1. PICK t1 \in Values : CaptureCompare(c, ud, Captured(t1))
  BY DEF Counts
<1>2. Captured(t1)[i] = ValRegCMP[i]
  BY DEF Captured, Captures
<1> QED
  BY <1>1, <1>2 DEF CaptureCompare, Compares

\* Although the count is not compared with the channels until NextCmpEvent has
\* run down, the matches MatchesCompared names are never missed.
THEOREM MatchesAlwaysCompared == Spec => MatchesCompared
<1>1. ASSUME IInv, Count, fresh, NEW i \in Channels, Promised(i), count' = ValRegCMP[i]
      PROVE  i \in compared'
  <2> USE <1>1
  <2>1. /\ TypeOK /\ ScheduleInv /\ RegCTL[i].compare
        /\ count \in Word /\ NextCmpEvent \in Word /\ up_down \in BOOLEAN
        /\ ValRegCMP[0] \in Word /\ ValRegCMP[i] \in Word
    BY DEF IInv, Promised, TypeOK, Channels
  <2>2. ASSUME NextCmpEvent <= 1 PROVE Due
    BY <2>1, <2>2 DEF ScheduleInv, Due, Down
  <2>3. CASE CountFree
    <3>1. mode = 0 /\ Counts(Up(count), up_down, Due, FALSE, Up(count) = 0)
      BY <2>3 DEF CountFree
    <3>2. i = 0 /\ count' = Up(count)
      BY <3>1 DEF Promised, Counts
    <3>3. Minus(ValRegCMP[0], count) = 1
      BY <2>1, <3>2 DEF Minus, Up
    <3>4. NextCmpEvent <= 1
      BY <2>1, <3>1, <3>2, <3>3 DEF ScheduleInv, cmpEventIn, CountsDown
    <3> QED
      BY <2>1, <2>2, <3>1, <3>2, <3>4, DueCompares
  <2>4. CASE CountDown
    BY <2>4 DEF CountDown, Promised
  <2>5. CASE CountModulo
    <3> DEFINE c == IF count = ValRegCMP[0] THEN 0 ELSE Up(count)
               due == Due /\ c # 0
    <3>1. mode = 2 /\ Counts(c, up_down, due, c = 0, c = 0)
      BY <2>5 DEF CountModulo
    <3>2. /\ count' = c /\ ValRegCMP[i] # 0
          /\ RegCTL[0].compare /\ count <= ValRegCMP[0] /\ ValRegCMP[0] < Half
      BY <3>1 DEF Promised, Counts
    <3>3. c # 0 /\ c = count + 1
      BY <2>1, <3>2 DEF Up
    <3>4. NextCmpEvent <= ValRegCMP[i] - count
      <4>1. count < ValRegCMP[i]
        BY <2>1, <3>2, <3>3
      <4> HIDE DEF c, due
      <4> QED
        BY <2>1, <3>1, <3>2, <4>1 DEF ScheduleInv
    <3>5. due
      BY <2>1, <2>2, <3>2, <3>3, <3>4
    <3>6. c = ValRegCMP[i]
      BY <3>2
    <3> HIDE DEF c, due
    <3> QED
      BY <2>1, <3>1, <3>5, <3>6, DueCompares
  <2>6. CASE CountUpDown
    <3> DEFINE c == IF up_down THEN Down(count) ELSE Up(count)
               turns == IF up_down THEN c = 0 ELSE c = ValRegCMP[0]
    <3>0. mode = 3 /\ i = 0
      BY <2>6 DEF CountUpDown, Promised
    <3>1. mode = 3 /\ Counts(c, up_down # turns, Due, turns, c = 0)
      BY <2>6 DEF CountUpDown
    <3>2. i = 0 /\ c = ValRegCMP[0]
      <4> HIDE DEF c, turns
      <4> QED
        BY <3>0, <3>1 DEF Counts
    <3>3. NextCmpEvent <= 1
      <4>1. CASE up_down
        <5>1. Minus(count, ValRegCMP[0]) = 1
          BY <2>1, <3>2, <4>1 DEF Minus, Down
        <5> QED
          BY <2>1, <3>1, <3>2, <4>1, <5>1 DEF ScheduleInv, cmpEventIn, CountsDown
      <4>2. CASE ~up_down
        <5>1. Minus(ValRegCMP[0], count) = 1
          BY <2>1, <3>2, <4>2 DEF Minus, Up
        <5> QED
          BY <2>1, <3>1, <3>2, <4>2, <5>1 DEF ScheduleInv, cmpEventIn, CountsDown
      <4> QED
        BY <4>1, <4>2
    <3> HIDE DEF c, turns
    <3> QED
      BY <2>1, <2>2, <3>1, <3>2, <3>3, DueCompares
  <2> QED
    BY <2>3, <2>4, <2>5, <2>6 DEF Count
<1>2. IInv /\ [Next]_vars =>
        [Count /\ fresh => \A i \in Channels :
           Promised(i) /\ count' = ValRegCMP[i] => i \in compared']_vars
  BY <1>1
<1> QED
  BY <1>2, InitIInv, NextIInv, PTL DEF Spec, MatchesCompared

-----------------------------------------------------------------------------
(* The overflow comes nearer.                                              *)

\* What a count does to the count, the direction and the overflow event.
LEMMA CountEffect ==
  ASSUME Count
  PROVE  /\ mode' = mode /\ TR
         /\ mode = 0 => count' = Up(count) /\ overflowed' = (count' = 0)
         /\ mode = 1 => /\ count' = IF count = 0 THEN ValRegCMP[0] ELSE count - 1
                        /\ overflowed' = (count' = 0) /\ up_down' = up_down
         /\ mode = 2 => /\ count' = IF count = ValRegCMP[0] THEN 0 ELSE Up(count)
                        /\ overflowed' = (count' = 0)
         /\ mode = 3 => /\ count' = IF up_down THEN Down(count) ELSE Up(count)
                        /\ overflowed' = (count' = 0)
                        /\ up_down' = (up_down # IF up_down THEN count' = 0
                                                 ELSE count' = ValRegCMP[0])
<1>1. CASE CountFree
  BY <1>1 DEF CountFree, Counts
<1>2. CASE CountDown
  BY <1>2 DEF CountDown, Counts
<1>3. CASE CountModulo
  BY <1>3 DEF CountModulo, Counts
<1>4. CASE CountUpDown
  BY <1>4 DEF CountUpDown, Counts
<1> QED
  BY <1>1, <1>2, <1>3, <1>4 DEF Count

\* From every state of a timer each count brings the overflow nearer.
LEMMA CountNears ==
  ASSUME TypeOK, TypeOK', Count
  PROVE  ToOverflow \in 1 .. 2 * M /\ (overflowed' \/ ToOverflow' < ToOverflow)
<1> USE DEF TypeOK, ToOverflow, CountsDown
<1>1. /\ count \in Word /\ count' \in Word /\ ValRegCMP[0] \in Word
      /\ up_down \in BOOLEAN /\ up_down' \in BOOLEAN
  BY DEF Channels
<1>2. CASE mode \in {0, 2}
  <2>1. ToOverflow = M - count /\ ToOverflow' = M - count'
    BY <1>2, CountEffect
  <2>2. overflowed' \/ count' = count + 1
    BY <1>1, <1>2, CountEffect DEF Up
  <2> QED
    BY <1>1, <2>1, <2>2
<1>3. CASE mode = 1
  <2>1. /\ ToOverflow = IF count = 0 THEN M ELSE count
        /\ ToOverflow' = IF count' = 0 THEN M ELSE count'
    BY <1>3, CountEffect
  <2>2. overflowed' \/ (count' # 0 /\ (count = 0 \/ count' = count - 1))
    BY <1>1, <1>3, CountEffect
  <2> QED
    BY <1>1, <2>1, <2>2
<1>4. CASE mode = 3 /\ up_down
  <2>1. ToOverflow = IF count = 0 THEN M ELSE count
    BY <1>4
  <2>2. overflowed' \/ (up_down' /\ count' = Down(count) /\ count' # 0)
    BY <1>1, <1>4, CountEffect
  <2>3. mode' = 3
    BY <1>4, CountEffect
  <2>4. overflowed' \/ ToOverflow' = count'
    BY <2>2, <2>3
  <2> QED
    BY <1>1, <2>1, <2>2, <2>4 DEF Down
<1>5. CASE mode = 3 /\ ~up_down
  <2>1. ToOverflow = 2 * M - count
    BY <1>5
  <2>2. overflowed' \/ count' = count + 1
    BY <1>1, <1>5, CountEffect DEF Up
  <2>3. CASE overflowed'
    BY <1>1, <2>1, <2>3
  <2>4. CASE ~overflowed'
    <3>1. count' # 0 /\ mode' = 3
      BY <1>5, <2>4, CountEffect
    <3>2. ToOverflow' = count' \/ ToOverflow' = 2 * M - count'
      BY <1>1, <3>1
    <3> QED
      BY <1>1, <2>1, <2>2, <2>4, <3>2
  <2> QED
    BY <2>3, <2>4
<1> QED
  BY <1>2, <1>3, <1>4, <1>5

\* A started timer that is left alone overflows within two turns of its range,
\* whatever software has written before: no count is lost for it.
THEOREM OverflowAlwaysNears == Spec => OverflowNears
<1>1. TypeOK /\ TypeOK' /\ [Next]_vars =>
        [Count => /\ ToOverflow \in 1 .. 2 * M
                  /\ overflowed' \/ ToOverflow' < ToOverflow]_vars
  BY CountNears
<1> QED
  BY <1>1, TypeCorrect, TypeInductive, PTL DEF Spec, OverflowNears

-----------------------------------------------------------------------------
(* The schedule of free-running mode settles.                              *)

\* The distance to the next match is not 0, and a count away from the match
\* makes it one less.
LEMMA DistanceSteps ==
  ASSUME TypeOK, NEW i \in Channels
  PROVE  /\ Distance(i) \in 1 .. M
         /\ count = ValRegCMP[i] <=> Distance(i) = M
         /\ count' = Up(count) /\ ValRegCMP'[i] = ValRegCMP[i] =>
              /\ count' = ValRegCMP[i] <=> Distance(i) = 1
              /\ Distance(i) # 1 => Distance(i)' = Distance(i) - 1
<1>1. count \in Word /\ ValRegCMP[i] \in Word
  BY DEF TypeOK
<1> DEFINE d == IF count = ValRegCMP[i] THEN M
                ELSE IF ValRegCMP[i] >= count THEN ValRegCMP[i] - count
                                              ELSE ValRegCMP[i] - count + M
<1>2. Distance(i) = d
  BY DEF Distance, Minus
<1>3. d \in 1 .. M /\ (count = ValRegCMP[i] <=> d = M)
  BY <1>1
<1>4. ASSUME count' = Up(count), ValRegCMP'[i] = ValRegCMP[i]
      PROVE  /\ count' = ValRegCMP[i] <=> d = 1
             /\ d # 1 => Distance(i)' = d - 1
  <2>1. Distance(i)' = IF count' = ValRegCMP[i] THEN M
                       ELSE IF ValRegCMP[i] >= count' THEN ValRegCMP[i] - count'
                                                      ELSE ValRegCMP[i] - count' + M
    BY <1>4 DEF Distance, Minus
  <2>2. count' = IF count = M - 1 THEN 0 ELSE count + 1
    BY <1>4 DEF Up
  <2> QED
    BY <1>1, <2>1, <2>2
<1> HIDE DEF d
<1> QED
  BY <1>2, <1>3, <1>4

\* The schedule made at a match is settled.
LEMMA ScheduleSettles ==
  ASSUME TypeOK', mode' = 0, NEW i \in Channels,
         RegCTL'[i].compare, count' = ValRegCMP'[i],
         NextCmpEvent' = get_next_cc_event(count', mode', up_down', ValRegCMP', RegCTL')
  PROVE  Settled'
<1> DEFINE c == count'
           n == NextCmpEvent'
           v0 == ValRegCMP'[0]
           v1 == ValRegCMP'[1]
           d0 == Minus(v0, c)
           d1 == Minus(v1, c)
           k0 == RegCTL'[0].compare
           k1 == RegCTL'[1].compare
<1>1. /\ c \in Word /\ n \in Word /\ v0 \in Word /\ v1 \in Word
      /\ k0 \in BOOLEAN /\ k1 \in BOOLEAN
  BY DEF TypeOK, Channels, Control
<1>2. n = Earliest(d1, k1, Earliest(d0, k0, M - 1))
  BY DEF get_next_cc_event, cmpEventIn, CountsDown
<1>3. (k0 /\ d0 = 0) \/ (k1 /\ d1 = 0)
  BY <1>1 DEF Channels, Minus
<1>4. d0 \in Word /\ d1 \in Word
  BY <1>1, WordSteps
<1>5. /\ Distance(0)' = IF d0 = 0 THEN M ELSE d0
      /\ Distance(1)' = IF d1 = 0 THEN M ELSE d1
  BY <1>1 DEF Distance, Minus
<1>6. Enabled' = {j \in Channels : RegCTL'[j].compare}
  BY DEF Enabled
<1> HIDE DEF c, n, v0, v1, d0, d1, k0, k1
<1>7. CASE k0 /\ d0 = 0
  <2>1. n = IF k1 /\ d1 # 0 THEN d1 ELSE M - 1
    BY <1>1, <1>2, <1>4, <1>7 DEF Earliest, Sooner, Signed
  <2> QED
    BY <1>1, <1>4, <1>5, <1>6, <1>7, <2>1 DEF Settled, Channels, n, k0, k1
<1>8. CASE k1 /\ d1 = 0
  <2>1. n = IF k0 /\ d0 # 0 THEN d0 ELSE M - 1
    BY <1>1, <1>2, <1>4, <1>8 DEF Earliest, Sooner, Signed
  <2> QED
    BY <1>1, <1>4, <1>5, <1>6, <1>8, <2>1 DEF Settled, Channels, n, k0, k1
<1> QED
  BY <1>3, <1>7, <1>8

\* A settled schedule is due at every match.
LEMMA SettledIsDue ==
  ASSUME TypeOK, Settled, NEW i \in Enabled, count' = Up(count), count' = ValRegCMP[i]
  PROVE  Due
<1>1. i \in Channels /\ NextCmpEvent \in Word
  BY DEF Enabled, TypeOK
<1>2. Distance(i) = 1
  <2>1. Distance(i) \in 1 .. M
    BY <1>1, DistanceSteps
  <2>2. Distance(i) = IF count = ValRegCMP[i] THEN M ELSE Minus(ValRegCMP[i], count)
    BY DEF Distance
  <2>3. count \in Word /\ ValRegCMP[i] \in Word
    BY <1>1 DEF TypeOK
  <2> QED
    BY <2>2, <2>3 DEF Minus, Up
<1>3. NextCmpEvent = 1
  <2>1. \A j \in Enabled : Distance(j) \in 1 .. M
    BY DistanceSteps DEF Enabled
  <2> QED
    BY <1>1, <1>2, <2>1 DEF Settled
<1> QED
  BY <1>3 DEF Due, Down

\* A count that is due in a settled schedule away from all matches was one count
\* before the match of all channels.
LEMMA DueBeforeMatch ==
  ASSUME TypeOK, Settled, Due, count' = Up(count),
         \A i \in Enabled : count' # ValRegCMP[i]
  PROVE  \A i \in Enabled : Distance(i) = 2
<1>1. NextCmpEvent \in Word
  BY DEF TypeOK
<1>2. NextCmpEvent = 1
  BY <1>1 DEF Due, Down
<1>3. ASSUME NEW i \in Enabled PROVE Distance(i) \in 2 .. M
  <2>1. /\ count \in Word /\ ValRegCMP[i] \in Word /\ Distance(i) \in 1 .. M
        /\ count' # ValRegCMP[i]
    BY <1>3, DistanceSteps DEF Enabled, TypeOK
  <2>2. Distance(i) # 1
    BY <2>1 DEF Distance, Minus, Up
  <2> QED
    BY <2>1, <2>2
<1> QED
  BY <1>2, <1>3 DEF Settled

\* A new schedule one count before the match of all channels falls at it.
LEMMA ScheduleOneBefore ==
  ASSUME TypeOK', mode' = 0, \A i \in Enabled' : Distance(i)' = 1,
         NextCmpEvent' = get_next_cc_event(count', mode', up_down', ValRegCMP', RegCTL')
  PROVE  Settled'
<1> DEFINE n == NextCmpEvent'
           d0 == Minus(ValRegCMP'[0], count')
           d1 == Minus(ValRegCMP'[1], count')
           k0 == RegCTL'[0].compare
           k1 == RegCTL'[1].compare
<1>1. k0 \in BOOLEAN /\ k1 \in BOOLEAN
  BY DEF TypeOK, Channels, Control
<1>2. n = Earliest(d1, k1, Earliest(d0, k0, M - 1))
  BY DEF get_next_cc_event, cmpEventIn, CountsDown
<1>3. Enabled' = {j \in Channels : RegCTL'[j].compare}
  BY DEF Enabled
<1>4. M # 1
  OBVIOUS
<1>5. (k0 => d0 = 1) /\ (k1 => d1 = 1)
  BY <1>3, <1>4 DEF Channels, Distance
<1> HIDE DEF n, d0, d1, k0, k1
<1>6. n = IF k0 \/ k1 THEN 1 ELSE M - 1
  BY <1>1, <1>2, <1>5 DEF Earliest, Sooner, Signed
<1> QED
  BY <1>1, <1>3, <1>6 DEF Settled, Channels, n, k0, k1

\* What a count does to a settled schedule of free-running mode.
LEMMA CountSettles ==
  ASSUME TypeOK, TypeOK', Count, mode = 0
  PROVE  /\ Settled => \A i \in Enabled : count' = ValRegCMP[i] => i \in compared'
         /\ Settled \/ (\E i \in Channels : Compared(i)') => Settled'
         /\ (\E i \in Channels : Compared(i)') =>
              \A i \in Enabled' : count' = ValRegCMP'[i] => i \in compared'
<1>1. Counts(Up(count), up_down, Due, FALSE, Up(count) = 0)
  <2>1. CASE CountFree
    BY <2>1 DEF CountFree
  <2>2. ~CountDown /\ ~CountModulo /\ ~CountUpDown
    BY DEF CountDown, CountModulo, CountUpDown
  <2> QED
    BY <2>1, <2>2 DEF Count
<1>2. /\ mode' = 0 /\ count' = Up(count) /\ up_down' = up_down /\ RegCTL' = RegCTL
      /\ Enabled' = Enabled /\ Enabled \subseteq Channels
  BY <1>1 DEF Counts, Enabled
<1>3. ASSUME NEW i \in Enabled PROVE ValRegCMP'[i] = ValRegCMP[i]
  <2>1. CASE Due
    BY <1>1, <2>1 DEF Counts, CaptureCompare, Captured, Captures, Enabled
  <2>2. CASE ~Due
    BY <1>1, <2>2 DEF Counts
  <2> QED
    BY <2>1, <2>2
<1>4. ASSUME Due, NEW i \in Enabled, count' = ValRegCMP[i] PROVE i \in compared'
  BY <1>1, <1>2, <1>4, DueCompares DEF Enabled
<1>5. Due => NextCmpEvent' = get_next_cc_event(count', mode', up_down', ValRegCMP', RegCTL')
  BY <1>1, <1>2 DEF Counts
<1>6. ~Due => NextCmpEvent' = Down(NextCmpEvent) /\ compared' = {}
  BY <1>1 DEF Counts
<1>7. ASSUME Due, NEW i \in Enabled, count' = ValRegCMP[i] PROVE Settled'
  BY <1>2, <1>3, <1>5, <1>7, ScheduleSettles DEF Enabled
<1>8. Settled => \A i \in Enabled : count' = ValRegCMP[i] => i \in compared'
  BY <1>2, <1>4, SettledIsDue
<1>9. ASSUME NEW i \in Channels, Compared(i)'
      PROVE  Settled' /\ \A j \in Enabled' : count' = ValRegCMP'[j] => j \in compared'
  <2>1. i \in Enabled' /\ count' = ValRegCMP'[i] /\ i \in compared'
    BY <1>9 DEF Compared
  <2>2. Due
    BY <1>6, <2>1
  <2> QED
    BY <1>2, <1>3, <1>4, <1>7, <2>1, <2>2
<1>10. ASSUME Settled PROVE Settled'
  <2>1. CASE Due /\ \E i \in Enabled : count' = ValRegCMP[i]
    BY <1>7, <2>1
  <2>2. CASE Due /\ \A i \in Enabled : count' # ValRegCMP[i]
    <3>1. \A i \in Enabled : Distance(i) = 2
      BY <1>2, <1>10, <2>2, DueBeforeMatch
    <3>2. \A i \in Enabled : Distance(i)' = 1
      BY <1>2, <1>3, <3>1, DistanceSteps
    <3> QED
      BY <1>2, <1>5, <2>2, <3>2, ScheduleOneBefore
  <2>3. CASE ~Due
    <3>1. NextCmpEvent \in Word /\ NextCmpEvent # 1
      BY <2>3 DEF Due, Down, TypeOK
    <3>2. ASSUME NEW i \in Enabled
          PROVE  Distance(i) \in 2 .. M /\ Distance(i)' = Distance(i) - 1
      <4>1. count' # ValRegCMP[i]
        BY <1>2, <1>10, <2>3, SettledIsDue
      <4> QED
        BY <1>2, <1>3, <4>1, DistanceSteps
    <3>3. (\E i \in Enabled : TRUE) => NextCmpEvent # 0
      BY <1>10, <3>2 DEF Settled
    <3>4. NextCmpEvent # 0 => NextCmpEvent' = NextCmpEvent - 1 /\ NextCmpEvent' # 0
      BY <1>6, <2>3, <3>1 DEF Down
    <3>5. CASE \E i \in Enabled : NextCmpEvent = Distance(i)
      <4>1. NextCmpEvent # 0 /\ \A i \in Enabled : NextCmpEvent <= Distance(i)
        BY <1>10, <3>1, <3>2, <3>5 DEF Settled
      <4> QED
        BY <1>2, <3>1, <3>2, <3>4, <3>5, <4>1 DEF Settled
    <3>6. CASE NextCmpEvent # 0 /\ \A i \in Enabled : NextCmpEvent + 1 = Distance(i)
      <4>1. \A i \in Enabled : NextCmpEvent' + 1 = Distance(i)'
        BY <3>1, <3>2, <3>4, <3>6
      <4> QED
        BY <1>2, <3>4, <3>6, <4>1 DEF Settled
    <3> QED
      BY <1>10, <3>5, <3>6 DEF Settled
  <2> QED
    BY <2>1, <2>2, <2>3
<1> QED
  BY <1>8, <1>9, <1>10

\* One match that is compared settles the schedule of free-running mode for as
\* long as software leaves the timer alone: no later match of either channel is
\* missed, although the two channels share one countdown.
THEOREM SettledForGood == Spec => SettlesForGood
<1>1. TypeOK /\ TypeOK' /\ [Next]_vars =>
        [Count /\ mode = 0 =>
           /\ Settled \/ (\E i \in Channels : Compared(i)') => Settled'
           /\ Settled => \A i \in Enabled : count' = ValRegCMP[i] => i \in compared']_vars
  BY CountSettles
<1> QED
  BY <1>1, TypeCorrect, TypeInductive, PTL DEF Spec, SettlesForGood

\* All matches at the present count were compared.
AllCompared == \A i \in Channels : RegCTL[i].compare /\ count = ValRegCMP[i] => i \in compared
OneCompared == \E i \in Channels : Compared(i)
FreeRunning == TR /\ mode = 0

\* A compared match comes with a settled schedule, and with the other channel's
\* match if that falls there too.
ComparedInv == mode = 0 /\ OneCompared => Settled /\ AllCompared

LEMMA ComparedInductive == TypeOK /\ TypeOK' /\ ComparedInv /\ [Next]_vars => ComparedInv'
<1> SUFFICES ASSUME TypeOK, TypeOK', ComparedInv, [Next]_vars, mode' = 0, OneCompared'
             PROVE  Settled' /\ AllCompared'
  BY DEF ComparedInv
<1>1. CASE Count
  <2>1. mode = 0
    BY <1>1, CountEffect
  <2> QED
    BY <1>1, <2>1, CountSettles DEF OneCompared, AllCompared, Enabled
<1>2. CASE Software \/ Reset
  <2>1. compared' = {}
    BY <1>2 DEF Software, WriteTxCTL, WriteTxCC, WriteTxCCTL, Reset, NoEvents
  <2> QED
    BY <2>1 DEF OneCompared, Compared
<1>3. CASE UNCHANGED vars
  BY <1>3 DEF vars, pins, events, ComparedInv, OneCompared, Compared, Settled, AllCompared,
              Enabled, Distance
<1> QED
  BY <1>1, <1>2, <1>3 DEF Next

LEMMA StaysSettled ==
  TypeOK /\ TypeOK' /\ FreeRunning /\ Settled /\ AllCompared /\ [Count]_vars =>
    Settled' /\ AllCompared'
<1> SUFFICES ASSUME TypeOK, TypeOK', FreeRunning, Settled, AllCompared, [Count]_vars
             PROVE  Settled' /\ AllCompared'
  OBVIOUS
<1>1. CASE Count
  <2>1. /\ Settled'
        /\ \A i \in Enabled : count' = ValRegCMP[i] => i \in compared'
    BY <1>1, CountSettles DEF FreeRunning
  <2>2. ASSUME NEW i \in Channels, RegCTL'[i].compare, count' = ValRegCMP'[i]
        PROVE  i \in compared'
    <3>1. RegCTL' = RegCTL /\ ValRegCMP'[i] = ValRegCMP[i]
      <4>1. \E c, ud, due, turns, overflows : Counts(c, ud, due, turns, overflows)
        BY <1>1 DEF Count, CountFree, CountDown, CountModulo, CountUpDown
      <4> QED
        BY <2>2, <4>1 DEF Counts, CaptureCompare, Captured, Captures
    <3> QED
      BY <2>1, <2>2, <3>1 DEF Enabled
  <2> QED
    BY <2>1, <2>2 DEF AllCompared
<1>2. CASE UNCHANGED vars
  BY <1>2 DEF vars, pins, events, Settled, AllCompared, Enabled, Distance
<1> QED
  BY <1>1, <1>2

\* If some match is compared again and again, the free-running timer that is left
\* alone comes to compare every match of both channels: Settles, but for the
\* count-down to the first event, which needs fairness and an induction.
THEOREM SettlesWhenCompared == Spec /\ []<>OneCompared => Settles
<1>1. Init => ComparedInv
  BY DEF Init, ComparedInv, OneCompared, Compared
<1>2. FreeRunning <=> TR /\ mode = 0
  BY DEF FreeRunning
<1>3. FreeRunning /\ ComparedInv /\ OneCompared => Settled /\ AllCompared
  BY DEF FreeRunning, ComparedInv
<1>4. AllCompared <=>
        \A i \in Channels : RegCTL[i].compare /\ count = ValRegCMP[i] => i \in compared
  BY DEF AllCompared
<1> QED
  BY <1>1, <1>2, <1>3, <1>4, TypeCorrect, ComparedInductive, StaysSettled, PTL DEF Spec, Settles
=============================================================================
