----------------------------- MODULE CompareTimer -----------------------------
(***************************************************************************)
(* Timers 3 and 4 of the CC2530: cl_CC2530_timer<char> (CC2530timer.cc)    *)
(* with the counting modes, the output compare and the capture, and its    *)
(* two subclasses (CC2530timer3.cc, CC2530timer4.cc), alike but for names. *)
(*                                                                         *)
(* The timer does not compare its count with the compare registers on each *)
(* count. get_next_cc_event computes in how many counts the next compare   *)
(* event falls, NextCmpEvent is counted down, and CaptureCompare looks at  *)
(* the channels when it reaches 0. Counts, compare values and this number  *)
(* are signed chars: values below are the unsigned residues, and Signed    *)
(* gives the number the code sees.                                         *)
(***************************************************************************)
EXTENDS Integers

CONSTANTS
  Half,       \* half the range of a char: 128
  Values,     \* the values software writes to TxCC0 and TxCC1, and the low bytes
              \* of the count of timer 1 that a capture may find
  Controls    \* the values software writes to TxCCTL0 and TxCCTL1

M == 2 * Half
Word == 0 .. M - 1
Channels == {0, 1}

\* TxCCTLn: compare or capture mode, the output action and the edge to capture.
Control == [compare : BOOLEAN, out : 0 .. 7, cap : 0 .. 3]
Off == [compare |-> FALSE, out |-> 0, cap |-> 0]

ASSUME TimerAssumption ==
  /\ Half \in Nat /\ Half >= 2
  /\ Values \subseteq Word
  /\ Controls \subseteq Control

VARIABLES
  TR,            \* the start bit
  mode,          \* 0 free-running, 1 down, 2 modulo, 3 up/down
  count,
  up_down,       \* TRUE while up/down mode counts down
  NextCmpEvent,  \* the counts to go before CaptureCompare is called
  ValRegCMP,     \* the compare values
  RegCTL,        \* the cells TxCCTL0 and TxCCTL1
  IOPin,         \* the pin of each channel
  ExIOPin,       \* the pin as Capture last saw it
  compared,      \* the channels whose Compare ran, and their events were sent,
                 \* in the last step
  overflowed,    \* EV_OVERFLOW was sent in the last step
  fresh          \* history: no write to TxCCTLn since get_next_cc_event

pins == <<IOPin, ExIOPin>>
events == <<compared, overflowed>>
vars == <<TR, mode, count, up_down, NextCmpEvent, ValRegCMP, RegCTL, pins, events, fresh>>

TypeOK ==
  /\ TR \in BOOLEAN
  /\ mode \in 0 .. 3
  /\ count \in Word
  /\ up_down \in BOOLEAN
  /\ NextCmpEvent \in Word
  /\ ValRegCMP \in [Channels -> Word]
  /\ RegCTL \in [Channels -> Control]
  /\ IOPin \in [Channels -> BOOLEAN] /\ ExIOPin \in [Channels -> BOOLEAN]
  /\ compared \subseteq Channels
  /\ overflowed \in BOOLEAN
  /\ fresh \in BOOLEAN

\* After construction. NextCmpEvent is not initialized.
Init ==
  /\ TR = FALSE /\ mode = 0 /\ count = 0 /\ up_down = FALSE
  /\ NextCmpEvent \in Word
  /\ ValRegCMP = [i \in Channels |-> 0]
  /\ RegCTL = [i \in Channels |-> Off]
  /\ IOPin = [i \in Channels |-> FALSE] /\ ExIOPin = [i \in Channels |-> FALSE]
  /\ compared = {} /\ overflowed = FALSE
  /\ fresh = FALSE

-----------------------------------------------------------------------------
(* Arithmetic of a char.                                                   *)

Signed(x) == IF x < Half THEN x ELSE x - M
Up(x) == IF x = M - 1 THEN 0 ELSE x + 1

\* A decrement that does not wrap.
Down_NoWrap(x) == x - 1
Down(x) == IF x = 0 THEN M - 1 ELSE x - 1
Minus(x, y) == IF x >= y THEN x - y ELSE x - y + M

-----------------------------------------------------------------------------
(* get_next_cc_event, for count c, mode m, direction ud, compare values cc *)
(* and controls k. It starts from 0xFF, which is -1 in a char, and takes a *)
(* channel's distance if it is the first one or is smaller, as signed      *)
(* numbers.                                                                *)

CountsDown(m, ud) == m = 1 \/ (m = 3 /\ ud)

cmpEventIn(i, c, m, ud, cc) ==
  IF CountsDown(m, ud) THEN Minus(c, cc[i]) ELSE Minus(cc[i], c)

\* The comparison turned round: the latest positive distance wins.
Sooner_Latest(d, n) == (Signed(d) > 0 /\ Signed(d) > Signed(n)) \/ (n = M - 1 /\ d # 0)

Sooner(d, n) == (Signed(d) > 0 /\ Signed(d) < Signed(n)) \/ (n = M - 1 /\ d # 0)

Earliest(d, enabled, n) == IF enabled /\ Sooner(d, n) THEN d ELSE n

get_next_cc_event(c, m, ud, cc, k) ==
  Earliest(cmpEventIn(1, c, m, ud, cc), k[1].compare,
           Earliest(cmpEventIn(0, c, m, ud, cc), k[0].compare, M - 1))

-----------------------------------------------------------------------------
(* CaptureCompare, when the count has become c and the direction ud.       *)

\* Capture: the pin has moved, on an edge the channel wants.
Captures(i) ==
  /\ ~RegCTL[i].compare
  /\ IOPin[i] # ExIOPin[i]
  /\ RegCTL[i].cap \in (IF IOPin[i] THEN {1, 3} ELSE {2, 3})

Compares(i, c, cc) == RegCTL[i].compare /\ c \in {cc[0], cc[i], 0}

\* Compare, by the action of the channel: "set on compare" and so on.
SetAt(i, c, cc)   == c # 0 /\ (c = cc[i] \/ IOPin[i])
ClearAt(i, c, cc) == c = 0 \/ (c # cc[i] /\ IOPin[i])

Compare(i, c, ud, cc) ==
  LET action == RegCTL[i].out
      n == cc[i]
  IN  \/ action = 0 /\ (c = cc[0] \/ IOPin[i])
      \/ action = 1 /\ c # cc[0] /\ IOPin[i]
      \/ action = 2 /\ IOPin[i] # (c = cc[0])
      \/ action = 3 /\ mode = 3 /\ ((c = n /\ ~ud) \/ Signed(c) > Signed(n))
      \/ action = 4 /\ mode = 3 /\ ((c = n /\ ud) \/ Signed(c) < Signed(n))
      \/ action = 5 /\ mode # 2 /\ (c = n \/ (c # cc[0] /\ IOPin[i]))
      \/ action = 6 /\ mode # 2 /\ c # n /\ (c = cc[0] \/ IOPin[i])
      \/ ((action = 3 /\ mode # 3) \/ (action = 5 /\ mode = 2)) /\ SetAt(i, c, cc)
      \/ ((action = 4 /\ mode # 3) \/ (action = 6 /\ mode = 2)) /\ ClearAt(i, c, cc)

\* A capture copies the low byte of the count of timer 1, found to be t1.
Captured(t1) == [i \in Channels |-> IF Captures(i) THEN t1 ELSE ValRegCMP[i]]

CaptureCompare(c, ud, cc) ==
  /\ ValRegCMP' = cc
  /\ IOPin' = [i \in Channels |->
                 IF Compares(i, c, cc) THEN Compare(i, c, ud, cc) ELSE IOPin[i]]
  /\ ExIOPin' = [i \in Channels |-> IF RegCTL[i].compare THEN ExIOPin[i] ELSE IOPin[i]]
  /\ compared' = {i \in Channels : Compares(i, c, cc)}

-----------------------------------------------------------------------------
(* One count: the body of the loops of do_FreeRunningMode and the others.  *)

\* The end of CaptureCompare forgotten: no new schedule after an event.
Counts_NoSchedule(c, ud, due, turns, overflows) ==
  /\ TR
  /\ count' = c /\ up_down' = ud
  /\ IF due THEN \E t1 \in Values : CaptureCompare(c, ud, Captured(t1))
            ELSE /\ compared' = {}
                 /\ UNCHANGED <<ValRegCMP, pins>>
  /\ overflowed' = overflows
  /\ NextCmpEvent' = IF turns
                       THEN get_next_cc_event(c, mode, ud, ValRegCMP', RegCTL)
                       ELSE Down(NextCmpEvent)
  /\ fresh' = (fresh \/ turns)
  /\ UNCHANGED <<TR, mode, RegCTL>>

\* CaptureCompare if the event is due, and a new schedule if that or the mode
\* asks for one.
Counts(c, ud, due, turns, overflows) ==
  /\ TR
  /\ count' = c /\ up_down' = ud
  /\ IF due THEN \E t1 \in Values : CaptureCompare(c, ud, Captured(t1))
            ELSE /\ compared' = {}
                 /\ UNCHANGED <<ValRegCMP, pins>>
  /\ overflowed' = overflows
  /\ NextCmpEvent' = IF due \/ turns
                       THEN get_next_cc_event(c, mode, ud, ValRegCMP', RegCTL)
                       ELSE Down(NextCmpEvent)
  /\ fresh' = (fresh \/ due \/ turns)
  /\ UNCHANGED <<TR, mode, RegCTL>>

Due == Down(NextCmpEvent) = 0

CountFree ==
  /\ mode = 0
  /\ Counts(Up(count), up_down, Due, FALSE, Up(count) = 0)

\* From 0 the count goes to TxCC0, with a new schedule in any case.
CountDown ==
  /\ mode = 1
  /\ LET c == IF count = 0 THEN ValRegCMP[0] ELSE count - 1
     IN  Counts(c, up_down, Due, count = 0, c = 0)

\* The event of the overflow left out where TxCC0 is reached.
CountModulo_QuietAtTop ==
  /\ mode = 2
  /\ LET c == IF count = ValRegCMP[0] THEN 0 ELSE Up(count)
     IN  Counts(c, up_down, Due /\ c # 0, c = 0, Up(count) = 0)

\* A wrap reschedules before the event is looked at, and a fresh schedule is
\* never due.
CountModulo ==
  /\ mode = 2
  /\ LET c == IF count = ValRegCMP[0] THEN 0 ELSE Up(count)
     IN  Counts(c, up_down, Due /\ c # 0, c = 0, c = 0)

CountUpDown ==
  /\ mode = 3
  /\ LET c == IF up_down THEN Down(count) ELSE Up(count)
         turns == IF up_down THEN c = 0 ELSE c = ValRegCMP[0]
     IN  Counts(c, up_down # turns, Due, turns, c = 0)

Count == CountFree \/ CountDown \/ CountModulo \/ CountUpDown

NoEvents == compared' = {} /\ overflowed' = FALSE

-----------------------------------------------------------------------------
(* Writes of the program, and the reset of the chip.                       *)

\* TxCTL: the mode and the start bit. The bit CLR, tested against 1 in a field
\* where it is 4, has no effect.
WriteTxCTL(m, start) ==
  /\ mode' = m /\ TR' = start
  /\ NextCmpEvent' = get_next_cc_event(count, m, up_down, ValRegCMP, RegCTL)
  /\ fresh' = TRUE
  /\ NoEvents
  /\ UNCHANGED <<count, up_down, ValRegCMP, RegCTL, pins>>

WriteTxCC(i, v) ==
  /\ ValRegCMP' = [ValRegCMP EXCEPT ![i] = v]
  /\ NextCmpEvent' = get_next_cc_event(count, mode, up_down, ValRegCMP', RegCTL)
  /\ fresh' = TRUE
  /\ NoEvents
  /\ UNCHANGED <<TR, mode, count, up_down, RegCTL, pins>>

\* TxCCTLn is a plain cell: the schedule stays as it is.
WriteTxCCTL(i, k) ==
  /\ RegCTL' = [RegCTL EXCEPT ![i] = k]
  /\ fresh' = FALSE
  /\ NoEvents
  /\ UNCHANGED <<TR, mode, count, up_down, NextCmpEvent, ValRegCMP, pins>>

\* The reset of the chip clears the cells behind the timer's back, and the
\* timer's own clears only the cell TxCNT: it goes on counting as it did.
Reset ==
  /\ RegCTL' = [i \in Channels |-> Off]
  /\ fresh' = FALSE
  /\ NoEvents
  /\ UNCHANGED <<TR, mode, count, up_down, NextCmpEvent, ValRegCMP, pins>>

Software ==
  \/ \E m \in 0 .. 3, start \in BOOLEAN : WriteTxCTL(m, start)
  \/ \E i \in Channels, v \in Values : WriteTxCC(i, v)
  \/ \E i \in Channels, k \in Controls : WriteTxCCTL(i, k)

Next == Count \/ Software \/ Reset

Spec == Init /\ [][Next]_vars

\* The elements are ticked after every instruction, and a started timer counts
\* on one tick out of prescale.
FairSpec == Spec /\ WF_vars(Count)

-----------------------------------------------------------------------------
(* Properties.                                                             *)

\* Although only NextCmpEvent is looked at, no match is missed: of channel 0 in
\* free-running and up/down mode, and of both in modulo mode if the period is
\* at most half the range and the match is not at 0 (get_next_cc_event). A write
\* to TxCCTLn leaves the old schedule standing, so it voids the promise until
\* the next schedule.
Promised(i) ==
  /\ RegCTL[i].compare
  /\ \/ mode \in {0, 3} /\ i = 0
     \/ /\ mode = 2 /\ RegCTL[0].compare
        /\ count <= ValRegCMP[0] /\ ValRegCMP[0] < Half
        /\ ValRegCMP[i] # 0
MatchesCompared ==
  [][Count /\ fresh => \A i \in Channels :
       Promised(i) /\ count' = ValRegCMP[i] => i \in compared']_vars

\* In free-running mode the two channels hide each other's events only for a
\* while: once software leaves the timer alone, the schedule settles and every
\* match of either channel is compared from then on.
Settles ==
  (<>[][Count]_vars /\ <>[](TR /\ mode = 0))
    => <>[](\A i \in Channels :
              RegCTL[i].compare /\ count = ValRegCMP[i] => i \in compared)

\* A timer that software has started and left alone overflows again and again,
\* in every mode and from every count and direction, also for a TxCC0 of 0 or
\* below the count (EV_OVERFLOW, which the waits of other elements count).
KeepsOverflowing ==
  (<>[][Count]_vars /\ <>[]TR) => []<>overflowed

\* The counts left to EV_OVERFLOW, at most: up to the top of the range, or down
\* to 0, which from 0 leads over the reload or the wrap, or up and down.
ToOverflow ==
  CASE mode \in {0, 2}             -> M - count
    [] CountsDown(mode, up_down)   -> IF count = 0 THEN M ELSE count
    [] mode = 3 /\ ~up_down        -> 2 * M - count

\* Why the timer keeps overflowing: each count brings the overflow nearer, from
\* wherever software has left the count, the direction and TxCC0, also when a
\* capture changes a compare value. Two turns of the range are always enough.
OverflowNears ==
  [][Count => /\ ToOverflow \in 1 .. 2 * M
              /\ overflowed' \/ ToOverflow' < ToOverflow]_vars

\* The counts to the next match of a channel: a whole turn at the match itself.
Enabled == {i \in Channels : RegCTL[i].compare}
Distance(i) == IF count = ValRegCMP[i] THEN M ELSE Minus(ValRegCMP[i], count)

\* The schedule has settled: the event falls at the nearest match, or one count
\* before the match of all channels, where a new schedule is made.
Settled ==
  /\ mode = 0
  /\ \/ /\ \E i \in Enabled : NextCmpEvent = Distance(i)
        /\ \A i \in Enabled : NextCmpEvent <= Distance(i)
     \/ /\ NextCmpEvent # 0
        /\ \A i \in Enabled : NextCmpEvent + 1 = Distance(i)

Compared(i) == i \in Enabled /\ count = ValRegCMP[i] /\ i \in compared

\* Why the schedule settles in free-running mode: it is settled by any match
\* that is compared, each count then leaves it settled, and in a settled
\* schedule no match of either channel is missed.
SettlesForGood ==
  [][Count /\ mode = 0 =>
       /\ Settled \/ (\E i \in Channels : Compared(i)') => Settled'
       /\ Settled => \A i \in Enabled : count' = ValRegCMP[i] => i \in compared']_vars
=============================================================================
