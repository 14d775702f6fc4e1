-------------------------- MODULE StackTracker_proofs --------------------------
(***************************************************************************)
(* Proofs about StackTracker: that its list is the stack of a disciplined  *)
(* program, and that it never keeps frames that are gone, for a stack      *)
(* pointer of any width.                                                   *)
(***************************************************************************)
EXTENDS StackTracker, SequenceTheorems, FiniteSetTheorems, TLAPS

USE StackAssumption

-----------------------------------------------------------------------------
(* What a read leaves.                                                     *)

\* A set of naturals has a least element, and a bounded one a greatest.
LEMMA Smallest ==
  ASSUME NEW T \in SUBSET Nat, T # {}
  PROVE  \E x \in T : \A y \in T : x <= y
<1> DEFINE R == {ss \in Nat \X Nat : ss[1] < ss[2]}
<1>1. IsWellFoundedOn(R, Nat)
  BY NatLessThanWellFounded DEF OpToRel
<1>2. \A y, x \in Nat : y < x => <<y, x>> \in R
  OBVIOUS
<1> HIDE DEF R
<1>3. PICK x \in T : \A y \in T : ~(<<y, x>> \in R)
  BY <1>1, WFMin
<1>4. x \in Nat /\ \A y \in T : y \in Nat
  OBVIOUS
<1>5. ASSUME NEW y \in T
      PROVE  x <= y
  <2>1. <<y, x>> \notin R
    BY <1>3
  <2> QED
    BY <1>2, <1>4, <2>1
<1> QED
  BY <1>5

LEMMA Greatest ==
  ASSUME NEW n \in Nat, NEW S \in SUBSET (0 .. n), S # {}
  PROVE  \E k \in S : \A j \in S : j <= k
<1> DEFINE T == {n - k : k \in S}
<1>1. \A k \in S : k \in Int /\ k <= n
  OBVIOUS
<1>2. T \in SUBSET Nat /\ T # {}
  <2>1. \A y \in T : y \in Nat
    BY <1>1
  <2>2. T # {}
    OBVIOUS
  <2> HIDE DEF T
  <2> QED
    BY <2>1, <2>2
<1>3. PICK x \in T : \A y \in T : x <= y
  <2> HIDE DEF T
  <2> QED
    BY <1>2, Smallest
<1>4. PICK k \in S : x = n - k
  OBVIOUS
<1>5. ASSUME NEW j \in S
      PROVE  j <= k
  <2>1. n - k <= n - j
    BY <1>3, <1>4
  <2> QED
    BY <1>1, <2>1
<1> QED
  BY <1>5

\* The operations a read keeps.
LeavesOff(k, before, after) ==
  /\ k \in 0 .. Len(stack_ops)
  /\ k = 0 \/ ~can_removed(stack_ops[k], before, after)
  /\ \A j \in k + 1 .. Len(stack_ops) : can_removed(stack_ops[j], before, after)

LEMMA KeptLeavesOff ==
  ASSUME TypeOK, NEW before, NEW after
  PROVE  LeavesOff(Kept(before, after), before, after)
<1> DEFINE S == {k \in 0 .. Len(stack_ops) :
                   k = 0 \/ ~can_removed(stack_ops[k], before, after)}
<1>1. Len(stack_ops) \in Nat
  BY DEF TypeOK
<1>2. PICK k \in S : \A j \in S : j <= k
  <2>1. S \in SUBSET (0 .. Len(stack_ops)) /\ S # {}
    BY <1>1
  <2> HIDE DEF S
  <2> QED
    BY <1>1, <2>1, Greatest
<1>3. LeavesOff(k, before, after)
  <2>1. ASSUME NEW j \in k + 1 .. Len(stack_ops)
        PROVE  can_removed(stack_ops[j], before, after)
    <3>1. j \in 0 .. Len(stack_ops) /\ ~(j <= k)
      BY <1>1, <1>2
    <3> QED
      BY <1>2, <3>1
  <2> QED
    BY <1>2, <2>1 DEF LeavesOff
<1> QED
  BY <1>3 DEF Kept, LeavesOff

\* It is the only such number.
LEMMA KeptUnique ==
  ASSUME TypeOK, NEW before, NEW after, NEW k, LeavesOff(k, before, after)
  PROVE  Kept(before, after) = k
<1> DEFINE kept == Kept(before, after)
<1>1. LeavesOff(kept, before, after)
  BY KeptLeavesOff
<1> HIDE DEF kept
<1>2. Len(stack_ops) \in Nat /\ kept \in Int /\ k \in Int
  BY <1>1 DEF LeavesOff, TypeOK
<1>3. ~(kept < k)
  <2> SUFFICES ASSUME kept < k
      PROVE  FALSE
    OBVIOUS
  <2>1. k \in kept + 1 .. Len(stack_ops) /\ k # 0
    BY <1>1, <1>2 DEF LeavesOff
  <2> QED
    BY <1>1, <2>1 DEF LeavesOff
<1>4. ~(k < kept)
  <2> SUFFICES ASSUME k < kept
      PROVE  FALSE
    OBVIOUS
  <2>1. kept \in k + 1 .. Len(stack_ops) /\ kept # 0
    BY <1>1, <1>2 DEF LeavesOff
  <2> QED
    BY <1>1, <2>1 DEF LeavesOff
<1> QED
  BY <1>2, <1>3, <1>4 DEF kept

-----------------------------------------------------------------------------
(* Types.                                                                  *)

LEMMA Moving ==
  ASSUME NEW sp \in Addr, NEW op
  PROVE  /\ Up(sp, size(op)) \in Addr /\ Down(sp, size(op)) \in Addr
         /\ Up(sp, size(op)) # sp /\ Down(sp, size(op)) # sp
         /\ Down(Up(sp, size(op)), size(op)) = sp
  BY DEF Up, Down, size, Addr

LEMMA ReadType ==
  ASSUME TypeOK, NEW op, NEW before, NEW after, stack_read(op, before, after)
  PROVE  /\ stack_ops' \in Seq(Op)
         /\ errors' \subseteq {"empty", "unmatch", "inconsistent"}
         /\ Len(stack_ops') <= Len(stack_ops)
         /\ \A i \in 1 .. Len(stack_ops') : stack_ops'[i] = stack_ops[i]
<1>1. CASE stack_ops = <<>>
  BY <1>1 DEF stack_read, TypeOK
<1>2. CASE stack_ops # <<>>
  <2> DEFINE k == Kept(before, after)
  <2>1. k \in 0 .. Len(stack_ops)
    BY KeptLeavesOff DEF LeavesOff
  <2> HIDE DEF k
  <2>2. stack_ops' = SubSeq(stack_ops, 1, k)
    BY <1>2 DEF stack_read, k
  <2>3. \A i \in 1 .. k : stack_ops[i] \in Op
    BY <2>1 DEF TypeOK
  <2>4. /\ stack_ops' \in Seq(Op) /\ Len(stack_ops') = k
        /\ \A i \in 1 .. k : stack_ops'[i] = stack_ops[i]
    BY <2>1, <2>2, <2>3, SubSeqProperties
  <2>5. errors' \subseteq {"empty", "unmatch", "inconsistent"}
    BY <1>2 DEF stack_read
  <2> QED
    BY <2>1, <2>4, <2>5 DEF TypeOK
<1> QED
  BY <1>1, <1>2

LEMMA TypeInit == Init => TypeOK
<1> USE EmptySeq
<1> QED
  BY DEF Init, TypeOK, Addr

LEMMA WriteType ==
  ASSUME TypeOK, NEW op \in Writes, Write(op)
  PROVE  /\ SP' \in Addr /\ SP' = Up(SP, size(op)) /\ SP' # SP
         /\ stack_ops' \in Seq(Op)
         /\ Len(stack_ops') = Len(stack_ops) + 1
         /\ \A i \in 1 .. Len(stack_ops) : stack_ops'[i] = stack_ops[i]
         /\ stack_ops'[Len(stack_ops) + 1] = [op |-> op, before |-> SP, after |-> SP']
         /\ errors' = {}
         /\ frames' \in Seq(Writes)
         /\ straight' \in BOOLEAN /\ disciplined' = disciplined
<1>1. SP' \in Addr /\ SP' = Up(SP, size(op)) /\ SP' # SP
  BY Moving DEF Write, Moves, TypeOK
<1>2. [op |-> op, before |-> SP, after |-> SP'] \in Op
  BY <1>1 DEF Op, TypeOK
<1>3. stack_ops' = Append(stack_ops, [op |-> op, before |-> SP, after |-> SP']) /\ errors' = {}
  BY DEF Write, stack_write
<1>4. frames' = Append(frames, op) /\ straight' \in BOOLEAN /\ disciplined' = disciplined
  BY DEF Write, Put, TypeOK
<1>5. /\ stack_ops' \in Seq(Op)
      /\ Len(stack_ops') = Len(stack_ops) + 1
      /\ \A i \in 1 .. Len(stack_ops) : stack_ops'[i] = stack_ops[i]
      /\ stack_ops'[Len(stack_ops) + 1] = [op |-> op, before |-> SP, after |-> SP']
  BY <1>2, <1>3, AppendProperties DEF TypeOK
<1>6. frames' \in Seq(Writes)
  BY <1>4, AppendProperties DEF TypeOK
<1> QED
  BY <1>1, <1>3, <1>4, <1>5, <1>6

LEMMA TakeType ==
  ASSUME TypeOK, NEW op, Take(op)
  PROVE  frames' \in Seq(Writes) /\ disciplined' \in BOOLEAN /\ straight' \in BOOLEAN
<1>0. straight' \in BOOLEAN /\ disciplined' \in BOOLEAN
  <2>1. straight' \in BOOLEAN
    BY DEF Take
  <2>2. disciplined' \in BOOLEAN
    BY DEF Take, TypeOK
  <2> QED
    BY <2>1, <2>2
<1>1. CASE frames' = <<>>
  BY <1>0, <1>1, EmptySeq
<1>2. CASE frames # <<>> /\ frames' = Front(frames)
  <2>1. Len(frames) \in Nat /\ Len(frames) > 0 /\ frames \in Seq(Writes)
    BY <1>2, EmptySeq DEF TypeOK
  <2>2. \A i \in 1 .. Len(frames) - 1 : frames[i] \in Writes
    BY <2>1
  <2>3. SubSeq(frames, 1, Len(frames) - 1) \in Seq(Writes)
    BY <2>1, <2>2, SubSeqProperties
  <2> QED
    BY <1>0, <1>2, <2>3 DEF Front
<1> QED
  BY <1>1, <1>2 DEF Take

LEMMA TypeStep ==
  ASSUME TypeOK, [Next]_vars
  PROVE  TypeOK'
<1>1. CASE \E op \in Writes : Write(op) /\ it_levels' \in Nat
  BY <1>1, WriteType DEF TypeOK
<1>2. CASE \E op \in Reads : Read(op) /\ it_levels' \in Nat
  <2>1. PICK op \in Reads : Read(op) /\ it_levels' \in Nat
    BY <1>2
  <2>2. SP' \in Addr
    BY <2>1, Moving DEF Read, Moves, TypeOK
  <2>3. stack_ops' \in Seq(Op) /\ errors' \subseteq {"empty", "unmatch", "inconsistent"}
    BY <2>1, ReadType DEF Read
  <2>4. frames' \in Seq(Writes) /\ disciplined' \in BOOLEAN /\ straight' \in BOOLEAN
    BY <2>1, TakeType DEF Read
  <2> QED
    BY <2>1, <2>2, <2>3, <2>4 DEF TypeOK
<1>3. CASE WriteSP
  BY <1>3, EmptySeq DEF WriteSP, TypeOK
<1>4. CASE PopSP
  <2>1. stack_ops' \in Seq(Op) /\ errors' \subseteq {"empty", "unmatch", "inconsistent"}
    BY <1>4, ReadType DEF PopSP
  <2> QED
    BY <1>4, <2>1, EmptySeq DEF PopSP, TypeOK
<1>5. CASE Reset
  BY <1>5, EmptySeq DEF Reset, TypeOK
<1>6. CASE UNCHANGED vars
  BY <1>6 DEF vars, history, TypeOK
<1> QED
  BY <1>1, <1>2, <1>3, <1>4, <1>5, <1>6
  DEF Next, CallOrPush, Interrupt, RetOrPop, Reti, Writes, Reads, TypeOK

\* The types of the tracker's state hold in every reachable state.
THEOREM TypeCorrect == Spec => []TypeOK
<1>1. TypeOK /\ [Next]_vars => TypeOK'
  BY TypeStep
<1> QED
  BY TypeInit, <1>1, PTL DEF Spec

-----------------------------------------------------------------------------
(* The list of a disciplined program.                                      *)

\* Every operation moved SP by its size.
Sized == \A i \in 1 .. Len(stack_ops) :
           stack_ops[i].after = Up(stack_ops[i].before, size(stack_ops[i].op))

MirrorInv == TypeOK /\ Sized /\ MirrorsFrames

\* A read of the kind of the topmost frame takes that frame away and no other.
LEMMA MatchingRead ==
  ASSUME MirrorInv, disciplined, stack_ops # <<>>, NEW op \in Reads,
         match(Last(frames), op), Read(op)
  PROVE  /\ Len(stack_ops') = Len(stack_ops) - 1
         /\ errors' = {}
         /\ SP' = stack_ops[Len(stack_ops)].before
<1> DEFINE n == Len(stack_ops)
           top == stack_ops[n]
<1>1. n \in Nat /\ n > 0 /\ \A i \in 1 .. n : stack_ops[i] \in Op
  BY EmptySeq DEF MirrorInv, TypeOK
<1>2. Len(frames) = n /\ SP = top.after /\ top.op = frames[n] /\ Last(frames) = frames[n]
  BY <1>1 DEF MirrorInv, MirrorsFrames, Last
<1>3. top \in Op /\ top.after = Up(top.before, size(top.op))
  BY <1>1 DEF MirrorInv, Sized
<1>4. size(top.op) = size(op)
  BY <1>2 DEF match, size
<1>5. SP' = top.before
  BY <1>2, <1>3, <1>4, Moving DEF Read, Moves, Op
<1>6. LeavesOff(n - 1, SP, SP')
  <2>1. can_removed(top, SP, SP')
    BY <1>2, <1>3, <1>5 DEF can_removed, Op, Addr
  <2>2. ASSUME n - 1 # 0
        PROVE  ~can_removed(stack_ops[n - 1], SP, SP')
    <3> DEFINE o == stack_ops[n - 1]
    <3>1. n - 1 \in 1 .. n /\ n \in 1 .. Len(frames) /\ n # 1
      BY <1>1, <1>2, <2>2
    <3>2. o \in Op /\ o.after = Up(o.before, size(o.op))
      BY <1>1, <3>1 DEF MirrorInv, Sized
    <3>3. o.after = SP' /\ o.after # o.before
      <4>1. top.before = o.after
        BY <3>1 DEF MirrorInv, MirrorsFrames
      <4> QED
        BY <1>5, <3>2, <4>1, Moving DEF Op
    <3> QED
      BY <3>2, <3>3 DEF can_removed, Op, Addr
  <2> QED
    BY <1>1, <2>1, <2>2 DEF LeavesOff
<1>7. Kept(SP, SP') = n - 1
  BY <1>6, KeptUnique DEF MirrorInv
<1>8. stack_ops' = SubSeq(stack_ops, 1, n - 1)
  BY <1>7 DEF Read, stack_read
<1>9. Len(stack_ops') = n - 1
  <2>1. \A i \in 1 .. n - 1 : stack_ops[i] \in Op
    BY <1>1
  <2> HIDE DEF n
  <2> QED
    BY <1>1, <1>8, <2>1, SubSeqProperties
<1>10. errors' = {}
  <2>1. match(Last(stack_ops).op, op)
    BY <1>2 DEF Last
  <2>2. n - 1 > 0 => stack_ops[n - 1].after = SP'
    <3> SUFFICES ASSUME n - 1 > 0
        PROVE  stack_ops[n - 1].after = SP'
      OBVIOUS
    <3>1. n \in 1 .. Len(frames) /\ n # 1
      BY <1>1, <1>2
    <3>2. top.before = stack_ops[n - 1].after
      BY <3>1 DEF MirrorInv, MirrorsFrames
    <3> QED
      BY <1>5, <3>2
  <2> HIDE DEF n
  <2> QED
    BY <1>7, <2>1, <2>2 DEF Read, stack_read
<1> QED
  BY <1>5, <1>9, <1>10

LEMMA MirrorStep ==
  ASSUME MirrorInv, [Next]_vars
  PROVE  MirrorInv'
<1> DEFINE n == Len(stack_ops)
<1>1. n \in Nat /\ Len(frames) \in Nat /\ TypeOK
  BY DEF MirrorInv, TypeOK
<1>2. TypeOK'
  BY <1>1, TypeStep
<1>3. Sized'
  <2>1. CASE \E op \in Writes : Write(op)
    <3>1. PICK op \in Writes : Write(op)
      BY <2>1
    <3>2. /\ Len(stack_ops') = n + 1
          /\ \A i \in 1 .. n : stack_ops'[i] = stack_ops[i]
          /\ stack_ops'[n + 1] = [op |-> op, before |-> SP, after |-> SP']
          /\ SP' = Up(SP, size(op))
      BY <1>1, <3>1, WriteType
    <3>3. ASSUME NEW i \in 1 .. n + 1
          PROVE  stack_ops'[i].after = Up(stack_ops'[i].before, size(stack_ops'[i].op))
      <4>1. CASE i = n + 1
        BY <3>2, <4>1
      <4>2. CASE i # n + 1
        <5>1. i \in 1 .. n
          BY <1>1, <4>2
        <5> QED
          BY <3>2, <5>1 DEF MirrorInv, Sized
      <4> QED
        BY <4>1, <4>2
    <3> QED
      BY <3>2, <3>3 DEF Sized
  <2>2. CASE \E op, before, after : stack_read(op, before, after)
    <3>1. Len(stack_ops') <= n /\ \A i \in 1 .. Len(stack_ops') : stack_ops'[i] = stack_ops[i]
      BY <1>1, <2>2, ReadType
    <3>2. Len(stack_ops') \in Nat
      BY <1>2 DEF TypeOK
    <3>3. \A i \in 1 .. Len(stack_ops') : i \in 1 .. n
      BY <1>1, <3>1, <3>2
    <3> QED
      BY <3>1, <3>3 DEF MirrorInv, Sized
  <2>3. CASE UNCHANGED stack_ops
    BY <2>3 DEF MirrorInv, Sized
  <2>4. CASE stack_ops' = <<>>
    BY <2>4, EmptySeq DEF Sized
  <2> QED
    BY <2>1, <2>2, <2>3, <2>4
    DEF Next, CallOrPush, Interrupt, RetOrPop, Reti, WriteSP, PopSP, Reset, Read, Writes, Reads, vars
<1>4. MirrorsFrames'
  <2>1. ASSUME NEW op \in Writes, Write(op)
        PROVE  MirrorsFrames'
    <3> SUFFICES ASSUME disciplined'
        PROVE  MirrorsFrames'
      BY DEF MirrorsFrames
    <3>1. /\ Len(stack_ops') = n + 1
          /\ \A i \in 1 .. n : stack_ops'[i] = stack_ops[i]
          /\ stack_ops'[n + 1] = [op |-> op, before |-> SP, after |-> SP']
          /\ errors' = {} /\ disciplined
      BY <1>1, <2>1, WriteType
    <3>2. Len(frames) = n
      BY <3>1 DEF MirrorInv, MirrorsFrames
    <3>3. /\ Len(frames') = n + 1 /\ frames'[n + 1] = op
          /\ \A i \in 1 .. n : frames'[i] = frames[i]
      BY <2>1, <3>2, AppendProperties DEF Write, Put, MirrorInv, TypeOK
    <3>4. ASSUME NEW i \in 1 .. n + 1
          PROVE  /\ stack_ops'[i].op = frames'[i]
                 /\ stack_ops'[i].before = IF i = 1 THEN Base ELSE stack_ops'[i - 1].after
      <4>1. CASE i = n + 1
        <5>1. SP = IF n = 0 THEN Base ELSE stack_ops[n].after
          BY <1>1, <3>1, EmptySeq DEF MirrorInv, MirrorsFrames, TypeOK, Last
        <5>2. n # 0 => stack_ops'[n] = stack_ops[n]
          BY <1>1, <3>1
        <5> QED
          BY <1>1, <3>1, <3>3, <4>1, <5>1, <5>2
      <4>2. CASE i # n + 1
        <5>1. i \in 1 .. n /\ (i # 1 => i - 1 \in 1 .. n)
          BY <1>1, <4>2
        <5>2. /\ stack_ops[i].op = frames[i]
              /\ stack_ops[i].before = IF i = 1 THEN Base ELSE stack_ops[i - 1].after
          BY <3>1, <3>2, <5>1 DEF MirrorInv, MirrorsFrames
        <5> QED
          BY <3>1, <3>3, <5>1, <5>2
      <4> QED
        BY <4>1, <4>2
    <3>5. stack_ops' # <<>> /\ SP' = Last(stack_ops').after
      BY <1>1, <3>1, EmptySeq DEF Last
    <3> QED
      BY <3>1, <3>3, <3>4, <3>5 DEF MirrorsFrames
  <2>2. ASSUME NEW op \in Reads, Read(op)
        PROVE  MirrorsFrames'
    <3> SUFFICES ASSUME disciplined'
        PROVE  MirrorsFrames'
      BY DEF MirrorsFrames
    <3>1. /\ disciplined /\ frames # <<>> /\ match(Last(frames), op)
          /\ frames' = Front(frames)
      BY <2>2 DEF Read, Take
    <3>2. Len(frames) = n /\ n > 0 /\ stack_ops # <<>>
      <4>1. Len(frames) = n
        BY <3>1 DEF MirrorInv, MirrorsFrames
      <4> QED
        BY <1>1, <3>1, <4>1, EmptySeq DEF TypeOK
    <3>3. /\ Len(stack_ops') = n - 1 /\ errors' = {}
          /\ SP' = stack_ops[n].before
      BY <2>2, <3>1, <3>2, MatchingRead
    <3>4. \A i \in 1 .. n - 1 : stack_ops'[i] = stack_ops[i]
      BY <1>1, <2>2, <3>3, ReadType DEF Read
    <3>5. Len(frames') = n - 1 /\ \A i \in 1 .. n - 1 : frames'[i] = frames[i]
      BY <1>1, <3>1, <3>2, SubSeqProperties DEF Front, TypeOK
    <3>6. \A i \in 1 .. n :
            /\ stack_ops[i].op = frames[i]
            /\ stack_ops[i].before = IF i = 1 THEN Base ELSE stack_ops[i - 1].after
      BY <3>1, <3>2 DEF MirrorInv, MirrorsFrames
    <3>7. ASSUME NEW i \in 1 .. n - 1
          PROVE  /\ stack_ops'[i].op = frames'[i]
                 /\ stack_ops'[i].before = IF i = 1 THEN Base ELSE stack_ops'[i - 1].after
      <4>1. i \in 1 .. n /\ (i # 1 => i - 1 \in 1 .. n - 1)
        BY <1>1
      <4> QED
        BY <3>4, <3>5, <3>6, <4>1
    <3>8. SP' = IF stack_ops' = <<>> THEN Base ELSE Last(stack_ops').after
      <4>1. n \in 1 .. n
        BY <1>1, <3>2
      <4>2. stack_ops' = <<>> <=> n = 1
        BY <1>1, <1>2, <3>3, EmptySeq DEF TypeOK
      <4>3. n # 1 => stack_ops'[n - 1] = stack_ops[n - 1]
        BY <1>1, <3>2, <3>4
      <4> QED
        BY <3>3, <3>6, <4>1, <4>2, <4>3 DEF Last
    <3> QED
      BY <3>3, <3>5, <3>7, <3>8 DEF MirrorsFrames
  <2>3. CASE WriteSP \/ PopSP
    BY <2>3 DEF WriteSP, PopSP, MirrorsFrames
  <2>4. CASE Reset
    BY <2>4, EmptySeq DEF Reset, MirrorsFrames
  <2>5. CASE UNCHANGED vars
    BY <2>5 DEF MirrorInv, MirrorsFrames, vars, history
  <2> QED
    BY <2>1, <2>2, <2>3, <2>4, <2>5
    DEF Next, CallOrPush, Interrupt, RetOrPop, Reti, Writes, Reads
<1> QED
  BY <1>2, <1>3, <1>4 DEF MirrorInv

\* The list of the tracker is the stack of every program that takes back what it
\* put there last, and such a program sees no error, for a stack pointer of any
\* width and however often it wraps.
THEOREM AlwaysMirrorsFrames == Spec => []MirrorsFrames
<1>1. Init => MirrorInv
  <2> SUFFICES ASSUME Init
      PROVE  MirrorInv
    OBVIOUS
  <2>1. Sized /\ MirrorsFrames
    BY EmptySeq DEF Init, Sized, MirrorsFrames
  <2> QED
    BY <2>1, TypeInit DEF MirrorInv
<1>2. MirrorInv /\ [Next]_vars => MirrorInv'
  BY MirrorStep
<1>3. MirrorInv => MirrorsFrames
  BY DEF MirrorInv
<1> QED
  BY <1>1, <1>2, <1>3, PTL DEF Spec

-----------------------------------------------------------------------------
(* The list is bounded by the stack.                                       *)

\* While SP does not wrap, every operation in the list moved it upwards.
Rising == straight => \A i \in 1 .. Len(stack_ops) : stack_ops[i].before < stack_ops[i].after

AscendingInv == TypeOK /\ Rising /\ AscendingBelowSP

\* A read that lowers SP keeps only operations that begin below it.
LEMMA KeptBelow ==
  ASSUME AscendingInv, straight, NEW op, stack_read(op, SP, SP'), SP' \in Addr, SP' < SP
  PROVE  \A i \in 1 .. Len(stack_ops') : stack_ops'[i].before < SP'
<1> DEFINE k == Kept(SP, SP')
<1>1. TypeOK /\ Len(stack_ops) \in Nat /\ \A i \in 1 .. Len(stack_ops) : stack_ops[i] \in Op
  BY DEF AscendingInv, TypeOK
<1>2. CASE stack_ops = <<>>
  BY <1>2, EmptySeq DEF stack_read
<1>3. CASE stack_ops # <<>>
  <2>1. LeavesOff(k, SP, SP')
    BY <1>1, KeptLeavesOff
  <2> HIDE DEF k
  <2>2. k \in 0 .. Len(stack_ops)
    BY <2>1 DEF LeavesOff
  <2>3. stack_ops' = SubSeq(stack_ops, 1, k)
    BY <1>3 DEF stack_read, k
  <2>4. Len(stack_ops') = k
    <3>1. \A i \in 1 .. k : stack_ops[i] \in Op
      BY <1>1, <2>2
    <3> QED
      BY <2>2, <2>3, <3>1, SubSeqProperties
  <2>5. ASSUME NEW i \in 1 .. k
        PROVE  stack_ops[i].before < SP'
    <3>1. k \in 1 .. Len(stack_ops) /\ i \in 1 .. Len(stack_ops)
      BY <1>1, <2>2
    <3>2. stack_ops[k].before < SP'
      <4>1. ~can_removed(stack_ops[k], SP, SP')
        BY <2>1, <3>1 DEF LeavesOff
      <4>2. stack_ops[k] \in Op /\ stack_ops[k].before < stack_ops[k].after
        BY <1>1, <3>1 DEF AscendingInv, Rising
      <4> QED
        BY <4>1, <4>2 DEF can_removed, Op, Addr
    <3>3. i < k => stack_ops[i].before < stack_ops[k].before
      BY <3>1 DEF AscendingInv, AscendingBelowSP
    <3> QED
      BY <1>1, <2>2, <3>1, <3>2, <3>3 DEF Op, Addr
  <2>6. \A i \in 1 .. k : stack_ops'[i] = stack_ops[i]
    BY <1>1, <2>4, ReadType
  <2> QED
    BY <2>4, <2>5, <2>6
<1> QED
  BY <1>2, <1>3

LEMMA AscendingStep ==
  ASSUME AscendingInv, [Next]_vars
  PROVE  AscendingInv'
<1> DEFINE n == Len(stack_ops)
<1>1. TypeOK /\ n \in Nat /\ \A i \in 1 .. n : stack_ops[i] \in Op
  BY DEF AscendingInv, TypeOK
<1>2. TypeOK'
  BY <1>1, TypeStep
<1>3. ASSUME NEW op \in Writes, Write(op)
      PROVE  Rising' /\ AscendingBelowSP'
  <2> SUFFICES ASSUME straight'
      PROVE  Rising' /\ AscendingBelowSP'
    BY DEF Rising, AscendingBelowSP
  <2>1. straight /\ SP < SP' /\ SP \in Addr /\ SP' \in Addr
    BY <1>1, <1>2, <1>3 DEF Write, Put, TypeOK
  <2>2. /\ Len(stack_ops') = n + 1
        /\ \A i \in 1 .. n : stack_ops'[i] = stack_ops[i]
        /\ stack_ops'[n + 1].before = SP /\ stack_ops'[n + 1].after = SP'
    <3>1. /\ Len(stack_ops') = n + 1
          /\ \A i \in 1 .. n : stack_ops'[i] = stack_ops[i]
          /\ stack_ops'[n + 1] = [op |-> op, before |-> SP, after |-> SP']
      BY <1>1, <1>3, WriteType
    <3> QED
      BY <3>1
  <2>3. ASSUME NEW i \in 1 .. n
        PROVE  /\ stack_ops'[i].before < stack_ops'[i].after
               /\ stack_ops'[i].before < SP
    BY <2>1, <2>2 DEF AscendingInv, Rising, AscendingBelowSP
  <2>4. ASSUME NEW i \in 1 .. n + 1
        PROVE  /\ stack_ops'[i].before < stack_ops'[i].after
               /\ stack_ops'[i].before < SP'
    <3>1. i = n + 1 \/ (i \in 1 .. n /\ stack_ops[i] \in Op /\ stack_ops'[i] = stack_ops[i])
      BY <1>1, <2>2
    <3> QED
      BY <2>1, <2>2, <2>3, <3>1 DEF Op, Addr
  <2>5. ASSUME NEW i \in 1 .. n + 1, NEW j \in 1 .. n + 1, i < j
        PROVE  stack_ops'[i].before < stack_ops'[j].before
    <3>1. i \in 1 .. n
      BY <1>1, <2>5
    <3>2. CASE j = n + 1
      BY <2>2, <2>3, <3>1, <3>2
    <3>3. CASE j # n + 1
      <4>1. j \in 1 .. n
        BY <1>1, <3>3
      <4> QED
        BY <2>1, <2>2, <2>5, <3>1, <4>1 DEF AscendingInv, AscendingBelowSP
    <3> QED
      BY <3>2, <3>3
  <2> QED
    BY <2>2, <2>4, <2>5 DEF Rising, AscendingBelowSP
<1>4. ASSUME NEW op \in Reads, Read(op)
      PROVE  Rising' /\ AscendingBelowSP'
  <2> SUFFICES ASSUME straight'
      PROVE  Rising' /\ AscendingBelowSP'
    BY DEF Rising, AscendingBelowSP
  <2>1. straight /\ SP' < SP /\ SP' \in Addr
    BY <1>2, <1>4 DEF Read, Take, TypeOK
  <2>2. \A i \in 1 .. Len(stack_ops') : stack_ops'[i].before < SP'
    BY <1>4, <2>1, KeptBelow DEF Read
  <2>3. /\ Len(stack_ops') \in Nat /\ Len(stack_ops') <= n
        /\ \A i \in 1 .. Len(stack_ops') : stack_ops'[i] = stack_ops[i]
    BY <1>1, <1>2, <1>4, ReadType DEF Read, TypeOK
  <2>4. \A i \in 1 .. Len(stack_ops') : i \in 1 .. n
    BY <1>1, <2>3
  <2>5. \A i \in 1 .. Len(stack_ops') : stack_ops'[i].before < stack_ops'[i].after
    BY <2>1, <2>3, <2>4 DEF AscendingInv, Rising
  <2>6. \A i, j \in 1 .. Len(stack_ops') : i < j => stack_ops'[i].before < stack_ops'[j].before
    BY <2>1, <2>3, <2>4 DEF AscendingInv, AscendingBelowSP
  <2> QED
    BY <2>2, <2>5, <2>6 DEF Rising, AscendingBelowSP
<1>5. ASSUME WriteSP \/ PopSP
      PROVE  Rising' /\ AscendingBelowSP'
  <2>1. ~straight'
    BY <1>5 DEF WriteSP, PopSP
  <2> QED
    BY <2>1 DEF Rising, AscendingBelowSP
<1>6. ASSUME Reset
      PROVE  Rising' /\ AscendingBelowSP'
  <2>1. Len(stack_ops') = 0
    BY <1>6, EmptySeq DEF Reset
  <2>2. \A i : i \notin 1 .. Len(stack_ops')
    BY <2>1
  <2> QED
    BY <2>2 DEF Rising, AscendingBelowSP
<1>7. ASSUME UNCHANGED vars
      PROVE  Rising' /\ AscendingBelowSP'
  <2>1. UNCHANGED <<SP, stack_ops, straight>>
    BY <1>7 DEF vars, history
  <2>2. Rising'
    BY <2>1 DEF AscendingInv, Rising
  <2>3. AscendingBelowSP'
    BY <2>1 DEF AscendingInv, AscendingBelowSP
  <2> QED
    BY <2>2, <2>3
<1>8. Rising' /\ AscendingBelowSP'
  BY <1>3, <1>4, <1>5, <1>6, <1>7
  DEF Next, CallOrPush, Interrupt, RetOrPop, Reti, Writes, Reads
<1> QED
  BY <1>2, <1>8 DEF AscendingInv

\* Whatever a program reads, as long as SP neither wraps nor is written, the
\* operations in the list begin at rising addresses below SP.
THEOREM AlwaysAscending == Spec => []AscendingBelowSP
<1>1. Init => AscendingInv
  <2> SUFFICES ASSUME Init
      PROVE  AscendingInv
    OBVIOUS
  <2>1. Rising /\ AscendingBelowSP
    BY EmptySeq DEF Init, Rising, AscendingBelowSP
  <2> QED
    BY <2>1, TypeInit DEF AscendingInv
<1>2. AscendingInv /\ [Next]_vars => AscendingInv'
  BY AscendingStep
<1>3. AscendingInv => AscendingBelowSP
  BY DEF AscendingInv
<1> QED
  BY <1>1, <1>2, <1>3, PTL DEF Spec

-----------------------------------------------------------------------------
(* The services on the stack.                                              *)

ServicesInv == MirrorInv /\ ServicesOnStack

\* The operations of the list that began a service.
Services == {i \in 1 .. Len(stack_ops) : stack_ops[i].op = "intr"}

LEMMA ServicesFinite ==
  ASSUME TypeOK
  PROVE  IsFiniteSet(Services) /\ Cardinality(Services) \in Nat
<1>1. Len(stack_ops) \in Nat /\ Services \in SUBSET (1 .. Len(stack_ops))
  BY DEF TypeOK, Services
<1>2. IsFiniteSet(1 .. Len(stack_ops))
  BY <1>1, FS_Interval
<1>3. IsFiniteSet(Services)
  BY <1>1, <1>2, FS_Subset
<1> QED
  BY <1>3, FS_CardinalityType

LEMMA WriteServices ==
  ASSUME TypeOK, NEW op \in Writes, Write(op)
  PROVE  Cardinality(Services') = IF op = "intr" THEN Cardinality(Services) + 1
                                                 ELSE Cardinality(Services)
<1> DEFINE n == Len(stack_ops)
<1>1. n \in Nat
  BY DEF TypeOK
<1>2. /\ Len(stack_ops') = n + 1
      /\ \A i \in 1 .. n : stack_ops'[i] = stack_ops[i]
      /\ stack_ops'[n + 1] = [op |-> op, before |-> SP, after |-> SP']
  BY WriteType
<1>3. stack_ops'[n + 1].op = op
  BY <1>2
<1>4. n + 1 \notin Services
  BY <1>1 DEF Services
<1>5. CASE op = "intr"
  <2>1. Services' = Services \cup {n + 1}
    BY <1>1, <1>2, <1>3, <1>5 DEF Services
  <2> QED
    BY <1>4, <1>5, <2>1, ServicesFinite, FS_AddElement
<1>6. CASE op # "intr"
  <2>1. Services' = Services
    BY <1>1, <1>2, <1>3, <1>6 DEF Services
  <2> QED
    BY <1>6, <2>1
<1> QED
  BY <1>5, <1>6

LEMMA ReadServices ==
  ASSUME MirrorInv, NEW op \in Reads, Read(op), disciplined'
  PROVE  /\ op = "iret" => Cardinality(Services) > 0
         /\ Cardinality(Services') = IF op = "iret" THEN Cardinality(Services) - 1
                                                    ELSE Cardinality(Services)
<1> DEFINE n == Len(stack_ops)
<1>1. TypeOK /\ n \in Nat /\ Len(frames) \in Nat
  BY DEF MirrorInv, TypeOK
<1>2. disciplined /\ frames # <<>> /\ match(Last(frames), op)
  BY DEF Read, Take
<1>3. Len(frames) = n /\ n > 0 /\ stack_ops # <<>>
  <2>1. Len(frames) = n
    BY <1>2 DEF MirrorInv, MirrorsFrames
  <2> QED
    BY <1>1, <1>2, <2>1, EmptySeq DEF TypeOK
<1>4. Len(stack_ops') = n - 1
  BY <1>2, <1>3, MatchingRead
<1>5. \A i \in 1 .. n - 1 : stack_ops'[i] = stack_ops[i]
  BY <1>1, <1>4, ReadType DEF Read
<1>6. stack_ops[n].op = Last(frames)
  <2>1. n \in 1 .. Len(frames)
    BY <1>1, <1>3
  <2> QED
    BY <1>2, <1>3, <2>1 DEF MirrorInv, MirrorsFrames, Last
<1>7. stack_ops[n].op = "intr" <=> op = "iret"
  BY <1>2, <1>6 DEF match
<1>8. Services' = Services \ {n}
  BY <1>1, <1>3, <1>4, <1>5 DEF Services
<1>9. n \in Services <=> op = "iret"
  BY <1>1, <1>3, <1>7 DEF Services
<1>10. Cardinality(Services') = IF op = "iret" THEN Cardinality(Services) - 1
                                               ELSE Cardinality(Services)
  BY <1>1, <1>8, <1>9, ServicesFinite, FS_RemoveElement
<1>11. op = "iret" => Cardinality(Services) > 0
  <2>1. IsFiniteSet(Services) /\ Cardinality(Services) \in Nat
    BY <1>1, ServicesFinite
  <2>2. Services # {} => Cardinality(Services) # 0
    BY <2>1, FS_EmptySet
  <2> QED
    BY <1>9, <2>1, <2>2
<1> QED
  BY <1>10, <1>11

LEMMA ServicesStep ==
  ASSUME ServicesInv, [Next]_vars
  PROVE  ServicesInv'
<1>1. MirrorInv /\ TypeOK /\ it_levels \in Nat
  BY DEF ServicesInv, MirrorInv, TypeOK
<1>2. MirrorInv'
  BY <1>1, MirrorStep
<1>3. Cardinality(Services) \in Nat
  BY <1>1, ServicesFinite
<1>4. disciplined => it_levels = Cardinality(Services)
  BY DEF ServicesInv, ServicesOnStack, Services
<1>5. ASSUME disciplined'
      PROVE  it_levels' = Cardinality(Services')
  <2>1. ASSUME CallOrPush
        PROVE  it_levels' = Cardinality(Services')
    <3>1. PICK op \in {"call", "push"} : Write(op) /\ UNCHANGED it_levels
      BY <2>1 DEF CallOrPush
    <3>2. op \in Writes /\ op # "intr" /\ disciplined
      BY <1>5, <3>1 DEF Writes, Write, Put
    <3> QED
      BY <1>1, <1>4, <3>1, <3>2, WriteServices
  <2>2. ASSUME Interrupt
        PROVE  it_levels' = Cardinality(Services')
    <3>1. Write("intr") /\ it_levels' = it_levels + 1
      BY <2>2 DEF Interrupt
    <3>2. "intr" \in Writes /\ disciplined
      BY <1>5, <3>1 DEF Writes, Write, Put
    <3> QED
      BY <1>1, <1>4, <3>1, <3>2, WriteServices
  <2>3. ASSUME RetOrPop
        PROVE  it_levels' = Cardinality(Services')
    <3>1. PICK op \in {"ret", "pop"} : Read(op) /\ UNCHANGED it_levels
      BY <2>3 DEF RetOrPop
    <3>2. op \in Reads /\ op # "iret" /\ disciplined
      BY <1>5, <3>1 DEF Reads, Read, Take
    <3> QED
      BY <1>1, <1>4, <1>5, <3>1, <3>2, ReadServices
  <2>4. ASSUME Reti
        PROVE  it_levels' = Cardinality(Services')
    <3>1. Read("iret") /\ it_levels' = IF it_levels > 0 THEN it_levels - 1 ELSE 0
      BY <2>4 DEF Reti
    <3>2. "iret" \in Reads /\ disciplined
      BY <1>5, <3>1 DEF Reads, Read, Take
    <3>3. Cardinality(Services) > 0 /\ Cardinality(Services') = Cardinality(Services) - 1
      BY <1>1, <1>5, <3>1, <3>2, ReadServices
    <3> QED
      BY <1>3, <1>4, <3>1, <3>2, <3>3
  <2>5. ASSUME Reset
        PROVE  it_levels' = Cardinality(Services')
    <3>1. Len(stack_ops') = 0 /\ it_levels' = 0
      BY <2>5, EmptySeq DEF Reset
    <3>2. Services' = {}
      BY <3>1 DEF Services
    <3> QED
      BY <3>1, <3>2, FS_EmptySet
  <2>6. ASSUME UNCHANGED vars
        PROVE  it_levels' = Cardinality(Services')
    <3>1. UNCHANGED <<stack_ops, it_levels, disciplined>>
      BY <2>6 DEF vars, history
    <3> QED
      BY <1>4, <1>5, <3>1 DEF Services
  <2> QED
    BY <1>5, <2>1, <2>2, <2>3, <2>4, <2>5, <2>6 DEF Next, WriteSP, PopSP
<1>6. ServicesOnStack'
  BY <1>5 DEF ServicesOnStack, Services
<1> QED
  BY <1>2, <1>6 DEF ServicesInv

\* As long as a program returns from services with RETI and from nothing else, the
\* interrupt controller counts as many services as the stack holds frames of.
THEOREM AlwaysServicesOnStack == Spec => []ServicesOnStack
<1>1. Init => ServicesInv
  <2> SUFFICES ASSUME Init
      PROVE  ServicesInv
    OBVIOUS
  <2>1. Sized /\ MirrorsFrames
    BY EmptySeq DEF Init, Sized, MirrorsFrames
  <2>2. Services = {}
    BY EmptySeq DEF Init, Services
  <2>3. ServicesOnStack
    BY <2>2, FS_EmptySet DEF Init, ServicesOnStack, Services
  <2> QED
    BY <2>1, <2>3, TypeInit DEF ServicesInv, MirrorInv
<1>2. ServicesInv /\ [Next]_vars => ServicesInv'
  BY ServicesStep
<1>3. ServicesInv => ServicesOnStack
  BY DEF ServicesInv
<1> QED
  BY <1>1, <1>2, <1>3, PTL DEF Spec

-----------------------------------------------------------------------------
(* The list fits into the stack.                                           *)

\* Rising addresses leave room for an operation each.
LEMMA RoomBelow ==
  ASSUME TypeOK, AscendingBelowSP, straight, NEW i \in 1 .. Len(stack_ops)
  PROVE  stack_ops[i].before >= i - 1
<1> DEFINE n == Len(stack_ops)
           before(j) == stack_ops[j].before
           Low == {j \in 1 .. n : before(j) < j - 1}
<1>1. n \in Nat /\ \A j \in 1 .. n : before(j) \in Nat
  <2>1. ASSUME NEW j \in 1 .. n PROVE before(j) \in Nat
    <3>1. stack_ops[j] \in Op
      BY DEF TypeOK
    <3> QED
      BY <3>1 DEF Op, Addr
  <2> QED
    BY <2>1 DEF TypeOK
<1>2. \A j, k \in 1 .. n : j < k => before(j) < before(k)
  BY DEF AscendingBelowSP
<1> HIDE DEF n, before
<1>3. ASSUME Low # {} PROVE FALSE
  <2>1. Low \in SUBSET Nat
    BY <1>1
  <2>2. PICK j \in Low : \A k \in Low : j <= k
    BY <1>3, <2>1, Smallest
  <2>3. j \in 1 .. n /\ before(j) < j - 1
    BY <2>2
  <2>4. j # 1
    BY <1>1, <2>3
  <2>5. j - 1 \in 1 .. n /\ j - 1 \notin Low
    BY <1>1, <2>1, <2>2, <2>3, <2>4
  <2>6. before(j - 1) >= j - 2
    BY <1>1, <2>5
  <2>7. before(j - 1) < before(j)
    BY <1>1, <1>2, <2>3, <2>5
  <2> QED
    BY <1>1, <2>3, <2>5, <2>6, <2>7
<1>4. i \in 1 .. n
  BY DEF n
<1>5. before(i) >= i - 1
  BY <1>1, <1>3, <1>4
<1> QED
  BY <1>5 DEF before

\* While SP neither wraps nor is written the tracker's list never holds more
\* operations than the stack has bytes, whatever the program returns from.
THEOREM AlwaysFits == Spec => []ListFits
<1>1. TypeOK /\ AscendingBelowSP => ListFits
  <2> SUFFICES ASSUME TypeOK, AscendingBelowSP, straight PROVE Len(stack_ops) <= SP
    BY DEF ListFits
  <2> DEFINE n == Len(stack_ops)
  <2>1. n \in Nat /\ SP \in Nat
    BY DEF TypeOK, Addr
  <2>2. CASE n = 0
    BY <2>1, <2>2
  <2>3. CASE n # 0
    <3>1. n \in 1 .. n
      BY <2>1, <2>3
    <3>2. stack_ops[n].before >= n - 1 /\ stack_ops[n].before < SP
      BY <3>1, RoomBelow DEF AscendingBelowSP
    <3>3. stack_ops[n].before \in Nat
      <4>1. stack_ops[n] \in Op
        BY <3>1 DEF TypeOK
      <4> QED
        BY <4>1 DEF Op, Addr
    <3> HIDE DEF n
    <3> QED
      BY <2>1, <3>2, <3>3 DEF n
  <2> QED
    BY <2>2, <2>3
<1> QED
  BY <1>1, TypeCorrect, AlwaysAscending, PTL
=============================================================================
