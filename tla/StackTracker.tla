----------------------------- MODULE StackTracker -----------------------------
(***************************************************************************)
(* The stack tracker of the simulator: cl_uc::stack_write and stack_read   *)
(* (sim.src/uc.cc) with the operations of sim.src/stack.cc, told of every  *)
(* CALL, PUSH, POP, RET, RETI and interrupt by the 8051 (s51.src/jmp.cc,   *)
(* mov.cc, uc51.cc).                                                       *)
(*                                                                         *)
(* The tracker keeps the writes that are still on the stack. A read takes  *)
(* away those that lie above the stack pointer it leaves; it compares its  *)
(* kind with the topmost one only to raise an error. Writes of SP itself   *)
(* are not told to it. SP is a register of one byte and wraps.             *)
(***************************************************************************)
EXTENDS Integers, FiniteSets, Sequences, SequencesExt

CONSTANTS
  Size,       \* the values of SP: 256
  Base,       \* SP after a reset: 7
  MaxOps,     \* bound: the operations in the list,
  MaxStray,   \* and those put there by a program that has left both disciplines
  MaxLevels   \* the depth of nested services the priorities allow

Addr == 0 .. Size - 1
Writes == {"call", "intr", "push"}
Reads == {"ret", "iret", "pop"}

ASSUME StackAssumption ==
  /\ Size \in Nat /\ Size > 2
  /\ Base \in Addr
  /\ MaxOps \in Nat /\ MaxStray \in Nat /\ MaxLevels \in Nat

VARIABLES
  SP,
  stack_ops,   \* the writes the tracker holds, the topmost last
  errors,      \* the errors of the last instruction
  it_levels,   \* the number of services in it_levels
  frames,      \* history: the kinds of what the program has on its stack
  disciplined, \* history: since the reset, every read had the kind of the
               \* topmost frame and SP was not written directly
  straight     \* history: since the reset, SP was not written directly and did
               \* not wrap

history == <<frames, disciplined, straight>>
vars == <<SP, stack_ops, errors, it_levels, history>>

Op == [op : Writes, before : Addr, after : Addr]

TypeOK ==
  /\ SP \in Addr
  /\ stack_ops \in Seq(Op)
  /\ errors \subseteq {"empty", "unmatch", "inconsistent"}
  /\ it_levels \in Nat
  /\ frames \in Seq(Writes)
  /\ disciplined \in BOOLEAN /\ straight \in BOOLEAN

Init ==
  /\ SP = Base
  /\ stack_ops = <<>> /\ errors = {}
  /\ it_levels = 0
  /\ frames = <<>> /\ disciplined = TRUE /\ straight = TRUE

-----------------------------------------------------------------------------
(* SP and the operations.                                                  *)

size(op) == IF op \in {"push", "pop"} THEN 1 ELSE 2

\* wadd, up and down.
\* An addition in a wider register.
Up_Wide(sp, n) == sp + n

Up(sp, n) == IF sp + n < Size THEN sp + n ELSE sp + n - Size
Down(sp, n) == IF sp >= n THEN sp - n ELSE sp - n + Size

match(w, r) == <<w, r>> \in {<<"call", "ret">>, <<"intr", "iret">>, <<"push", "pop">>}

\* can_removed, for a read that moves SP from before to after. Both operations
\* must run in the same direction: one of them may have wrapped.
\* A frame that ends where SP is left is taken away as well.
can_removed_Ends(o, before, after) ==
  IF o.before < o.after
  THEN after < before /\ o.after >= after
  ELSE before <= after /\ o.after <= after

can_removed(o, before, after) ==
  IF o.before < o.after
  THEN after < before /\ o.before >= after
  ELSE before <= after /\ o.before <= after

\* How many operations a read leaves in the list.
\* A read takes the topmost operation and no more.
Kept_One(before, after) ==
  IF stack_ops # <<>> /\ can_removed(Last(stack_ops), before, after)
  THEN Len(stack_ops) - 1 ELSE Len(stack_ops)

Kept(before, after) ==
  CHOOSE k \in 0 .. Len(stack_ops) :
    /\ k = 0 \/ ~can_removed(stack_ops[k], before, after)
    /\ \A j \in k + 1 .. Len(stack_ops) : can_removed(stack_ops[j], before, after)

-----------------------------------------------------------------------------
(* The two entries of the tracker.                                         *)

stack_write(op, before, after) ==
  /\ stack_ops' = Append(stack_ops, [op |-> op, before |-> before, after |-> after])
  /\ errors' = {}

stack_read(op, before, after) ==
  LET k == Kept(before, after)
  IN  IF stack_ops = <<>>
      THEN errors' = {"empty"} /\ UNCHANGED stack_ops
      ELSE /\ stack_ops' = SubSeq(stack_ops, 1, k)
           /\ errors' = {e \in {"unmatch", "inconsistent"} :
                           \/ e = "unmatch" /\ ~match(Last(stack_ops).op, op)
                           \/ e = "inconsistent" /\ k > 0 /\ stack_ops[k].after # after}

-----------------------------------------------------------------------------
(* The instructions.                                                       *)

\* What a write and a read are to the program.
Put(op) ==
  /\ frames' = Append(frames, op)
  /\ straight' = (straight /\ SP < SP')
  /\ UNCHANGED disciplined

Take(op) ==
  /\ IF disciplined /\ frames # <<>> /\ match(Last(frames), op)
     THEN frames' = Front(frames) /\ UNCHANGED disciplined
     ELSE frames' = <<>> /\ disciplined' = FALSE
  /\ straight' = (straight /\ SP' < SP)

Moves(after) == SP' = after

\* ACALL, LCALL and PUSH.
Write(op) ==
  /\ Len(stack_ops) < IF disciplined \/ straight THEN MaxOps ELSE MaxStray
  /\ Moves(Up(SP, size(op)))
  /\ stack_write(op, SP, SP')
  /\ Put(op)

CallOrPush == \E op \in {"call", "push"} : Write(op) /\ UNCHANGED it_levels

\* accept_it: a service begins.
Interrupt ==
  /\ it_levels < MaxLevels
  /\ it_levels' = it_levels + 1
  /\ Write("intr")

\* RET, RETI and POP, with the service RETI ends.
Read(op) ==
  /\ Moves(Down(SP, size(op)))
  /\ stack_read(op, SP, SP')
  /\ Take(op)

RetOrPop == \E op \in {"ret", "pop"} : Read(op) /\ UNCHANGED it_levels

\* A RETI that never ends the outermost service.
Reti_Inner ==
  /\ Read("iret")
  /\ it_levels' = IF it_levels > 1 THEN it_levels - 1 ELSE it_levels

Reti ==
  /\ Read("iret")
  /\ it_levels' = IF it_levels > 0 THEN it_levels - 1 ELSE 0

\* An instruction that writes SP, and POP SP, which the tracker takes for a read
\* from the old SP to the one left in the end.
WriteSP ==
  /\ SP' \in Addr
  /\ errors' = {}
  /\ frames' = <<>> /\ disciplined' = FALSE /\ straight' = FALSE
  /\ UNCHANGED <<stack_ops, it_levels>>

PopSP ==
  /\ SP' \in Addr
  /\ stack_read("pop", SP, SP')
  /\ frames' = <<>> /\ disciplined' = FALSE /\ straight' = FALSE
  /\ UNCHANGED it_levels

Reset ==
  /\ SP' = Base
  /\ stack_ops' = <<>> /\ errors' = {}
  /\ it_levels' = 0
  /\ frames' = <<>> /\ disciplined' = TRUE /\ straight' = TRUE

Next == CallOrPush \/ Interrupt \/ RetOrPop \/ Reti \/ WriteSP \/ PopSP \/ Reset

Spec == Init /\ [][Next]_vars

-----------------------------------------------------------------------------
(* Properties.                                                             *)

\* A program that returns from, and pops, what it put on the stack last never
\* sees an error, and the tracker's list is its stack, frame by frame, down to
\* the SP of the reset: although the tracker takes operations away by comparing
\* stack pointers, and even when SP wraps.
MirrorsFrames ==
  disciplined =>
    /\ errors = {}
    /\ Len(stack_ops) = Len(frames)
    /\ \A i \in 1 .. Len(frames) :
         /\ stack_ops[i].op = frames[i]
         /\ stack_ops[i].before = IF i = 1 THEN Base ELSE stack_ops[i - 1].after
    /\ SP = IF stack_ops = <<>> THEN Base ELSE Last(stack_ops).after

\* Whatever the program reads, in whatever order, the operations in the list begin
\* at rising addresses below SP while SP neither wraps nor is written: none of
\* them is left over from a frame that is gone, and the list cannot outgrow the
\* stack.
AscendingBelowSP ==
  straight =>
    /\ \A i \in 1 .. Len(stack_ops) : stack_ops[i].before < SP
    /\ \A i, j \in 1 .. Len(stack_ops) : i < j => stack_ops[i].before < stack_ops[j].before

\* The interrupt controller and the tracker agree: as long as the program returns
\* from services with RETI and from nothing else, the services in it_levels are
\* those whose frames are on the stack.
ServicesOnStack ==
  disciplined =>
    it_levels = Cardinality({i \in 1 .. Len(stack_ops) : stack_ops[i].op = "intr"})

\* So the list needs no bound of its own: it never holds more operations than
\* the stack has bytes, although an operation leaves it only when a read finds it
\* above SP, and reads need not match.
ListFits == straight => Len(stack_ops) <= SP
=============================================================================
