# CC2530 simulator: TLA+ models, checks and proofs

The repository is a simulator of the Texas Instruments CC2530 (an 8051 core with
a radio, a DMA controller, timers, USARTs and flash), built on the uCsim 8051
simulator. `src/ucsim/sim.src` holds the generic simulator (memory, breakpoints,
hardware elements, the instruction loop), `src/ucsim/s51.src` the 8051 core and the
CC2530 peripherals, `src/ucsim/cmd.src` the operator's commands.

This directory holds TLA+ modules of its control logic, TLC runs on small
instances and TLAPS proofs for every value of the constants. `PROJECT.json` says
which lines each definition translates (`map`), what each run checks (`runs`),
which change of the code each property would notice (`mutants`), what is hard to
test (`hazards`), and what the proofs establish (`theorems`).

- [1 The system](#1-the-system)
- [2 Modules and how they correspond to the code](#2-modules-and-how-they-correspond-to-the-code)
- [3 Runs](#3-runs)
- [4 Proofs](#4-proofs)
- [5 Disagreements between code and documentation](#5-disagreements-between-code-and-documentation)
- [6 Not modelled](#6-not-modelled)
- [7 Further work](#7-further-work)

To parse, check and prove: `tlasany M.tla`, `tlc -config X.cfg M`, `tlapm M_proofs.tla`.

## 1 The system

### How the parts interact

`cl_51core::do_inst` (uc51.cc) is the only scheduler. Each pass of its loop runs
one instruction, ticks every hardware element in the order of `mk_hw_elements`
(timers 0 and 1, CC2530 timer 1, MAC timer, timers 3 and 4, USARTs, DMA, flash,
radio, serial line, ports, interrupt controller), then looks for an interrupt and
then for idle or power-down mode. There are no threads. What is concurrent is the
simulated hardware: each element is a state machine that advances by one tick per
pass and is written, in between, by the program, by other elements and by the
operator.

The elements meet in four ways:

- **SFRs.** An element registers as an operator of a memory cell; a write by the
  program calls its `write` hook before the cell takes the value. `cell->set` and the
  reset of the chip change cells *without* calling hooks.
- **Partners.** `make_partner` links elements, and `happen` passes an event: the
  timers, the USARTs and the radio send the DMA controller its triggers. The timers
  have events for the command strobe processor of the radio too, but that is not in the
  list of hardware `make_partner` searches, so they reach nobody; the MAC timer counts
  down the processor's time-out CSPT by writing the cell.
- **Request bits.** Elements set bits in TCON, IRCON and others; `do_interrupt` reads
  them in the polling order of `it_sources`.
- **Memory.** DMA, radio and USARTs read and write XDATA, whose addresses are routed
  by decoders and by MEMCTR. XDATA 0x7080 to 0x70FF *are* the SFRs, with their hooks (mem.cc:1140), so a byte
  the DMA controller moves in its tick (CC2530DMA.cc:228) can be a write to a register, of the core
  and of the controller itself too.

### Inventory

| component | state it keeps | operations | what is hard | what makes it correct |
|---|---|---|---|---|
| 8051 core: loop and interrupt controller (`uc51.cc`, `interrupt.cc`, `itsrc.cc`, `jmp.cc`, `port.cc`) | stack of levels in service, `was_reti`, power state, IE/IP/request bits | instruction, tick, accept, RETI, idle and power-down, reset | a request may appear between any two steps; skip after RETI; IP rewritten during service; idle against request; bytes the DMA moves into IE and PCON in the middle of a pass | levels nest; one instruction after RETI; level 1 preempts level 0; no request lost; no instruction makes the core sleep on a request; service eventually |
| DMA controller (`CC2530DMA.cc`) | per channel: state, `armed`, `triggered`, counts; DMAARM, DMAREQ, DMAIRQ, IRCON.DMAIF | arm, trigger by software or element, load, transfer, disarm, reload, reset | triggers while loading or moving; re-arming; ABORT; length 0; bytes moved into its own registers | arming heard; triggers of a session kept; exact number of elements before the flag; blocks complete |
| Address spaces, chips, decoders (`mem.cc`, `cmdmem.cc`, `uc51r.cc`) | sorted list of decoders, data pointers of cells, operators on cells | activate (undecode, split, shrink), console command, AUXR hook, set and delete event breakpoints | two representations updated separately; inactive decoders; operators that hold old pointers | areas disjoint; cells follow the list; mapping an area moves no other address |
| Timers 3 and 4 and the timers' base class (`CC2530timer*.cc`) | count, mode, direction, compare values, countdown to the next compare event, pins | four counting modes, schedule, compare, capture, register writes | the countdown is computed ahead and may be stale; signed chars; the ends of the range | no match missed; overflows for ever |
| Timer 1 (`CC2530timer1.cc`) | as above, five channels of 16 bits written by halves | as above | half-written compare values | no match missed |
| MAC timer (`CC2530timer2.cc`) | count, overflow count, compares, multiplexed registers | latch, multiplexed writes | reading a value over two registers | consistent halves |
| Radio and command strobe processor (`CC2530Radio.cc`) | program, `PC`, `PCwrite`, `csp_stop`, CSPSTAT, CSPT; strobes STXON and SRXON; FSM state, its timer, SFD, FIFOs | RFST commands and loads, instructions, time-out, ticks of the FSM, shut-down, reset | `csp_stop` and CSPSTAT written apart; a strobe in the middle of a frame; waits without end; CSPT reaching 0 between ticks | CSPSTAT never says "running" of a stopped processor; strobes heeded before the next byte; calibration ends; the time-out stops the processor |
| Flash controller (`CC2530flashCtrler.cc`) | FADDR, the address taken from it, the pointer to a bank, the word being collected, counts of writes per page and word | writes of FADDRH, FADDRL, FCTL, FWDATA; page erase, word write; reset | address and pointer kept apart from FADDR and used much later; the pointer set by two paths | words go where FADDR says; an erase touches one page; counts agree with the contents |
| USARTs (`CC2530usart.cc`) | shift registers and bit counts, one-byte queue, UxCSR with ACTIVE, UxUCR, rate | bit in, bit out, UxDBUF, UxCSR, UxUCR, UxBAUD, reset | one buffer and one ACTIVE for two directions; the frame changes while a byte is on its way | bytes leave in order, once each; a reception ends with its frame; a transmission ends |
| CC2530 memory map (`mem.cc`, `uc51.cc`) | MEMCTR, FMAP, banks | bank switch, mirrored registers | a stale bank | reads and writes agree |
| Breakpoints and events (`brk.cc`, `uc.cc`) | lists of breakpoints, hit counts | set, delete, hit | deletion while iterating | hits counted once |
| Stack tracking (`stack.cc`, `uc.cc`; `jmp.cc`, `mov.cc`) | list of writes still on the stack, errors | call, push, interrupt, return, pop, POP SP, reset | SP written directly or wrapping; reads that take several writes away | list is the program's stack; no error for a disciplined program; services in `it_levels` have their frames |
| Simulator clock (`uc.cc`), ports (`port.cc`), partner bus (`hw.cc`) | counters, pins, lists | tick, pin change, relay | – | – |
| Timers 0–2, serial line, PCA, watchdog of the 8051 | counters, request bits | tick, register writes | reload and overflow in one tick | – |
| Instruction set | registers, memory | one per opcode | – | – |
| Simulation driver (`s51.cc`, `sim.cc`) | two simulators | start, stop, lock step | the order of the two nodes | – |
| Sleep timer and watchdog of the CC2530 | – | – | no object of these classes is ever created | – |
| Consoles, application, options, errors; other CPUs; GUI; libltdl | – | – | – | – |

## 2 Modules and how they correspond to the code

Eight components are modelled. Each has a module, an MC module for TLC and a module of
proofs; four abstract specifications say what a component promises.

| module | stands for |
|---|---|
| `Core51` | `cl_51core::do_inst`, `do_interrupt`, `accept_it`, `idle_pd`, `cl_interrupt`, RETI |
| `NestedService` | the promise of `Core51`: levels in service nest strictly |
| `DMA` | `cl_CC2530_dma` and its channels |
| `TransferSessions` | the promise of `DMA`: exactly the announced elements, then the flag |
| `AddressDecoders` | `cl_address_decoder`, `cl_address_space`'s list, data pointers and operators of `cl_memory_cell` |
| `AddressMap` | the promise of `AddressDecoders`: mapping an area decides its addresses and no other |
| `CompareTimer` | `cl_CC2530_timer<char>`, `cl_CC2530_timer3`, `cl_CC2530_timer4` |
| `CommandStrobes` | `cl_CC2530_CSP` and the reachable part of `cl_CC2530_radio`'s state machine |
| `Flash` | `cl_CC2530_flash_ctrler`, and the window of XDATA on flash |
| `StackTracker` | `cl_uc::stack_write`, `stack_read`, the `cl_stack_op` classes, and the 8051 instructions that call them |
| `Usart` | `cl_CC2530_usart` |
| `TransmitQueue` | the promise of `Usart`'s transmitter: a queue of two bytes |
| `MC…` | instances for TLC |
| `…_proofs` | theorems |

The modules meet where the components do. A request bit any of them sets is the set of
requests `PostInst` of `Core51` raises; the events in `informed` of `Usart` are triggers `Happen`
of `DMA` takes; the services `Core51` counts are the `it_levels` of `StackTracker`; the overflow
of the MAC timer is the argument of `Tick` in `CommandStrobes`. Each module leaves the other side
free to do what it likes at the moments the code's loop allows. Between two ticks of an element these are the writes of the
program and of the operator, and those of the DMA controller. `Core51` and `DMA` are the two in whose middle a
moved byte can fall: the core's pass goes on after the DMA's tick, and the controller's own tick is under way. They have
actions for it (`DmaMoves`, `ByteToRegister`). The other elements finish a tick before or begin it after the DMA's, so for them a moved
byte is one more write between two ticks. `Tick` of `CommandStrobes` begins with the MAC timer,
ticked before the DMA, and goes on with the radio, ticked after it; a byte moved in between into RFST is the command before
that tick, and one moved into CSPT is the write followed by a tick without overflow.

Definitions with a suffix after an underscore that another definition of the same stem
follows (`Sooner_Latest`, `ExecReti_PopsBase`, `Last_TooLate`) are deliberately wrong
variants. Nothing uses them in a run: substituted for the definition they precede,
each makes a property fail, which shows that the property says something about the
code. `PROJECT.json` pairs them under `mutants`.

### Core51

One pass of `do_inst` is three steps. `phase` is where the loop stands: `"fetch"` (the
instruction, `Exec…`), `"post"` (`DmaMoves`, any number of times: the DMA writes a register of the core through
XDATA; then `PostInst`, in which ticked elements raise any set of
request bits), `"irq"` (`SkipInterrupts`, `NoInterrupt`, `WakeUp` or `Accept`, each with the
`idle_pd` that follows in the code; `accept_it` ends the pass without it). `it_levels` is
the stack of `it_level` objects, `was_reti` the flag RETI and writes to IE set. What a write to a register does
is one operator for both writers (`WriteIEN0`, `WritePCON`, ...); `moved` is a history variable: whether the DMA wrote IE or PCON
since the last interrupt check. The
program is arbitrary: any instruction may come next. `Reset` and `SetPin` are the
operator between two passes; `ExecStop` is an instruction that stops the loop at a
breakpoint.

Abstracted: the other instructions, the contents of the stack of the 8051, clock counters.
Priorities follow `it_priority`, which knows the two levels of IP.

### DMA

`tabDMACh[i]` is channel i with the fields of the class. `turn` says which channel's
`StateTrans` the tick reaches next; at `turn = N` the program executes an instruction.
Each state of the `switch` in `StateTrans` is an action. `Happen` is the event of a
peripheral, at the places of the tick where elements before and after the
controller run, and while a channel moves, for a byte read from or written to a peripheral's register may make it send its event. `ByteToRegister`
is a byte that lands in DMAARM, DMAREQ, DMAIRQ or IRCON: its hook runs in the middle of the step that moves it. `arming` is a
history variable: the idle channels the last instruction has armed and no moved byte has disarmed since. Descriptors are arbitrary at each load. The addresses `s` and `d`
are represented by `moved`, how far they are from where they started; whether an
element is a byte or a word makes no difference to the state machine.

Abstracted: bytes, increments and priorities of descriptors; an operator's direct writes to the
registers.  In power-down no element is ticked, which is a stutter.

### AddressDecoders

`decoders` is the list, `cells[a]` the place the data pointer of the cell at `a` points to
(a slot of a chip, or `Own`, its private byte), `operators` the data pointers that
operators have copied. `Activate(n)` is `activate` with everything it calls:
`undecode_area`, the removal, shrinking and splitting of older decoders, the
activation of a split-off right half, `decode_cell`. A cell that is decoded frees its private
byte, hence `Freed`. `MakeMemories` is the start-up, with any one of `Startup` or none.

Abstracted: the list is taken as a set, and the walk by index over the list
that changes under it is taken as done for every decoder at once; the values in
cells; fetch breakpoints. A console command the checks refuse changes nothing and is a stutter.

### CompareTimer

`count`, `mode`, `up_down`, `NextCmpEvent`, `ValRegCMP` and the cells `RegCTL` are the
fields of the class; numbers are the unsigned residues of signed chars, `Signed` gives
the number the code compares. `get_next_cc_event` is the schedule; the four actions
`Count…` are one turn of the loops of `do_FreeRunningMode`, `do_DownMode`,
`do_ModuloMode` and `do_UpDownMode`, each with the `CaptureCompare` and the new schedule
it may make. `fresh` is a history variable: a schedule has been made since the last
write to a control cell. The bit CLR of TxCTL has no effect in the code (`(*val & 4) == 1`), and
the reset of the chip clears cells behind the timer's back, so the timer runs on.

Abstracted: the request bits TIMIF and IRCON (in `Core51` any source may request at any
tick), the prescaler (a count is a step; how many ticks it takes is not), the cell TxCNT,
a mirror of the count.

### CommandStrobes

A `Tick` is a pass over the hardware: the MAC timer may have overflown and counted down `cspt`, the
radio's `fsm` makes its step with the strobes it finds, and the processor's `CSP_tick` executes one
instruction of `prog` or stops on `cspt = 0`. The other actions are the hooks of RFST (`Command`
executes at once, `PC` and all; `Load` stores; `ISClear`) and CSPT, and the reset of the chip, which
reaches the radio only. `csp_stop` is the flag the processor obeys, `running` the bit of CSPSTAT the program
sees. An instruction of the model stands for all that do the same to `PC`, the flags and the strobes: `SNOP` for the
interrupts, flushes and arithmetic, `SACK` for the waits for an answer, `WAITX` for the wait on CSPX,
`SKIP` for the conditional skips.

Abstracted: the bytes of a frame (`doTX` either goes on or meets the end), the FIFOs, the interrupt flags.
Left out because nothing reaches it: the receiver. `rxEnable` is set in one place only, under a flag nobody
sets. Left out because the code follows a null pointer or jumps to a label nobody set: STXON inside a
program, REPEAT, and a skip past the last slot.

### Flash

FADDR is a record of bank, page in the bank and word; `faddrh` and `faddrl` are the cells, `address` and
`flash` what the controller took from them (the second is the pointer to a bank). `WriteFADDRH` and `WriteFADDRL` are the
`write` hooks, `WriteFCTL` does what the bits ERASE and WRITE ask for in this order, `WriteFWDATA` collects a byte and calls
`flashWrite` at the last. `WriteXData` is a MOVX above 0x8000, which changes flash behind the controller's back.
`Reset` clears the SFRs and the controller's fields, not FADDR (an XREG) and not the pointer. `aimed` and `strayed`
are history variables: what set the pointer last, and whether contents and counts have come apart.

Abstracted: the values of bytes (a word is erased, programmed or written otherwise), the lock bits, which nothing reads, and the
timing, which only decides a message.

### StackTracker

`SP` is the register, `stack_ops` the tracker's list with the SP before and after each write, `errors` the
errors of the last instruction. Each action is an instruction with the call of the tracker it makes: `Write`
(CALL, PUSH, and `accept_it` as `Interrupt`), `Read` (RET, RETI, POP), `PopSP`, which the tracker takes for a read to the
SP left in the end, and `WriteSP`, of which it is not told. `Kept` is the loop in `stack_read` with
`can_removed`. `frames`, `disciplined` and `straight` are history variables: what the program has really put on its
stack, and whether it has kept to a discipline since the reset.

Abstracted: the addresses and data kept for messages.

### Usart

`BaudTick` is one bit time: `Shift_in` and `Shift_out` in the order of the mode, and ACTIVE as both leave it. The
line never rests, for the receiver reads it from a table of test bits (`testTab`). The other actions are the
`write` hooks and the reset, which leaves the shift registers. A byte is a value, or `Line` when the receiver
has shifted into the buffer it shares with the transmitter's queue. `forced`, `steady` and `alone` are history
variables: ACTIVE was set by the program, UxUCR has not changed during the reception, nothing but the transmitter is at work.

Abstracted: parity and error bits, and the rate, of which only whether it is 0 counts.

## 3 Runs

| run | checks | instance |
|---|---|---|
| `core` | TypeOK, LevelsIncrease, OneInstructionAfterReti, HighPreemptsLow, RequestsKept, NeverSleepsOnRequest, ImplementsNestedService, RequestInterruptsMain, PowerDownReached | two sources: a pin and timer 3, with priorities of their own; fairness |
| `dma_sessions` | TypeOK, ArmIsHeard, TriggersKept, ImplementsTransferSessions, BlockCompletes, TriggerServed | two channels, a repeated block of up to 2 and single transfers of 2, fairness |
| `dma_abort` | AbortDisarms (violated) | one channel, the same descriptors |
| `strobes_safety` | TypeOK, NoFrameWhileStrobed, CalibrationEnds, TimeoutStops | programs of two instructions, time-outs of 1 and 2 overflows, up to two overflows a tick, calibration of two ticks, fairness |
| `flash_safety` | TypeOK, FollowsFADDR, CountsTellContents, HitsAfterErase, NeighboursKept | three banks of two pages |
| `flash_bank` | WordsLandAtFADDR (violated) | four banks of one page of two words |
| `mem_safety` | TypeOK, DecodersDisjoint, CellsFollowDecoders, OnlyItsAreaMoves | four addresses from 1 on, two chips, four kinds of start-up decoder |
| `mem_sram` | ImplementsAddressMap (violated) | five addresses |
| `stack_safety` | TypeOK, MirrorsFrames, AscendingBelowSP, ServicesOnStack | an SP of eight values, up to five operations in the list |
| `timer_schedule` | TypeOK, MatchesCompared, Settles, KeepsOverflowing | a timer of three bits, two channels, fairness |
| `usart_safety` | TypeOK, RxWithinFrame, ImplementsQueue, TransmissionEnds | two bytes of two bits, fairness |
| `usart_stall` | ReceptionLeavesTransmission (violated) | the same |

### Bounds and why they are enough

- **Core51.** With priorities 0 and 1 the stack has at most three entries, whatever the number of
  sources. What the properties ask is about one request and a rival, so two sources are enough: either may have the higher priority, stand
  earlier in the polling order and be requested again while it is served. One is raised by a pin, in edge or level mode.
  IEN0 and the other enable registers differ in `was_reti`, so both have bits.
- **DMA.** `N = 2` has one channel before and one after any other in the tick, so an event,
  a write or a moved byte can fall on either side of a step. The block's first byte makes it 0, 1 or 2 elements long, which covers the
  count that is decremented below 0, the one that ends at once and the one that goes on; the single transfer can be let
  go on by an event or has to wait for one.
- **AddressDecoders.** An area can split another into three parts only if that has three addresses;
  four and five addresses leave room for a neighbour and for a second split of a part. The second chip is
  shorter than the space (one cell), so decoders run past their chip. Spaces start at 1, so that an address
  and an offset differ, as in the flash banks, which start at 0x8000. A run
  mixes the start-up decoders of several spaces and AUXR, which in the program are
  different spaces; each behaviour has one start-up decoder at most.
- **CompareTimer.** With `Half = 4` a char has three bits: distances 1–3 are positive, 4–7
  negative, of which 7 is the initial -1. All relations the signed comparisons can
  tell apart occur. The values 2 and 6 (2 and 7) lie in different halves; capture and compare channels mix.

- **CommandStrobes.** `ProgLen = 2`: a program can wrap, wait, and be overwritten where it runs and elsewhere.
  `Top = 3` leaves two armed values of CSPT, so that it is decremented both to 0 and to something else.
  `CalTicks = {2}` is the shortest time a later tick can find not yet over.
  `MaxOverflows = 2`: the MAC timer counts every cycle of an instruction, so with a short period it overflows several times in one tick;
  with two, a 0 can be passed unseen and an armed time-out lost, which is all that more of them can do.
- **Flash.** Three banks are the least at which half a bank's number differs from the number for a bank other
  than the last, and two pages give a page neighbours; `flash_bank` has four so that two banks fall on one. A word of two
  bytes can be half-collected. `MaxWrites = 1` and `MaxHeld = 2` bound how often a page is
  programmed and how many words hold something at once: a word that strayed and one that did not.
- **StackTracker.** With `Size = 8` and `Base = 2` the SP wraps both ways within the list's length. `MaxOps = 5` bounds the list;
  a program that has left both disciplines, about which nothing is promised, only needs the
  list empty and not empty (`MaxStray = 1`). `MaxLevels = 2` is the number of levels the priorities allow.
- **Usart.** `DataBits = 2`: a frame is of four to six bits, and all comparisons of counts with lengths come
  out both ways. `MaxRxCnt = 6` stops a reception that has missed its end, which in the code counts on for ever.

`MaxWrites`, `MaxHeld`, `MaxOps`, `MaxStray`, `MaxRxCnt` bound what the code does not, and `MaxOverflows` what the code bounds by the cycles of an
instruction; each is a constant used in a guard, and the proofs hold for every value of it. In the other modules nothing needs a bound:
`moved` and `TransferCount` are bounded by the lengths of the descriptors, the stack by the levels, counts by the width.

Deadlock is checked in every run: the program can always execute an instruction, the operator
map an area.

### Fairness

- **Core51** (`LoopFairness`): the loop goes on, so a step that is due is taken (WF of
  `IdleCycle`, `PostInst`, `Interrupts`). SF of `ExecPlain` says that a program does not consist of
  writes to SFRs and RETIs alone: a loop contains a jump. Nothing is assumed of the peripherals
  or of what the program does with requests. A byte moved into IE sets `was_reti`, and a DMA channel that does so in every pass keeps every
  check from being made: RequestInterruptsMain says itself that this does not go on for ever.
- **DMA**: WF of the program's step at `turn = N` and of the tick's steps: both are parts of a loop that goes on.
  No event is assumed to happen.
- **CompareTimer**: WF of `Count`: elements are ticked after every instruction and a started
  timer counts on one tick out of `prescale`.
- **Usart**: WF of `BaudTick`, as elements are ticked after every instruction and a rate other than 0 makes every
  so-many-th tick a bit time.
- **CommandStrobes**: WF of `AnyTick`, for the same reason, and of `OverflowTick`: the MAC timer runs, without
  which no time-out ever comes. Nothing is assumed of the program; TimeoutStops says itself that in the end it leaves an armed CSPT alone.

### What the runs show

In all the passing runs the properties hold, under any program and any moment of any
event. Some of what they say is easy to doubt when reading the code:

- The stack of levels stays strictly ascending although `do_interrupt` compares with the level stored at
  acceptance while software rewrites IP (LevelsIncrease).
- PowerDownReached: `accept_it` skips `idle_pd`, yet requests cannot keep the core
  awake for ever, because levels bound the acceptances in a row.
- NeverSleepsOnRequest: the instruction that sets PCON.IDL cannot race with a request, for its own pass looks at the requests
  before `idle_pd`. A byte the DMA moves into IE in that pass makes the check be skipped, and the core then sleeps on the request,
  until the next pass wakes it; the property names these passes instead of hiding them.
- ArmIsHeard: `armed` is overwritten by every write to DMAARM, but the tick after the arming
  instruction comes before the next instruction. Only a channel that moves a byte into DMAARM in that tick comes between.
- TriggersKept holds of a session under way, and promises no trigger its transfer: one still set when the session ends (it came
  during the moves of a block, or let a single transfer go on) is wiped when the channel loads again.
- A DMA channel with a count of 0 moves one element and then stops (ImplementsTransferSessions).
- MatchesCompared: the timer does not look at its channels on each count, and signed distances make
  the schedule wrong for far channels, yet channel 0's matches in free-running and
  up/down mode, and both channels' in modulo mode with a near TxCC0, are never
  missed; Settles: in free-running mode the others are only missed at first.
- KeepsOverflowing: with TxCC0 below the count or 0 too.
- MirrorsFrames: the tracker decides what a read takes away by comparing stack pointers, yet for a
  disciplined program its list stays the program's stack even when SP wraps round.
- AscendingBelowSP: for a program that returns and pops in any order the list holds nothing of frames that are gone.
- FollowsFADDR and HitsAfterErase: no order of register writes, erases and half words
  makes the controller use an older address; the pointer is right after an erase, in every bank.
- ImplementsQueue: whatever software does to UxUCR and UxCSR in the middle of a byte, bytes leave in order and once each; only the
  byte that waits can be spoilt by the receiver.
- TimeoutStops: whatever the program of the processor waits for, and however often it is restarted by command, as long as software leaves
  an armed time-out alone and its 0 is not overrun. It is overrun when a second overflow falls into the same tick; the time-out is then lost.

## 4 Proofs

TLAPS proves, for all values of the constants that satisfy the named assumptions:

| module | theorem | says |
|---|---|---|
| `Core51_proofs` | TypeCorrect, LevelsAlwaysIncrease | the inductive invariant |
| | NestedServiceImplemented | Core51 implements NestedService |
| | OneInstruction, RequestsAreKept, HighAlwaysPreempts, NeverSleeps | its action properties |
| | MainIsInterrupted, PowersDown | its liveness properties, under FairSpec and `[]LoopNeverBlocks` |
| `DMA_proofs` | TypeCorrect, ArmAlwaysHeard, TriggersAlwaysKept | for any number of channels and any descriptors |
| | TransferSessionsImplemented | DMA implements TransferSessions |
| | BlockAlwaysNears | no step but its own, or a reset, disturbs a block under way, and its own bring the end nearer |
| | TriggersAreServed | a trigger is served if the tick comes round to each channel, for any number of channels |
| | ChipServesTriggers | with `N = 5`, as in the chip, FairSpec and `[]LoopNeverBlocks` bring it round |
| `AddressDecoders_proofs` | TypeCorrect, AlwaysDisjoint, CellsAlwaysFollow, OnlyTheAreaMoves | for any space, chips and start-up decoders |
| | AddressMapImplemented | AddressDecoders implements AddressMap if no start-up decoder sleeps (`StartupFits`) |
| `CompareTimer_proofs` | TypeCorrect, MatchesAlwaysCompared | for a char of any width |
| | OverflowAlwaysNears | an overflow is at most two turns of the range away and strictly nearer after each count |
| | SettledForGood | one compared match settles free-running mode for good |
| | SettlesWhenCompared | Settles, if matches are compared again and again |
| `CommandStrobes_proofs` | TypeCorrect, AlwaysRunningMeansGoing, FramesWaitForStrobes | for programs of any length, any time-out and calibration |
| | CalibrationAlwaysNears | each tick brings the end of a calibration nearer |
| | TimeoutAlwaysNears | overflows take an armed time-out down, to 0 only by stopping the processor; only an overflow after the 0 in one tick turns it off |
| `Flash_proofs` | TypeCorrect, FollowsAlways, NeighboursAlwaysKept, AlwaysHitsAfterErase, CountsAlwaysTell | for any number of banks, pages and words |
| `StackTracker_proofs` | TypeCorrect, AlwaysMirrorsFrames, AlwaysAscending, AlwaysServicesOnStack | for an SP of any width and a list of any length |
| | AlwaysFits | while SP neither wraps nor is written the list is no longer than SP is high |
| `Usart_proofs` | TypeCorrect, AlwaysWithinFrame, AlwaysWork | for bytes of any length |
| | TransmitterIsQueue | Usart implements TransmitQueue |
| | TransmissionAlwaysNears | each tick brings the end of a byte sent alone one bit nearer |
| | BytesAreSent | with `DataBits = 8`, as in the code, FairSpec and `[]TransmitterTicks` imply TransmissionEnds |

**Core51.** `IInv = TypeOK /\ LevelsIncrease`. That levels increase is inductive because a source
is accepted only if it outranks the top, and RETI removes the top but never the
base; TypeOK needs the base to stay, so the two are proved together. Two more
invariants connect steps of one pass: `RetiInv` (after RETI or a write to IE, `was_reti` is set until the
interrupt step) for OneInstruction, and `PassInv` for NeverSleeps: a check is skipped in a pass that executed RETI, wrote IE, or in which
the DMA did, and IDL is set in state GO only by this pass's instruction or by the DMA. The refinement maps
the stack to the set of its levels without the base.

**DMA.** `IInv = TypeOK /\ ArmInv /\ CountInv`. `ArmInv` says of each channel in `arming` that it is idle and armed if
the tick has not reached it yet, and loads if it has; `CountInv` that a channel in a session has a count left to move, or has moved
nothing of a count of 0. Both are needed to show that a step
maps to one Start, Move or Finish.

**AddressDecoders.** `IInv = TypeOK /\ DecodersDisjoint /\ CellsFollowDecoders /\ AreaFits`. The
proof describes what remains of one decoder (`RemainsFacts`, `RemainsDisjoint`,
`RemainsCover`), then the list after an activation, then the cells. The refinement additionally needs
`NoSleepers`, which an activation preserves.

**CompareTimer.** `IInv = TypeOK /\ ScheduleInv`: while the schedule is fresh, the countdown is not
0 and is not later than the distance to the matches promised. A step that reschedules
establishes it by `ScheduleIsEarly`; one that does not reduces countdown and distance together.

**CommandStrobes.** `IInv = TypeOK /\ SkipsFit /\ RunningMeansGoing /\ TransmitterOn`. `SkipsFit` (a skip in the
program has two slots behind it) keeps `PC` in the program, which TypeOK needs; `TransmitterOn` (a radio
that is not idle has TX_ACTIVE) makes SRXON end a frame in the tick it is seen.

**Flash.** TypeOK and FollowsFADDR are inductive together. HitsAfterErase is FollowsFADDR
at the moment the last byte of a word arrives; NeighboursKept needs only what each step touches
(`WhatAStepTouches`). CountsTellContents goes page by page: an erase clears what it counts (`EraseTells`), a word
that does not stray sets both (`ProgramTells`).

**StackTracker.** How many operations a read leaves is a CHOOSE; `KeptUnique` and `KeptLeavesOff` show that there is exactly one
answer and what it is. `MirrorInv = TypeOK /\ Sized /\ MirrorsFrames`, where `Sized` says that each operation spans its
size modulo that of SP: with it a matching read takes exactly the topmost frame (`MatchingRead`), wrapped or not.
`AscendingInv` adds `Rising`. ServicesOnStack counts the frames of services in the
mirrored list (`WriteServices`, `ReadServices`).

**Usart.** RxWithinFrame and ActiveMeansWork are inductive beside TypeOK. The refinement uses `QueueInv`
(a byte waits only behind one that is sent) and splits a `BaudTick` by whether a byte ends and
whether the receiver shows a bit in the buffer (`TickImplements`).

### Progress and liveness

The prover treats ENABLED as unknown and cannot use induction over a number in a temporal proof. What it can do
is follow a fair loop through finitely many places, and that is how liveness is proved here.

- **ENABLED is a hypothesis, stated as a property.** `LoopNeverBlocks` (Core51, DMA) and `TransmitterTicks` (Usart) say
  that the step that is due can be taken. They are implications with ENABLED on the right, which
  TLC found to hold in every state of `MCCore51`'s, `MCDMA`'s (`N = 2`) and `MCUsart`'s instances; the theorems assume
  `[]` of them and nothing else beside FairSpec.
- **Core51.** A pass has the places fetch, post and irq, each with the flags that decide what comes next
  (`InPost`, `InCheckOpen`, ...). MainIsInterrupted follows a request from each place to the first check that
  is not skipped; only there does SF of `ExecPlain` matter, since a program of RETIs alone would skip all
  of them. PowersDown goes by the depth of the stack: a pass that does not look at PCON has accepted an interrupt, so the
  stack has grown, and it has at most three entries (`StackShape`). A RETI that makes it smaller skips the check and
  looks at PCON in its own pass. That depth is also why `MaxLevels = 2` is enough in `StackTracker`.
- **DMA.** A waiting channel keeps its trigger until its own step (`WaitingStep`). That the tick comes
  round is proved for the five places of the chip's loop and the instruction (`FiveRound`).
- **Usart.** A byte of eight bits has places 0 to 11, the bits already sent (`BitsGo`). `alone` keeps ACTIVE set (`AloneInv`).
- **CompareTimer.** `Settled` says that the countdown ends at the nearest match of the enabled channels, or one
  count before a match they all share, where the schedule is renewed. One compared match makes it true, each
  count keeps it, and in a settled schedule no match is missed.

The theorems whose names end in Nears are the measure of a liveness property: a number that every fair step makes smaller
and no other step makes larger. OverflowAlwaysNears stands for KeepsOverflowing, BlockAlwaysNears for BlockCompletes,
CalibrationAlwaysNears for CalibrationEnds, and TimeoutAlwaysNears for TimeoutStops, for all values of the constants. What is missing from these
four is that fair steps keep coming, as in the theorems above, and the last step, that a natural number does not decrease for
ever, which is induction.

The formulas OverflowNears, SettlesForGood, BlockNears, CalibrationNears, TimeoutNears, TransmissionNears and ListFits
belong to no run, which check the liveness properties themselves. TLC found them to hold on
instances of the same size, TimeoutNears with `MaxOverflows = 2` and `Top = 4`, and the timer's
with `Half = 4`.

### Assumptions, and what is not proved

The assumptions (`SourcesAssumption`, `DMAAssumption`, `AddressDecodersAssumption`, `TimerAssumption`,
`StrobesAssumption`, `FlashAssumption`, `StackAssumption`, `UsartAssumption`) only type the constants; TLC
evaluates each on the instances of the runs. Two theorems name a value of a constant, which is the code's
(`N = 5`, `DataBits = 8`).

Proved and in no run, beside the formulas above: RunningMeansGoing, ActiveMeansWork (TLC agrees with both), and AddressMapImplemented, whose
property `mem_sram` refutes when a start-up decoder does sleep.

Only model-checked: BlockCompletes, KeepsOverflowing, CalibrationEnds and TimeoutStops, whose last step is an induction; that
matches are compared again and again (the hypothesis of SettlesWhenCompared); the ENABLED
formulas; and the violated properties.

## 5 Disagreements between code and documentation

Each is a run that TLC must find violated, with the text quoted in `PROJECT.json`.

| run | the code | the text |
|---|---|---|
| `mem_sram` | sram's decoder is one address too long, stays inactive, and pieces of it come to life later | doc/cmd_memory.html:186 |
| `flash_bank` | a write to FADDR selects half the bank's number, so words for banks 1 to 7 land in banks 0 to 3 | CC2530flashCtrler.cc:156 "flashbank number already selected when address is written to faddr registers" |
| `dma_abort` | ABORT clears `armed`, which only an idle channel reads: one that is armed or moves elements goes on | CC2530DMA.cc:434 "Disarm every channel" |
| `usart_stall` | the end of a reception clears the ACTIVE both directions share, and a byte on its way stops between two bits | CC2530usart.cc:210 "active for tx" |

Other oddities that reading the code shows, which the modules reproduce and no run is about: a byte the DMA moves into IE makes the core
skip an interrupt check, as a write by the program does; the trigger that lets a single transfer go on stays set and moves all remaining elements; a trigger left over from a session is wiped by the next load; a time-out of the
command strobe processor is lost when the MAC timer overflows twice in the tick that would end it, and so is a 0 written to CSPT when it overflows
once; after a reset of the flash controller a word goes to word 0 of the bank selected last; an
operator on a cell keeps its data pointer when the cell is routed elsewhere; "clear on 0" of a
timer channel never happens; a level-1 request can wait behind an earlier level-0 one of the polling order as
long as that is requested again; a command through RFST moves `PC` of a running program; ISCLEAR stores its own
code in slot 0; a reset of the chip leaves the command strobe
processor running, and the first transmit strobe after it finds the timer at 0 and skips the calibration.

## 6 Not modelled

The reasons stand beside each component in `PROJECT.json`. In short:

- **The radio's receiver**, its frame filter and acknowledgements: nothing enables it. Hence also no frame ever
  passes between the two nodes the driver steps in lock step.
- **Timer 1 and the MAC timer.** Timer 1 counts like timers 3 and 4, over 16 bits and five channels; that its
  schedule and half-written compare values keep the promises of `CompareTimer` is not checked. Of the MAC timer only its effect on CSPT is modelled.
- **The memory map**, beyond the window on flash: a write or a read is handed on to one of a few spaces, without
  state of its own.
- **Breakpoints** (lists worked by console commands) and the **8051's own timers, serial line, PCA and
  watchdog**, whose requests are part of `Core51`'s arbitrary ones.
- **Nothing to check:** the simulator's clock (arithmetic on doubles), ports (bit copies), partner
  bus (list search), the instruction set (values), consoles, options and messages.
- **Not reached:** sleep timer and watchdog of the CC2530 are never created; other CPUs
  are not started; GUI and libltdl are not part of the simulator.

The other CPUs, the consoles, the GUI and libltdl are more than half of the implementation, so the lines `map` names
are a small part of them.

Hazards without a property are listed too, with the reason: some lie in components that are not modelled,
others (an operator's write to an SFR during a pass, a list walked by
index while it changes) in detail the present modules leave out.

## 7 Further work

The modules were written in the order in which a wrong step does most harm: the core and its interrupts,
DMA, address decoders, the compare timers, then flash, the stack tracker, the USARTs and the command strobe
processor. What would come next, in the same way (constants with a named assumption, one action per handler, an
inductive invariant checked by TLC before it is proved):

1. `Timer1`: five channels over `CompareTimer`'s modes, compare values written by halves
   (`CC2530timer1.cc:288`); the MAC timer's latches and multiplexed registers.
2. A composition of `Usart` and `DMA`: a byte per request.
3. `DecoderWalk`: the list of decoders walked by index, refining `Activate` of `AddressDecoders`.
4. The receiver of the radio, and two nodes, once something in the code enables it.
