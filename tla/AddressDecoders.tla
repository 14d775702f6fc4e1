-------------------------- MODULE AddressDecoders ---------------------------
(***************************************************************************)
(* The address decoders of one address space (mem.cc): cl_address_decoder, *)
(* the cells they point at slots of memory chips, and the operators that   *)
(* hardware and event breakpoints hang on cells.                           *)
(*                                                                         *)
(* A decoder maps an area of the space to an area of a chip. Activating a  *)
(* new one first undecodes its area: the decoders it overlaps disappear,   *)
(* shrink, or are split in two, and the right half is activated again. The *)
(* whole is one step, for it runs inside one command or one write to AUXR. *)
(***************************************************************************)
EXTENDS Integers

CONSTANTS
  Start, Size,      \* the space: start_address and size
  Chips, ChipSize,  \* the memory chips and the size of each
  Startup,          \* the decoders make_memories may create for the space
  AuxrChips,        \* the chips AUXR chooses from (xram of the 89C51R), or none
  EramEnd,          \* the last address of the area AUXR maps
  HwCells,          \* the cells hardware elements register at
  Brks,             \* event breakpoints
  Hw,               \* a hardware element
  Own,              \* the place a non-decoded cell has malloc'ed for itself
  Freed             \* such a place after it was freed

Space == Start .. Start + Size - 1
Slots == {s \in Chips \X Nat : s[2] < ChipSize[s[1]]}

Decoder == [chip : Chips, as_begin : Nat, as_end : Nat, chip_begin : Nat,
            activated : BOOLEAN]

ASSUME AddressDecodersAssumption ==
  /\ Start \in Nat /\ Size \in Nat \ {0}
  /\ ChipSize \in [Chips -> Nat \ {0}]
  /\ Startup \subseteq Decoder
  /\ \A d \in Startup : ~d.activated /\ d.as_begin <= d.as_end /\ d.as_begin >= Start
  /\ AuxrChips \subseteq Chips /\ EramEnd \in Space
  /\ \A c \in AuxrChips : EramEnd - Start <= ChipSize[c]
  /\ HwCells \subseteq Space
  /\ Own \notin Slots /\ Freed \notin Slots /\ Own # Freed
  /\ Hw \notin Brks

VARIABLES
  decoders,   \* the list of decoders
  cells,      \* the data pointer of each cell
  operators   \* the operators of all cells: by whom, at which cell, and their
              \* own copy of the data pointer

vars == <<decoders, cells, operators>>

Area(d) == d.as_begin .. d.as_end

\* get_slot
Slot(c, i) == IF i < ChipSize[c] THEN <<c, i>> ELSE Own

SlotOf(d, a) == Slot(d.chip, d.chip_begin + (a - d.as_begin))

-----------------------------------------------------------------------------
(* How an existing decoder d gives way to the area from b to e.            *)

fully_covered_by(d, b, e) == b <= d.as_begin /\ e >= d.as_end

covers(d, b, e) == b > d.as_begin /\ e < d.as_end

\* A slip of the kind the overlap test invites: only the first address is tested.
is_in_FirstOnly(d, b, e) == b \in Area(d)

is_in(d, b, e) == b \in Area(d) \/ e \in Area(d)

\* The end of the area is compared with > instead of >=.
Activates_OnePast(d) ==
  /\ d.as_begin <= d.as_end
  /\ d.chip_begin < ChipSize[d.chip]
  /\ d.as_begin >= Start /\ d.as_end <= Start + Size
  /\ d.as_end - d.as_begin <= ChipSize[d.chip] - d.chip_begin

\* The checks of activate that lead to undecode_area.
Activates(d) ==
  /\ d.as_begin <= d.as_end
  /\ d.chip_begin < ChipSize[d.chip]
  /\ d.as_begin >= Start /\ d.as_end < Start + Size
  /\ d.as_end - d.as_begin <= ChipSize[d.chip] - d.chip_begin

CutRight(d, b) == IF b > d.as_begin THEN [d EXCEPT !.as_end = b - 1] ELSE d

\* The area moves up and the chip area stays.
shrink_out_of_KeepsChip(d, b, e) ==
  LET r == CutRight(d, b)
  IN  IF r.as_end > e THEN [r EXCEPT !.as_begin = e + 1] ELSE r

shrink_out_of(d, b, e) ==
  LET r == CutRight(d, b)
  IN  IF r.as_end > e
      THEN [r EXCEPT !.as_begin = e + 1,
                     !.chip_begin = r.chip_begin + (e - r.as_begin + 1)]
      ELSE r

\* One address short.
RightHalf_NoPlusOne(d, e) ==
  LET nd == [d EXCEPT !.as_begin = e + 1, !.chip_begin = d.chip_begin + (e - d.as_begin)]
  IN  [nd EXCEPT !.activated = Activates(nd)]

\* The decoder split makes for what lies above e, after its activation.
RightHalf(d, e) ==
  LET nd == [d EXCEPT !.as_begin = e + 1,
                      !.chip_begin = d.chip_begin + (e - d.as_begin) + 1]
  IN  [nd EXCEPT !.activated = Activates(nd)]

split(d, b, e) == {shrink_out_of(d, b, d.as_end), RightHalf(d, e)}

\* What undecode_area leaves of d, and the cells it un_decodes for it.
Remains(d, b, e) ==
  IF fully_covered_by(d, b, e) THEN {}
  ELSE IF covers(d, b, e) THEN split(d, b, e)
  ELSE IF is_in(d, b, e)
       THEN {r \in {shrink_out_of(d, b, e)} : r.as_begin <= r.as_end}
  ELSE {d}

Undecoded(d, b, e) ==
  IF fully_covered_by(d, b, e) THEN Area(d)
  ELSE IF covers(d, b, e) THEN b .. d.as_end
  ELSE IF is_in(d, b, e) THEN {a \in Area(d) : b <= a /\ a <= e}
  ELSE {}

undecode_area(b, e) == UNION {Remains(d, b, e) : d \in decoders}

\* The right halves that are decoded again on the way.
Redecoded(b, e) == {RightHalf(d, e) : d \in {x \in decoders : covers(x, b, e)}}

-----------------------------------------------------------------------------
(* activate: the decoders, the cells and the operators after the new       *)
(* decoder n. A cell that is decoded while it is not frees its own place.  *)

Decodes(n) == {r \in Redecoded(n.as_begin, n.as_end) : r.activated} \union {n}

DecodedCells(n) == UNION {Area(d) : d \in Decodes(n)}

Activate(n) ==
  /\ Activates(n)
  /\ decoders' = undecode_area(n.as_begin, n.as_end) \union {[n EXCEPT !.activated = TRUE]}
  /\ cells' = [a \in Space |->
       IF a \in DecodedCells(n)
       THEN SlotOf(CHOOSE d \in Decodes(n) : a \in Area(d), a)
       ELSE IF \E d \in decoders : a \in Undecoded(d, n.as_begin, n.as_end)
       THEN Own
       ELSE cells[a]]
  /\ operators' =
       {IF o.data = Own /\ o.at \in DecodedCells(n) THEN [o EXCEPT !.data = Freed] ELSE o
          : o \in operators}

NewDecoder(c, b, e, cb) ==
  [chip |-> c, as_begin |-> b, as_end |-> e, chip_begin |-> cb, activated |-> FALSE]

\* The command memory createaddressdecoder, which refuses the last address of
\* the space: its check says as_end >= highest_valid_address().
CreateAddressDecoder(c, b, e, cb) ==
  /\ e < Start + Size - 1
  /\ Activate(NewDecoder(c, b, e, cb))

\* A write to AUXR of the 89C51R: bit EXTRAM selects the chip.
WriteAUXR(c) == Activate(NewDecoder(c, Start, EramEnd, 0))

set_brk(a, k) ==
  /\ \A o \in operators : o.by # k
  /\ operators' = operators \union {[by |-> k, at |-> a, data |-> cells[a]]}
  /\ UNCHANGED <<decoders, cells>>

del_brk(k) ==
  /\ \E o \in operators : o.by = k
  /\ operators' = {o \in operators : o.by # k}
  /\ UNCHANGED <<decoders, cells>>

\* make_memories creates at most one decoder for the space, valid or not, and
\* then the hardware elements register at their cells.
MakeMemories(given) ==
  /\ decoders = {[d EXCEPT !.activated = Activates(d)] : d \in given}
  /\ cells = [a \in Space |->
       IF \E d \in given : Activates(d) /\ a \in Area(d)
       THEN SlotOf(CHOOSE d \in given : Activates(d) /\ a \in Area(d), a)
       ELSE Own]
  /\ operators = {[by |-> Hw, at |-> a, data |-> cells[a]] : a \in HwCells}

Init == MakeMemories({}) \/ \E d \in Startup : MakeMemories({d})

Next ==
  \/ \E c \in Chips, b \in Space, e \in Space :
       \E cb \in 0 .. ChipSize[c] - 1 : CreateAddressDecoder(c, b, e, cb)
  \/ \E c \in AuxrChips : WriteAUXR(c)
  \/ \E k \in Brks : del_brk(k) \/ \E a \in Space : set_brk(a, k)

Spec == Init /\ [][Next]_vars

-----------------------------------------------------------------------------
\* Decoders, cells and operators have their types; a decoder is never left with
\* an empty area, which shrink_out_of would have removed, and an activated one
\* lies in the space (cl_address_decoder, cl_memory_cell).
TypeOK ==
  /\ decoders \subseteq Decoder
  /\ \A d \in decoders : d.as_begin <= d.as_end
  /\ \A d \in decoders : d.activated => Area(d) \subseteq Space
  /\ cells \in [Space -> Slots \union {Own}]
  /\ operators \subseteq [by : Brks \union {Hw}, at : Space, data : Slots \union {Own, Freed}]

\* No two decoders of the list claim the same address, whatever was split or
\* shrunk before: "enables exactly one memory chip" (doc/memory.html).
DecodersDisjoint ==
  \A d1, d2 \in decoders : d1 # d2 => Area(d1) \intersect Area(d2) = {}

\* What the list of decoders says is what the cells do: an address of an
\* activated decoder is connected to the slot the decoder computes for it, and
\* any other address to no chip. The two are updated separately by
\* undecode_area, decode_cell and the destructor.
CellsFollowDecoders ==
  \A a \in Space :
    /\ \A d \in decoders : d.activated /\ a \in Area(d) => cells[a] = SlotOf(d, a)
    /\ (\A d \in decoders : d.activated => a \notin Area(d)) => cells[a] = Own

\* Mapping an area decides the route of its addresses and moves no other address,
\* although split and shrink undecode and compute chip_begin anew: "Address decoder
\* maps a part of the address space to a chip area" (doc/cmd_memory.html:186).
Map == INSTANCE AddressMap WITH Nowhere <- Own, route <- cells
ImplementsAddressMap == Map!Spec

\* The same for every step from a list whose inactive decoders can never be
\* activated, in whole or in part: they lie outside the space or past the end of
\* their chip, as they do in every space but sram.
NoSleepers ==
  \A d \in decoders :
    \/ d.activated
    \/ Area(d) \intersect Space = {}
    \/ d.chip_begin >= ChipSize[d.chip]
OnlyItsAreaMoves == [][NoSleepers => Map!Next]_cells
=============================================================================
