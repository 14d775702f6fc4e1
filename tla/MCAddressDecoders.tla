------------------------- MODULE MCAddressDecoders --------------------------
(***************************************************************************)
(* A space of four or five addresses from 1 on, two chips, the decoders    *)
(* make_memories creates (whole space, first half, one address too long as *)
(* sram's, outside as flashbank0's), and AUXR choosing for the first two.  *)
(***************************************************************************)
EXTENDS AddressDecoders

CONSTANTS xram_chip, eram_chip

MCChips == {xram_chip, eram_chip}
MCChipSize == [c \in MCChips |-> IF c = xram_chip THEN Size ELSE 1]

MCStartup ==
  {[chip |-> xram_chip, as_begin |-> 1, as_end |-> e, chip_begin |-> 0,
    activated |-> FALSE] : e \in {2, Size, Size + 1}}
  \union {[chip |-> xram_chip, as_begin |-> Size + 1, as_end |-> Size + 3, chip_begin |-> 0,
           activated |-> FALSE]}

MCHwCells == {2}
=============================================================================
