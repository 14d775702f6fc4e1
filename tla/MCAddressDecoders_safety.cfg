SPECIFICATION Spec
CONSTANTS
  Start = 1
  Size = 4
  xram_chip = xram_chip
  eram_chip = eram_chip
  Chips <- MCChips
  ChipSize <- MCChipSize
  Startup <- MCStartup
  AuxrChips <- MCChips
  EramEnd = 2
  HwCells <- MCHwCells
  Brks = {b}
  Hw = Hw
  Own = Own
  Freed = Freed
INVARIANTS TypeOK DecodersDisjoint CellsFollowDecoders
PROPERTY OnlyItsAreaMoves
