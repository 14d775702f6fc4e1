SPECIFICATION Spec
CONSTANTS
  NBanks = 3
  PagesPerBank = 2
  Halves = {0}
  Lows = {0}
  WordBytes = 2
  MaxWrites = 1
  MaxHeld = 2
INVARIANTS TypeOK FollowsFADDR CountsTellContents
PROPERTIES HitsAfterErase NeighboursKept
