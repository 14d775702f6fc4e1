SPECIFICATION Spec
CONSTANTS
  NBanks = 4
  PagesPerBank = 1
  Halves = {0, 1}
  Lows = {0}
  WordBytes = 2
  MaxWrites = 1
  MaxHeld = 1
PROPERTY WordsLandAtFADDR
