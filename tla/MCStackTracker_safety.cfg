SPECIFICATION Spec
CONSTANTS
  Size = 8
  Base = 2
  MaxOps = 5
  MaxStray = 1
  MaxLevels = 2
INVARIANTS TypeOK  AscendingBelowSP ServicesOnStack
