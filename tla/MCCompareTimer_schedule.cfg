SPECIFICATION FairSpec
CONSTANTS
  Half = 4
  Values = {2, 6}
  Controls <- SetOrCapture
INVARIANT TypeOK
PROPERTIES MatchesCompared Settles KeepsOverflowing
