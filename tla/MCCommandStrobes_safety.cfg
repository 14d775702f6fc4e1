SPECIFICATION FairSpec
CONSTANTS
  ProgLen = 2
  Top = 3
  CalTicks = {2}
  MaxOverflows = 2
INVARIANT TypeOK
PROPERTIES NoFrameWhileStrobed CalibrationEnds TimeoutStops
