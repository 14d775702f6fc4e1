SPECIFICATION FairSpec
CONSTANTS
  Bytes = {b1, b2}
  Line = line
  DataBits = 2
  MaxRxCnt = 6
INVARIANTS TypeOK RxWithinFrame
PROPERTIES ImplementsQueue TransmissionEnds
