SPECIFICATION Spec
CONSTANTS
  Bytes = {b1, b2}
  Line = line
  DataBits = 2
  MaxRxCnt = 6
PROPERTY ReceptionLeavesTransmission
