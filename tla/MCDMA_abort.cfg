SPECIFICATION Spec
CONSTANTS
  ABORT = ABORT
  NoTrigger = NoTrigger
  T1CH0 = T1CH0
  URX0 = URX0
  Triggers = {T1CH0, URX0}
  N = 1
  Descriptors <- TwoDescriptors
PROPERTY AbortDisarms
