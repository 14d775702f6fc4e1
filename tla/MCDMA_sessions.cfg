SPECIFICATION FairSpec
CONSTANTS
  ABORT = ABORT
  NoTrigger = NoTrigger
  T1CH0 = T1CH0
  URX0 = URX0
  Triggers = {T1CH0, URX0}
  N = 2
  Descriptors <- TwoDescriptors
INVARIANTS TypeOK ArmIsHeard
PROPERTIES
  TriggersKept ImplementsTransferSessions BlockCompletes TriggerServed
