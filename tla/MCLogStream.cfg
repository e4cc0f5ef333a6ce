CONSTANTS
  BufSize = 2
  TailLines = 3
  MaxLog = 6
SPECIFICATION FairSpec
CHECK_DEADLOCK FALSE
INVARIANTS
  TypeOK
  InOrder
  TailDelivered
  EndIsExplained
PROPERTIES
  EndsWithPod
  CopyEndsWithClient
