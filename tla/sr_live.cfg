\* Every packet may be lost or reordered, ACK 0 too.
SPECIFICATION FairSpec
CONSTANTS
  N = 3
  W = 2
  Faults = {"loss"}
PROPERTIES
  TransferCompletes
  WorkerEnds
CHECK_DEADLOCK FALSE
