\* Upload and download of 3 chunks; every packet may be lost or reordered.
SPECIFICATION FairSpec
CONSTANTS
  N = 3
  Faults = {"loss"}
PROPERTIES
  ImplementsSelectiveRepeat
  TransferCompletes
CHECK_DEADLOCK FALSE
