\* Upload and download of 5 chunks with a window of 3.
SPECIFICATION Spec
CONSTANTS
  N = 5
  W = 3
  Faults = {"loss", "corrupt", "oversized", "missing"}
INVARIANTS
  TypeOK
  FileIsPrefix
  DoneMeansComplete
  AckedIsReceived
  NoDataRefused
  BuffersBounded
  CloseMeansReceived
PROPERTIES
  ImplementsFileTransfer
\* A transfer ends.
CHECK_DEADLOCK FALSE
