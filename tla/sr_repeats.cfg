\* The network also delivers SYN, SYN_ACK and ACK 0 twice.
SPECIFICATION Spec
CONSTANTS
  N = 2
  W = 2
  MaxSeq = 5
  Faults = {"loss", "duplicate"}
INVARIANTS
  AckedIsReceived
  CloseMeansReceived
  NeverIdle
PROPERTIES
  KeepsReceived
CONSTRAINT FewPackets
CHECK_DEADLOCK FALSE
