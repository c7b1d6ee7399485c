\* The network also delivers SYN, SYN_ACK and ACK 0 twice, packets are
\* damaged, and the worker rejects files.
SPECIFICATION Spec
CONSTANTS
  N = 2
  MaxSeq = 4
  Faults = {"loss", "duplicate", "corrupt", "oversized", "missing"}
INVARIANTS
  TypeOK
  CloseMeansReceived
  NeverIdle
CONSTRAINT FewPackets
CHECK_DEADLOCK FALSE
