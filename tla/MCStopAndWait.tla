---------------------------- MODULE MCStopAndWait ----------------------------
(* Bounds for the runs of StopAndWait in which the network delivers          *)
(* handshake packets twice: each repeated ACK 0 reads the file from its      *)
(* beginning again, so that seq_num has no bound of its own.                 *)
EXTENDS StopAndWait

CONSTANT MaxSeq         \* states in which more packets were sent are not extended

FewPackets == seq_num <= MaxSeq
=============================================================================
