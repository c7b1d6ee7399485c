-------------------------- MODULE MCSelectiveRepeat --------------------------
(* Bounds for the runs of SelectiveRepeat in which the network delivers     *)
(* handshake packets twice: each repeated ACK 0 or SYN_ACK pushes another   *)
(* window, so that seq_num has no bound of its own.                         *)
EXTENDS SelectiveRepeat

CONSTANT MaxSeq         \* states in which more packets were sent are not extended

FewPackets == seq_num <= MaxSeq
=============================================================================
