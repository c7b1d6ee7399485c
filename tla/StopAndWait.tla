----------------------------- MODULE StopAndWait -----------------------------
(***************************************************************************)
(* The transfer of one file with StopAndWait: the sender's protocol object *)
(* keeps one pending packet, the receiver's the number it expects, and the *)
(* same handlers of Client.py and Server.py drive them.  In the absence of *)
(* repeated handshake packets it is Selective Repeat with a window of one. *)
(***************************************************************************)
EXTENDS Session

VARIABLES
  seq_num,        \* sender: sequence number of the next packet
  pending,        \* sender: {_pending}, or {} when it is None; _waiting_ack is
                  \* True exactly when there is one
  next_expected   \* receiver: next number to write to the file

protocolVars == <<seq_num, pending, next_expected>>
senderVars == <<seq_num, pending, cursor>>
receiverVars == <<next_expected, file>>
vars == <<sessionVars, protocolVars>>

Init ==
  /\ SessionInit
  /\ seq_num = 1 /\ pending = {}
  /\ next_expected = 1
-----------------------------------------------------------------------------
(* Sending.  waiting is pending as the acknowledgement left it, at the      *)
(* position of the source file.                                             *)

\* Faulty: the end of the file is not announced.
NewPacketsNoClose(at, waiting) == IF at < N THEN {Data(seq_num, at + 1)} ELSE {}

\* The packet handle_ack sends: the next chunk, which replaces the pending
\* one, or CLOSE when nothing is left to read and nothing is pending.
NewPackets(at, waiting) ==
  IF at < N THEN {Data(seq_num, at + 1)}
  ELSE IF waiting = {} THEN {Fin(seq_num)}
  ELSE {}

\* Faulty: a new packet does not replace the pending one.
HandleAckKeeps(at, waiting) ==
  LET new == NewPackets(at, waiting) IN
  /\ pending' = waiting \union new
  /\ seq_num' = IF new = {} THEN seq_num ELSE seq_num + 1
  /\ cursor' = IF at < N THEN at + 1 ELSE at

HandleAck(at, waiting) ==
  LET new == NewPackets(at, waiting) IN
  /\ pending' = IF new = {} THEN waiting ELSE new
  /\ seq_num' = IF new = {} THEN seq_num ELSE seq_num + 1
  /\ cursor' = IF at < N THEN at + 1 ELSE at

\* Faulty: any number acknowledges the pending packet.
AcknowledgesAny(p) == pending # {}

\* _handle_ack: the number is that of the pending packet, or the packet is
\* ignored.
Acknowledges(p) == \E q \in pending : q.seq = p.seq

IgnoreAck(p) ==
  /\ p.seq # 0 /\ ~Acknowledges(p)
  /\ Exchange(p, {})
  /\ UNCHANGED <<senderVars, worker>>
-----------------------------------------------------------------------------
(* Receiving.                                                               *)

\* Faulty: a repeated DATA is ignored.
NothingNewSilent(p) ==
  /\ p.seq # next_expected /\ Exchange(p, {})
  /\ UNCHANGED <<receiverVars, worker>>

\* An earlier number is acknowledged again, a later one ignored.
NothingNew(p) ==
  /\ \/ p.seq < next_expected /\ Exchange(p, {Ack(p.seq)})
     \/ p.seq > next_expected /\ Exchange(p, {})
  /\ UNCHANGED <<receiverVars, worker>>

\* The expected number is acknowledged.
Accept(p) ==
  /\ p.seq = next_expected
  /\ next_expected' = next_expected + 1
  /\ Exchange(p, {Ack(p.seq)})

Writes(p) == file' = Append(file, p.data)
-----------------------------------------------------------------------------
(* The client's handlers.                                                   *)

\* SYN_ACK: ACK 0 ends the handshake and an upload sends its first packet; a
\* pending packet that is late (SYN_ACK came twice) is sent again before it.
ClientSynAck(p) ==
  /\ ClientTakes(p, "SYN_ACK")
  /\ client' = "transferring"
  /\ \/ /\ op = "upload"
        /\ HandleAck(cursor, pending)
        /\ \E late \in SUBSET pending :
             Exchange(p, {Ack(0)} \union late \union NewPackets(cursor, pending))
     \/ /\ op = "download"
        /\ Exchange(p, {Ack(0)})
        /\ UNCHANGED senderVars
  /\ UNCHANGED <<op, worker, handle, receiverVars>>

\* ACK: nothing is pending any more, the next packet is sent.
ClientAck(p) ==
  /\ client = "transferring" /\ ClientTakes(p, "ACK")
  /\ \/ IgnoreAck(p)
     \/ /\ Acknowledges(p)
        /\ HandleAck(cursor, {})
        /\ Exchange(p, NewPackets(cursor, {}))
        /\ UNCHANGED worker
  /\ UNCHANGED <<op, client, handle, receiverVars>>

\* DATA: acknowledged, and written when it is the expected one.
ClientData(p) ==
  /\ client = "transferring" /\ ClientTakes(p, "DATA")
  /\ \/ NothingNew(p)
     \/ Accept(p) /\ Writes(p) /\ UNCHANGED worker
  /\ UNCHANGED <<op, client, handle, senderVars>>

ClientTimeout ==
  /\ client = "transferring" /\ op = "upload"
  /\ Resend(pending)
  /\ UNCHANGED protocolVars
-----------------------------------------------------------------------------
(* The worker's handlers.                                                   *)

\* A new thread makes a new protocol object.
Start(p) ==
  /\ WorkerStart(p)
  /\ IF op = "upload"
       THEN next_expected' = 1 /\ UNCHANGED <<seq_num, pending>>
       ELSE seq_num' = 1 /\ pending' = {} /\ UNCHANGED next_expected

\* ACK 0, upload: the destination file is created, or truncated.
WorkerCreates(p) ==
  /\ WorkerTakes(p, "ACK") /\ p.seq = 0 /\ op = "upload"
  /\ handle' = "open"
  /\ file' = <<>>
  /\ Exchange(p, {})
  /\ UNCHANGED <<op, client, worker, senderVars, next_expected>>

\* ACK 0, download: the source file is opened and the first packet sent.
WorkerOpens(p) ==
  /\ WorkerTakes(p, "ACK") /\ p.seq = 0 /\ op = "download"
  /\ handle' = "open"
  /\ HandleAck(0, pending)
  /\ Exchange(p, NewPackets(0, pending))
  /\ UNCHANGED <<op, client, worker, receiverVars>>

\* ACK 0, download: open fails, or the packet of an earlier ACK 0 is late and
\* socket.send, which needs a connected socket, fails.
WorkerOpenFails(p) ==
  /\ WorkerTakes(p, "ACK") /\ p.seq = 0 /\ op = "download"
  /\ \/ "missing" \in Faults /\ UNCHANGED <<handle, cursor>>
     \/ pending # {} /\ handle' = "open" /\ cursor' = 0
  /\ worker' = "crashed"
  /\ Exchange(p, {})
  /\ UNCHANGED <<op, client, receiverVars, seq_num, pending>>

\* ACK, download: as ClientAck.  Nothing is pending when get_timedouts runs, so
\* that socket.send is never reached.
WorkerAck(p) ==
  /\ WorkerTakes(p, "ACK") /\ op = "download"
  /\ \/ IgnoreAck(p)
     \/ /\ Acknowledges(p)
        /\ HandleAck(cursor, {})
        /\ Exchange(p, NewPackets(cursor, {}))
        /\ UNCHANGED worker
  /\ UNCHANGED <<op, client, handle, receiverVars>>

\* DATA, upload: acknowledged, then written to the open file.
WorkerData(p) ==
  /\ WorkerTakes(p, "DATA")
  /\ \/ NothingNew(p)
     \/ handle = "open" /\ Accept(p) /\ Writes(p) /\ UNCHANGED worker
  /\ UNCHANGED <<op, client, handle, senderVars>>

\* DATA, upload: acknowledged, but the file it belongs to is not open.
WorkerDataFails(p) ==
  /\ WorkerTakes(p, "DATA") /\ handle # "open"
  /\ Accept(p)
  /\ worker' = "crashed"
  /\ UNCHANGED <<op, client, handle, file, senderVars>>

WorkerTimeout ==
  /\ worker = "running" /\ op = "download"
  /\ Resend(pending)
  /\ UNCHANGED protocolVars
-----------------------------------------------------------------------------
\* Steps of the session that leave the protocol objects alone.
SessionStep(p) ==
  /\ \/ ClientClose(p) \/ ClientCloseFin(p)
     \/ WorkerOversized(p) \/ WorkerRefuses(p) \/ WorkerSynAgain(p)
     \/ WorkerClose(p) \/ WorkerCloseFin(p) \/ Swallow(p)
  /\ UNCHANGED protocolVars

\* p arrives.
Deliver(p) ==
  \/ ClientSynAck(p) \/ ClientAck(p) \/ ClientData(p)
  \/ Start(p) \/ WorkerCreates(p) \/ WorkerOpens(p) \/ WorkerOpenFails(p)
  \/ WorkerAck(p) \/ WorkerData(p) \/ WorkerDataFails(p)
  \/ SessionStep(p)

\* p is damaged or lost.
Disturb(p) ==
  /\ Lose(p) \/ DeliverCorrupt(p)
  /\ UNCHANGED protocolVars

\* The waits that end without a packet.
GiveUp ==
  /\ ConnectTimeout \/ WorkerInactive
  /\ UNCHANGED protocolVars

Next ==
  \/ \E p \in net : Deliver(p) \/ Disturb(p)
  \/ ClientTimeout \/ WorkerTimeout \/ GiveUp

Spec == Init /\ [][Next]_vars
-----------------------------------------------------------------------------
(* Fairness, as in SelectiveRepeat: the receive timeouts fire, a packet that *)
(* is sent again and again arrives and its last copy arrives last, and a     *)
(* silence that does not end is noticed.                                     *)

PossiblePackets ==
  {Syn, SynAck, FinAck} \union {Ack(s) : s \in 0..N}
    \union {Data(s, s) : s \in 1..N} \union {Fin(N + 1)}

Fairness ==
  /\ WF_vars(ClientTimeout) /\ WF_vars(WorkerTimeout)
  /\ WF_vars(WorkerInactive /\ Silent(pending) /\ UNCHANGED protocolVars)
  /\ \A p \in PossiblePackets :
       SF_vars(p \in net /\ Deliver(p) /\ p \notin net')

FairSpec == Spec /\ Fairness
-----------------------------------------------------------------------------
\* Every variable has its type; there is one pending packet at most.
TypeOK ==
  /\ op \in {"upload", "download"}
  /\ client \in {"connecting", "transferring", "done", "aborted"}
  /\ worker \in {"none", "running", "finished", "refused", "crashed", "inactive"}
  /\ handle \in {"none", "open", "closed"}
  /\ cursor \in 0..N
  /\ file \in Seq(1..N)
  /\ seq_num \in Nat \ {0} /\ next_expected \in Nat \ {0}
  /\ net \union pending \subseteq [type : Types, seq : Nat, data : 0..N]
  /\ \A p, q \in pending : p = q

\* Stop and Wait is Selective Repeat with a window of one packet, as long as no
\* handshake packet arrives twice: every acknowledgement it ignores, the other
\* discards, and it never has a late packet when an acknowledgement arrives.
SR == INSTANCE SelectiveRepeat WITH
        W <- 1,
        window <- pending,
        base <- IF pending = {} THEN seq_num ELSE seq_num - 1,
        buffer <- [s \in {} |-> 0]
ImplementsSelectiveRepeat == SR!Spec

\* CLOSE is only sent when the receiver has every packet numbered before it,
\* even if a repeated SYN_ACK or ACK 0 made the sender drop its pending packet.
CloseMeansReceived ==
  \A p \in net \union pending : p.type = "CLOSE" => p.seq <= next_expected

\* An end that has to finish its file always has a packet to send again: with
\* nothing pending no timeout of its would get the transfer going, also when a
\* repeated SYN_ACK or ACK 0 finds the file read to its end (push_payload,
\* handle_ack of Client and Server).
Sending ==
  \/ op = "upload" /\ client = "transferring"
  \/ op = "download" /\ worker = "running" /\ handle = "open"
NeverIdle == Sending => pending # {}

\* Once the handshake is over at both ends the client ends normally, upload and
\* download, unless all packets to the worker are lost or late for 60 s: then the
\* worker ends, and the client, which counts no attempts, is promised nothing
\* (get_timedouts, _handle_ack, handle_clientt).
TransferCompletes ==
  (worker = "running" /\ handle = "open")
    ~> (client = "done" \/ worker = "inactive")
=============================================================================
