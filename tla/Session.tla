------------------------------ MODULE Session ------------------------------
(***************************************************************************)
(* What the two error recovery protocols of tp1 share: the packets, the    *)
(* UDP network between one client process (Client.py) and the worker       *)
(* thread the server runs for its address (Server.py, handle_clientt), the *)
(* life of both, and the files at each end.  The protocol modules extend   *)
(* this one with the state of the protocol object and the handlers that    *)
(* use it.                                                                 *)
(*                                                                         *)
(* The network is a set of packets in flight: any of them may arrive next, *)
(* so packets are reordered and delayed at will.  A packet the program may *)
(* send more than once can stay in flight when a copy of it is delivered.  *)
(***************************************************************************)
EXTENDS Integers, Sequences

CONSTANTS
  N,       \* chunks of PAYLOAD_SIZE bytes in the file that is copied
  Faults   \* what the environment may do:
           \*   "loss"      a packet is lost
           \*   "duplicate" the network delivers a handshake packet twice
           \*   "corrupt"   a packet arrives with a wrong checksum
           \*   "oversized" the file announced by SYN exceeds MAX_FILE_SIZE
           \*   "missing"   the file to download is not in the storage

ASSUME SessionAssumption ==
  /\ N \in Nat
  /\ Faults \subseteq {"loss", "duplicate", "corrupt", "oversized", "missing"}

VARIABLES
  op,      \* op_type: "upload" or "download"
  client,  \* the client process
  worker,  \* the worker thread and the entry of its address in clientDataQueues
  handle,  \* the file of the worker's FileHandler: never opened, open, closed
  cursor,  \* read position of the source file
  file,    \* chunks handed to the destination file, buffered by Python or not
  net      \* packets in flight

sessionVars == <<op, client, worker, handle, cursor, file, net>>
-----------------------------------------------------------------------------
(* Packets.  data is the chunk of the source file a DATA packet carries.    *)

Types == {"SYN", "SYN_ACK", "ACK", "DATA", "CLOSE", "CLOSE_ACK"}
Packet(type, seq, data) == [type |-> type, seq |-> seq, data |-> data]

Syn == Packet("SYN", 0, 0)
SynAck == Packet("SYN_ACK", 0, 0)
Ack(seq) == Packet("ACK", seq, 0)
Data(seq, chunk) == Packet("DATA", seq, chunk)
Fin(seq) == Packet("CLOSE", seq, 0)
FinAck == Packet("CLOSE_ACK", 0, 0)

\* Which end a packet travels to.  The source sends DATA and CLOSE, the
\* destination answers them; ACK 0 ends the handshake and is the client's.
ToServer(p) ==
  \/ p.type = "SYN"
  \/ p.type = "ACK" /\ p.seq = 0
  \/ p.type \in {"DATA", "CLOSE"} /\ op = "upload"
  \/ p.type = "ACK" /\ p.seq # 0 /\ op = "download"
  \/ p.type = "CLOSE_ACK" /\ op = "download"

\* Packets the program itself may have sent several times.  SYN, SYN_ACK and
\* ACK 0 are sent once, and so is the CLOSE_ACK of a client, which then exits.
MayRepeat(p) ==
  \/ p.type \in {"DATA", "CLOSE"}
  \/ p.type = "ACK" /\ p.seq # 0
  \/ p.type = "CLOSE_ACK" /\ op = "upload"
  \/ "duplicate" \in Faults

\* p is delivered and the packets in replies are sent.
Exchange(p, replies) ==
  \/ net' = (net \ {p}) \union replies
  \/ MayRepeat(p) /\ net' = net \union replies
-----------------------------------------------------------------------------
SessionInit ==
  /\ op \in {"upload", "download"}
  /\ client = "connecting"
  /\ worker = "none"
  /\ handle = "none"
  /\ cursor = 0
  /\ file = <<>>
  /\ net = {Syn}

\* The destination file exists: the client creates it before it connects, the
\* worker when it receives ACK 0.
Exists == op = "download" \/ handle # "none"

ClientAlive == client \in {"connecting", "transferring"}

\* A packet of the given type reaches the client, or the queue of the worker.
ClientTakes(p, type) == ClientAlive /\ ~ToServer(p) /\ p.type = type
WorkerTakes(p, type) == worker = "running" /\ ToServer(p) /\ p.type = type

\* Server.start finds no queue for the address and creates queue and thread.
Spawns(p) == worker \in {"none", "finished"} /\ ToServer(p)
Closed == IF handle = "open" THEN "closed" ELSE handle
-----------------------------------------------------------------------------
(* The client.                                                              *)

\* wait_response times out while it waits for SYN_ACK: nothing catches it.
ConnectTimeout ==
  /\ client = "connecting"
  /\ client' = "aborted"
  /\ UNCHANGED <<op, worker, handle, cursor, file, net>>

\* CLOSE arrives: the client closes its file, answers and leaves its loop.
ClientClose(p) ==
  /\ ClientTakes(p, "CLOSE")
  /\ client' = "done"
  /\ Exchange(p, {FinAck})
  /\ UNCHANGED <<op, worker, handle, cursor, file>>

\* CLOSE_ACK arrives: the client closes its file and leaves its loop.
ClientCloseFin(p) ==
  /\ ClientTakes(p, "CLOSE_ACK")
  /\ client' = "done"
  /\ Exchange(p, {})
  /\ UNCHANGED <<op, worker, handle, cursor, file>>
-----------------------------------------------------------------------------
(* The worker.                                                              *)

\* The first packet of a new thread is a SYN: it creates the protocol object
\* (the protocol modules say how) and answers SYN_ACK.
WorkerStart(p) ==
  /\ Spawns(p) /\ p.type = "SYN"
  /\ worker' = "running"
  /\ handle' = "none"
  /\ Exchange(p, {SynAck})
  /\ UNCHANGED <<op, client, cursor, file>>

\* The SYN announces too large a file: FilesizeError ends the thread and leaves
\* its queue behind.  The SYN of a download always announces 1000.
WorkerOversized(p) ==
  /\ Spawns(p) /\ p.type = "SYN" /\ op = "upload" /\ "oversized" \in Faults
  /\ worker' = "crashed"
  /\ Exchange(p, {})
  /\ UNCHANGED <<op, client, handle, cursor, file>>

\* A late packet of a finished session starts a thread again: HandshakeError
\* ends it and leaves its queue behind.
WorkerRefuses(p) ==
  /\ Spawns(p) /\ p.type # "SYN"
  /\ worker' = "refused"
  /\ Exchange(p, {})
  /\ UNCHANGED <<op, client, handle, cursor, file>>

\* A second SYN: only SYN_ACK is sent again, no state is reset.
WorkerSynAgain(p) ==
  /\ WorkerTakes(p, "SYN")
  /\ Exchange(p, {SynAck})
  /\ UNCHANGED <<op, client, worker, handle, cursor, file>>

\* CLOSE arrives: it is answered and the file closed; the thread goes on.  What
\* was written is in file already, so that closing it after the answer is sent
\* makes no difference here.
WorkerClose(p) ==
  /\ WorkerTakes(p, "CLOSE")
  /\ handle' = Closed
  /\ Exchange(p, {FinAck})
  /\ UNCHANGED <<op, client, worker, cursor, file>>

\* CLOSE_ACK arrives: the queue is deleted and the thread ends.
WorkerCloseFin(p) ==
  /\ WorkerTakes(p, "CLOSE_ACK")
  /\ worker' = "finished"
  /\ handle' = Closed
  /\ Exchange(p, {})
  /\ UNCHANGED <<op, client, cursor, file>>

\* The thread has ended without deleting its queue: nobody reads the packet.
Swallow(p) ==
  /\ worker \in {"refused", "crashed", "inactive"} /\ ToServer(p)
  /\ net' = net \ {p}
  /\ UNCHANGED <<op, client, worker, handle, cursor, file>>
-----------------------------------------------------------------------------
(* The environment.                                                         *)

Lose(p) ==
  /\ "loss" \in Faults
  /\ net' = net \ {p}
  /\ UNCHANGED <<op, client, worker, handle, cursor, file>>

\* A packet arrives with a wrong checksum.  The handler of ChecksumError fails
\* in turn (SelectiveRepeat has no _handle_corrupt, StopAndWait goes on without
\* a packet), which ends the process or the thread that received it.
DeliverCorrupt(p) ==
  /\ "corrupt" \in Faults
  /\ \/ /\ ClientAlive /\ ~ToServer(p)
        /\ client' = "aborted"
        /\ UNCHANGED worker
     \/ /\ worker \in {"none", "running", "finished"} /\ ToServer(p)
        /\ worker' = "crashed"
        /\ UNCHANGED client
  /\ Exchange(p, {})
  /\ UNCHANGED <<op, handle, cursor, file>>
-----------------------------------------------------------------------------
(* Faulty: sending again counts as activity, so a worker with unacknowledged *)
(* packets need not notice the silence.                                      *)
SilentIdle(unacked) ==
  /\ \A p \in net : ~ToServer(p)
  /\ unacked = {} /\ (~ClientAlive \/ net = {})

(* Nothing will reach the worker any more: no packet is on its way to it    *)
(* and the client has ended or, when unacked is empty, waits in silence.    *)
(* The worker then surely counts 120 timeouts in a row.                     *)
Silent(unacked) ==
  /\ \A p \in net : ~ToServer(p)
  /\ ~ClientAlive \/ (unacked = {} /\ net = {})

\* 120 timeouts of the queue in a row, whether the packets of 60 s were lost,
\* are late or were never sent: the thread ends and leaves its queue.
WorkerInactive ==
  /\ worker = "running"
  /\ worker' = "inactive"
  /\ UNCHANGED <<op, client, handle, cursor, file, net>>

\* A timeout of the receiver's 0.5 s: everything unacknowledged is sent again.
Resend(unacked) ==
  /\ unacked # {}
  /\ net' = net \union unacked
  /\ UNCHANGED <<op, client, worker, handle, cursor, file>>

\* The refinement mapping to FileTransfer.
Outcome == CASE client = "done"    -> "success"
             [] client = "aborted" -> "failed"
             [] OTHER              -> "pending"
=============================================================================
