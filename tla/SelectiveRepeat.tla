--------------------------- MODULE SelectiveRepeat ---------------------------
(***************************************************************************)
(* The transfer of one file with SelectiveRepeat: the sender's protocol    *)
(* object (the client's when uploading, the worker's when downloading),    *)
(* the receiver's, and the handlers of Client.py and Server.py that drive  *)
(* them.  Both objects have all the fields of the class; each end only     *)
(* uses those of its role, which are the variables below.                  *)
(***************************************************************************)
EXTENDS Session, FiniteSets

CONSTANT W              \* WINDOW_SIZE

ASSUME WindowAssumption == W \in Nat \ {0}

VARIABLES
  seq_num,        \* sender: sequence number of the next packet
  base,           \* sender: its next_expected, oldest number not acknowledged
  window,         \* sender: the packets sent and not acknowledged
  next_expected,  \* receiver: next number to write to the file
  buffer          \* receiver: chunks that arrived ahead of it, by number

senderVars == <<seq_num, base, window, cursor>>
receiverVars == <<next_expected, buffer, file>>
vars == <<sessionVars, seq_num, base, window, next_expected, buffer>>

NoChunks == [s \in {} |-> 0]
Seqs(pkts) == {q.seq : q \in pkts}

Init ==
  /\ SessionInit
  /\ seq_num = 1 /\ base = 1 /\ window = {}
  /\ next_expected = 1 /\ buffer = NoChunks
-----------------------------------------------------------------------------
(* Sending.  win is the window an acknowledgement left and at the position  *)
(* of the source file.                                                      *)

\* Faulty variants of Read, for the mutants of TypeOK and BuffersBounded: the end
\* of the file is not noticed; a chunk too many is read.
ReadPastEnd(at, advance) == advance
ReadOneMore(at, advance) == IF at + advance + 1 <= N THEN advance + 1 ELSE N - at

\* Chunks that file_handler.read(advance * PAYLOAD_SIZE) returns.
Read(at, advance) == IF at + advance <= N THEN advance ELSE N - at

\* The packets push_payload makes of them.
Pushed(at, advance) ==
  {Data(seq_num + i, at + i + 1) : i \in 0..(Read(at, advance) - 1)}

\* Faulty: the transfer is closed as soon as everything has been sent.
FinishesEarly(at, advance, win) ==
  Read(at, advance) = 0 /\ (op = "upload" \/ at = N)

\* Nothing was read and nothing is unacknowledged: the transfer is closed.
\* The worker asks for the end of the file as well.
Finishes(at, advance, win) ==
  Read(at, advance) = 0 /\ win = {} /\ (op = "upload" \/ at = N)

\* The packets that handle_ack sends for the first time.
NewPackets(at, advance, win) ==
  IF Finishes(at, advance, win) THEN {Fin(seq_num)} ELSE Pushed(at, advance)

\* Faulty: the packets pushed replace the window.
HandleAckReplaces(at, advance, win) ==
  /\ window' = NewPackets(at, advance, win)
  /\ seq_num' = seq_num + IF Finishes(at, advance, win)
                            THEN 1 ELSE Read(at, advance)
  /\ cursor' = at + Read(at, advance)

\* handle_ack: the next chunks are read and pushed, or the transfer is closed.
HandleAck(at, advance, win) ==
  /\ window' = win \union NewPackets(at, advance, win)
  /\ seq_num' = seq_num + IF Finishes(at, advance, win)
                            THEN 1 ELSE Read(at, advance)
  /\ cursor' = at + Read(at, advance)

\* Faulty: an acknowledgement is taken as cumulative.
UnackedUpTo(s) == {q \in window : q.seq > s}

\* _handle_ack of the protocol: number s leaves the window ...
Unacked(s) == {q \in window : q.seq # s}

\* ... and the window slides over what is no longer in it.
SlidesTo(win, b) ==
  /\ b \in base..seq_num
  /\ \A s \in base..(b - 1) : s \notin Seqs(win)
  /\ b < seq_num => b \in Seqs(win)

\* An acknowledgement below the window is discarded.
DiscardAck(p) ==
  /\ p.seq # 0 /\ p.seq < base
  /\ Exchange(p, {})
  /\ UNCHANGED <<senderVars, worker>>
-----------------------------------------------------------------------------
(* Receiving.                                                               *)

\* Faulty: the receiver's window is one packet shorter than the sender's.
TooFarShort(p) == p.seq >= next_expected + W - 1

TooFar(p) == p.seq >= next_expected + W
Repeated(p) == p.seq < next_expected \/ p.seq \in DOMAIN buffer

\* The buffer with the chunk of p.
Buffered(p) == [s \in DOMAIN buffer \union {p.seq} |->
                  IF s = p.seq THEN p.data ELSE buffer[s]]

\* The run of numbers from next_expected that got holds ends before n.
DeliversTo(got, n) ==
  /\ n \in next_expected..(next_expected + W)
  /\ next_expected..(n - 1) \subseteq DOMAIN got
  /\ n \notin DOMAIN got

\* The chunks of that run.
Run(got, n) == [i \in 1..(n - next_expected) |-> got[next_expected + i - 1]]

\* Faulty: a repeated DATA is ignored.
NothingNewSilent(p) ==
  /\ TooFar(p) \/ Repeated(p)
  /\ Exchange(p, {})
  /\ UNCHANGED <<receiverVars, worker>>

\* DATA outside the window is ignored; a repeated one is acknowledged again.
NothingNew(p) ==
  /\ \/ TooFar(p) /\ Exchange(p, {})
     \/ ~TooFar(p) /\ Repeated(p) /\ Exchange(p, {Ack(p.seq)})
  /\ UNCHANGED <<receiverVars, worker>>

\* A new chunk is acknowledged and buffered, and the run up to n leaves the
\* buffer.
Accept(p, n) ==
  /\ ~TooFar(p) /\ ~Repeated(p)
  /\ DeliversTo(Buffered(p), n)
  /\ next_expected' = n
  /\ buffer' = [s \in {s \in DOMAIN Buffered(p) : s >= n} |-> Buffered(p)[s]]
  /\ Exchange(p, {Ack(p.seq)})

\* Faulty: the chunk that arrived is written, not the run it completed.
WritesArrived(p, n) == file' = IF n > next_expected THEN Append(file, p.data) ELSE file

Writes(p, n) == file' = file \o Run(Buffered(p), n)
-----------------------------------------------------------------------------
(* The client's handlers.                                                   *)

\* SYN_ACK: ACK 0 ends the handshake; an upload starts as if a window had been
\* acknowledged.  late are the entries of the window older than ACK_TIMEOUT.
ClientSynAck(p) ==
  /\ ClientTakes(p, "SYN_ACK")
  /\ client' = "transferring"
  /\ \/ /\ op = "upload"
        /\ HandleAck(cursor, W, window)
        /\ \E late \in SUBSET window :
             Exchange(p, {Ack(0)} \union late \union NewPackets(cursor, W, window))
     \/ /\ op = "download"
        /\ Exchange(p, {Ack(0)})
        /\ UNCHANGED senderVars
  /\ UNCHANGED <<op, worker, handle, receiverVars, base>>

\* ACK: the window slides, late packets are sent again and new ones follow.
ClientAck(p) ==
  /\ client = "transferring" /\ ClientTakes(p, "ACK")
  /\ \/ DiscardAck(p)
     \/ /\ p.seq >= base
        /\ \E b \in base..seq_num, late \in SUBSET Unacked(p.seq) :
             /\ SlidesTo(Unacked(p.seq), b)
             /\ base' = b
             /\ HandleAck(cursor, b - base, Unacked(p.seq))
             /\ Exchange(p, late \union
                            NewPackets(cursor, b - base, Unacked(p.seq)))
        /\ UNCHANGED worker
  /\ UNCHANGED <<op, client, handle, receiverVars>>

\* DATA: acknowledged, and what became contiguous is written.
ClientData(p) ==
  /\ client = "transferring" /\ ClientTakes(p, "DATA")
  /\ \/ NothingNew(p)
     \/ /\ \E n \in next_expected..(next_expected + W) :
             Accept(p, n) /\ Writes(p, n)
        /\ UNCHANGED worker
  /\ UNCHANGED <<op, client, handle, senderVars>>

ClientTimeout ==
  /\ client = "transferring" /\ op = "upload"
  /\ Resend(window)
  /\ UNCHANGED <<seq_num, base, window, next_expected, buffer>>
-----------------------------------------------------------------------------
(* The worker's handlers.                                                   *)

\* Faulty: so does a second SYN, in the middle of the session.
StartAgain(p) ==
  /\ WorkerStart(p) \/ WorkerSynAgain(p)
  /\ IF op = "upload"
       THEN next_expected' = 1 /\ buffer' = NoChunks /\ UNCHANGED <<seq_num, base, window>>
       ELSE seq_num' = 1 /\ base' = 1 /\ window' = {} /\ UNCHANGED <<next_expected, buffer>>

\* A new thread makes a new protocol object.
Start(p) ==
  /\ WorkerStart(p)
  /\ IF op = "upload"
       THEN next_expected' = 1 /\ buffer' = NoChunks /\ UNCHANGED <<seq_num, base, window>>
       ELSE seq_num' = 1 /\ base' = 1 /\ window' = {} /\ UNCHANGED <<next_expected, buffer>>

\* ACK 0, upload: the destination file is created, or truncated.
WorkerCreates(p) ==
  /\ WorkerTakes(p, "ACK") /\ p.seq = 0 /\ op = "upload"
  /\ handle' = "open"
  /\ file' = <<>>
  /\ Exchange(p, {})
  /\ UNCHANGED <<op, client, worker, senderVars, next_expected, buffer>>

\* ACK 0, download: the source file is opened and the first window sent.
WorkerOpens(p) ==
  /\ WorkerTakes(p, "ACK") /\ p.seq = 0 /\ op = "download"
  /\ handle' = "open"
  /\ HandleAck(0, W, window)
  /\ Exchange(p, NewPackets(0, W, window))
  /\ UNCHANGED <<op, client, worker, receiverVars, base>>

\* ACK 0, download: open fails, or a packet of an earlier ACK 0 is late and
\* socket.send, which needs a connected socket, fails.
WorkerOpenFails(p) ==
  /\ WorkerTakes(p, "ACK") /\ p.seq = 0 /\ op = "download"
  /\ \/ "missing" \in Faults /\ UNCHANGED <<handle, cursor>>
     \/ window # {} /\ handle' = "open" /\ cursor' = 0
  /\ worker' = "crashed"
  /\ Exchange(p, {})
  /\ UNCHANGED <<op, client, receiverVars, seq_num, base, window>>

\* ACK, download: as ClientAck, but no late packet can be sent again.
WorkerAck(p) ==
  /\ WorkerTakes(p, "ACK") /\ op = "download"
  /\ \/ DiscardAck(p)
     \/ /\ p.seq >= base
        /\ handle = "open"
        /\ \E b \in base..seq_num :
             /\ SlidesTo(Unacked(p.seq), b)
             /\ base' = b
             /\ HandleAck(cursor, b - base, Unacked(p.seq))
             /\ Exchange(p, NewPackets(cursor, b - base, Unacked(p.seq)))
        /\ UNCHANGED worker
  /\ UNCHANGED <<op, client, handle, receiverVars>>

\* ACK, download: some packet of the window is older than ACK_TIMEOUT and
\* socket.send fails on the unconnected socket; or no file is open.
WorkerAckFails(p) ==
  /\ WorkerTakes(p, "ACK") /\ op = "download" /\ p.seq >= base
  /\ Unacked(p.seq) # {} \/ handle # "open"
  /\ \E b \in base..seq_num : SlidesTo(Unacked(p.seq), b) /\ base' = b
  /\ window' = Unacked(p.seq)
  /\ worker' = "crashed"
  /\ Exchange(p, {})
  /\ UNCHANGED <<op, client, handle, receiverVars, seq_num, cursor>>

\* DATA, upload: acknowledged, then written to the open file.
WorkerData(p) ==
  /\ WorkerTakes(p, "DATA")
  /\ \/ NothingNew(p)
     \/ \E n \in next_expected..(next_expected + W) :
          /\ Accept(p, n)
          /\ n > next_expected => handle = "open"
          /\ Writes(p, n)
          /\ UNCHANGED worker
  /\ UNCHANGED <<op, client, handle, senderVars>>

\* DATA, upload: acknowledged, but the file it belongs to is not open.
WorkerDataFails(p) ==
  /\ WorkerTakes(p, "DATA") /\ handle # "open"
  /\ \E n \in (next_expected + 1)..(next_expected + W) : Accept(p, n)
  /\ worker' = "crashed"
  /\ UNCHANGED <<op, client, handle, file, senderVars>>

WorkerTimeout ==
  /\ worker = "running" /\ op = "download"
  /\ Resend(window)
  /\ UNCHANGED <<seq_num, base, window, next_expected, buffer>>
-----------------------------------------------------------------------------
\* Steps of the session that leave the protocol objects alone.
SessionStep(p) ==
  /\ \/ ClientClose(p) \/ ClientCloseFin(p)
     \/ WorkerOversized(p) \/ WorkerRefuses(p) \/ WorkerSynAgain(p)
     \/ WorkerClose(p) \/ WorkerCloseFin(p) \/ Swallow(p)
  /\ UNCHANGED <<seq_num, base, window, next_expected, buffer>>

\* p arrives.
Deliver(p) ==
  \/ ClientSynAck(p) \/ ClientAck(p) \/ ClientData(p)
  \/ Start(p) \/ WorkerCreates(p) \/ WorkerOpens(p) \/ WorkerOpenFails(p)
  \/ WorkerAck(p) \/ WorkerAckFails(p) \/ WorkerData(p) \/ WorkerDataFails(p)
  \/ SessionStep(p)

\* p is damaged or lost.
Disturb(p) ==
  /\ Lose(p) \/ DeliverCorrupt(p)
  /\ UNCHANGED <<seq_num, base, window, next_expected, buffer>>

\* The waits that end without a packet.
GiveUp ==
  /\ ConnectTimeout \/ WorkerInactive
  /\ UNCHANGED <<seq_num, base, window, next_expected, buffer>>

Next ==
  \/ \E p \in net : Deliver(p) \/ Disturb(p)
  \/ ClientTimeout \/ WorkerTimeout \/ GiveUp

Spec == Init /\ [][Next]_vars
-----------------------------------------------------------------------------
(* Fairness.  Both ends' receive timeouts fire while something is left to   *)
(* send again.  The link is fair-lossy: a packet that is sent again and     *)
(* again arrives, and of the finitely many copies in flight one is the last *)
(* to arrive.  A silence that does not end is noticed; 60 s without a packet *)
(* may also happen sooner.  Nothing forces a loss.                           *)

PossiblePackets ==
  {Syn, SynAck, FinAck} \union {Ack(s) : s \in 0..N}
    \union {Data(s, s) : s \in 1..N} \union {Fin(N + 1)}

Fairness ==
  /\ WF_vars(ClientTimeout) /\ WF_vars(WorkerTimeout)
  /\ WF_vars(WorkerInactive /\ Silent(window)
               /\ UNCHANGED <<seq_num, base, window, next_expected, buffer>>)
  /\ \A p \in PossiblePackets :
       SF_vars(p \in net /\ Deliver(p) /\ p \notin net')

FairSpec == Spec /\ Fairness
-----------------------------------------------------------------------------
Packets == [type : Types, seq : Nat, data : Nat]

\* Every variable has its type.
TypeOK ==
  /\ op \in {"upload", "download"}
  /\ client \in {"connecting", "transferring", "done", "aborted"}
  /\ worker \in {"none", "running", "finished", "refused", "crashed", "inactive"}
  /\ handle \in {"none", "open", "closed"}
  /\ cursor \in 0..N
  /\ file \in Seq(1..N)
  /\ net \subseteq Packets
  /\ seq_num \in Nat \ {0} /\ base \in 1..seq_num
  /\ window \subseteq Packets
  /\ next_expected \in Nat \ {0}
  /\ \A s \in DOMAIN buffer : s \in Nat /\ buffer[s] \in 1..N

\* The destination file is a prefix of the source, whatever was lost,
\* reordered or sent again (Client.handle_data, Server._handle_data).
FileIsPrefix == /\ Len(file) <= N
                /\ \A i \in 1..Len(file) : file[i] = i

\* A client that ended normally left a complete copy of the file behind: it
\* never takes the end of the handshake, or of the file, for the other's.
DoneMeansComplete == client = "done" => Exists /\ Len(file) = N

\* What the sender took out of its window is at the receiver: a slot is never
\* freed by an acknowledgement that was meant for something else.
AckedIsReceived ==
  \A s \in 1..(seq_num - 1) :
    s \in Seqs(window) \/ s < next_expected \/ s \in DOMAIN buffer

\* The sender never runs so far ahead that the receiver would refuse its DATA
\* (the "too far in the future" branch of _handle_data is not reached).
NoDataRefused == \A p \in net : p.type = "DATA" => ~TooFar(p)

\* The two buffers stay within the window size the protocol was made with.
BuffersBounded == /\ Cardinality(window) <= W
                  /\ Cardinality(DOMAIN buffer) < W

\* CLOSE is only sent when the receiver has every packet numbered before it:
\* the receiver, which closes its file without looking, can rely on it.
CloseMeansReceived ==
  \A p \in net \union window : p.type = "CLOSE" => p.seq <= next_expected

\* What the receiver has once acknowledged it never asks for again: no late or
\* repeated packet, a second SYN included, takes a number back (_handle_data,
\* _handle_syn, _raise_thread).
Received == 1..(next_expected - 1) \union DOMAIN buffer
KeepsReceived == [][Received \subseteq Received']_vars

\* An end that has to finish its file never waits with nothing to send again, in
\* which case no timeout of its would ever get the transfer going: an
\* acknowledgement that empties the window is answered by new chunks or by CLOSE
\* (handle_ack of Client and Server, get_timedouts).
Sending ==
  \/ op = "upload" /\ client = "transferring"
  \/ op = "download" /\ worker = "running" /\ handle = "open"
NeverIdle == Sending => window # {}

\* Selective Repeat keeps the promises of FileTransfer: the destination grows by
\* the next chunks of the source only, and not at all once the client has ended
\* normally (Server._handle_data, _handle_init, Client.handle_close_fin).
FT == INSTANCE FileTransfer WITH created <- Exists, outcome <- Outcome
ImplementsFileTransfer == FT!FTSpec

\* A download whose packets all arrive intact never ends its thread by an
\* exception (Server._handle_ack sends late packets again and goes on).
DownloadSurvives == op = "download" => worker # "crashed"

\* The client of an upload that got SYN_ACK ends normally unless the worker hears
\* nothing for 60 s: what got no answer is sent again (Client.upload_file).
UploadRecovers ==
  (op = "upload" /\ client = "transferring")
    ~> (client = "done" \/ worker = "inactive")

\* Once the handshake is over at both ends the client ends normally, unless all
\* packets to the worker are lost or late for 60 s: then the worker ends, and the
\* client, which counts no attempts, is promised nothing (handle_clientt).  In a
\* download the worker may also die when it tries to send a late packet again
\* (Server._handle_ack).  Nothing else keeps a transfer from ending.
TransferCompletes ==
  (worker = "running" /\ handle = "open")
    ~> \/ client = "done"
       \/ worker = "inactive"
       \/ op = "download" /\ worker = "crashed"

\* The thread of a client that has ended ends too, by CLOSE_ACK or, for lack of
\* packets, by inactivity (Server.handle_clientt).
WorkerEnds == (~ClientAlive /\ worker = "running") ~> worker # "running"
=============================================================================
