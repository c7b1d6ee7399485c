----------------------- MODULE SelectiveRepeatProofs -----------------------
(***************************************************************************)
(* The safety of SelectiveRepeat for every file length N and window size W *)
(* and every fault but one: the network delivers no handshake packet twice *)
(* (OnceOnly).                                                             *)
(*                                                                         *)
(* The argument.  A number leaves the sender's window only when the        *)
(* receiver has it (AckInv), because an ACK in flight names a number the   *)
(* receiver has (NetInv).  So when nothing is left to read and the window  *)
(* is empty the receiver has all N chunks, and since its buffer never      *)
(* holds next_expected (ReceiverInv) it has written them.  CLOSE and       *)
(* CLOSE_ACK carry that fact to the client that ends.                      *)
(*                                                                         *)
(* What holds with repeated handshake packets too is proved in             *)
(* SelectiveRepeatFaults.                                                  *)
(***************************************************************************)
EXTENDS SelectiveRepeat, FiniteSetTheorems, TLAPS

OnceOnly == "duplicate" \notin Faults

\* Nothing was sent, received or opened yet.
Fresh == /\ handle = "none"
         /\ seq_num = 1 /\ base = 1 /\ window = {} /\ cursor = 0
         /\ next_expected = 1 /\ buffer = NoChunks /\ file = <<>>

\* The receiver has number s.
Got(s) == s < next_expected \/ s \in DOMAIN buffer

SessionInv ==
  /\ op \in {"upload", "download"}
  /\ client \in {"connecting", "transferring", "done", "aborted"}
  /\ worker \in {"none", "running", "finished", "refused", "crashed", "inactive"}
  /\ handle \in {"none", "open", "closed"}
  /\ worker = "none" => /\ Fresh
                        /\ client \in {"connecting", "aborted"}
                        /\ net \subseteq {Syn}
  /\ client = "connecting" => Fresh /\ Ack(0) \notin net
  /\ op = "download" /\ handle = "none" => Fresh
  /\ client = "done" => seq_num = N + 2 /\ (N # 0 => Exists)
  /\ handle = "closed" => seq_num = N + 2

SenderInv ==
  /\ seq_num \in Nat /\ cursor \in 0..N /\ base \in 1..seq_num
  /\ seq_num <= base + W
  /\ \A q \in window : /\ q \in PossiblePackets
                       /\ q.type \in {"DATA", "CLOSE"}
                       /\ q.seq \in base..(seq_num - 1)
  /\ base < seq_num => base \in Seqs(window)
  /\ \/ seq_num = cursor + 1
     \/ seq_num = N + 2 /\ cursor = N /\ next_expected = N + 1
        /\ window = {Fin(N + 1)}

ReceiverInv ==
  /\ next_expected \in 1..(N + 1) /\ next_expected <= seq_num
  /\ \A s \in DOMAIN buffer : /\ s \in (next_expected + 1)..N
                              /\ s < next_expected + W /\ s < seq_num
                              /\ buffer[s] = s
  /\ file \in Seq(1..N)
  /\ \A i \in 1..Len(file) : file[i] = i
  /\ Exists => Len(file) = next_expected - 1
  /\ ~Exists => file = <<>> /\ (worker = "running" => next_expected = 1)

AckInv == \A s \in 1..(seq_num - 1) : s \in Seqs(window) \/ Got(s)

NetInv ==
  \A p \in net :
    /\ p \in PossiblePackets
    /\ p.type = "SYN" => worker = "none"
    /\ p.type = "SYN_ACK" => /\ Fresh /\ Ack(0) \notin net
                             /\ client \in {"connecting", "aborted"}
                             /\ worker # "none"
    /\ p.type = "ACK" /\ p.seq = 0 =>
         handle = "none" /\ client # "connecting" /\ worker # "none"
    /\ p.type = "ACK" /\ p.seq # 0 => Got(p.seq)
    /\ p.type = "DATA" => p.seq < seq_num
    /\ p.type = "CLOSE" => seq_num = N + 2
    /\ p.type = "CLOSE_ACK" => seq_num = N + 2 /\ (N # 0 => Exists)

IInv == SessionInv /\ SenderInv /\ ReceiverInv /\ AckInv /\ NetInv
-----------------------------------------------------------------------------
(* Packets.                                                                 *)

\* The fields of the packets the program makes.
LEMMA Fields ==
  /\ Syn.type = "SYN" /\ Syn.seq = 0
  /\ SynAck.type = "SYN_ACK" /\ SynAck.seq = 0
  /\ FinAck.type = "CLOSE_ACK" /\ FinAck.seq = 0
  /\ \A s : Ack(s).type = "ACK" /\ Ack(s).seq = s
  /\ \A s, c : Data(s, c).type = "DATA" /\ Data(s, c).seq = s /\ Data(s, c).data = c
  /\ \A s : Fin(s).type = "CLOSE" /\ Fin(s).seq = s
BY DEF Syn, SynAck, FinAck, Ack, Data, Fin, Packet

\* A packet in flight is determined by its type and its number.
LEMMA Kinds ==
  ASSUME NEW p \in PossiblePackets
  PROVE  /\ p.type \in Types
         /\ p.type = "SYN" => p = Syn
         /\ p.type = "SYN_ACK" => p = SynAck
         /\ p.type = "CLOSE_ACK" => p = FinAck
         /\ p.type = "ACK" => p.seq \in 0..N /\ p = Ack(p.seq)
         /\ p.type = "DATA" => p.seq \in 1..N /\ p.data = p.seq /\ p = Data(p.seq, p.seq)
         /\ p.type = "CLOSE" => p = Fin(N + 1) /\ p.seq = N + 1
BY Fields DEF PossiblePackets, Types

\* The packets that may be sent.
LEMMA Sendable ==
  /\ Syn \in PossiblePackets /\ SynAck \in PossiblePackets
  /\ FinAck \in PossiblePackets /\ Fin(N + 1) \in PossiblePackets
  /\ \A s \in 0..N : Ack(s) \in PossiblePackets
  /\ \A s \in 1..N : Data(s, s) \in PossiblePackets
BY DEF PossiblePackets

\* A delivery adds replies only, and takes a handshake packet off the net.
LEMMA Exchanged ==
  ASSUME NEW p, NEW replies, Exchange(p, replies)
  PROVE  /\ net' \subseteq net \union replies
         /\ ~MayRepeat(p) /\ p \notin replies => p \notin net'
BY DEF Exchange

\* Handshake packets arrive once.
LEMMA Handshake ==
  ASSUME OnceOnly, NEW p \in PossiblePackets,
         p.type \in {"SYN", "SYN_ACK"} \/ (p.type = "ACK" /\ p.seq = 0)
  PROVE  ~MayRepeat(p)
BY DEF OnceOnly, MayRepeat

LEMMA InitInv == Init => IInv
<1> SUFFICES ASSUME Init PROVE IInv
  OBVIOUS
<1> USE SessionAssumption, WindowAssumption DEF Init, SessionInit
<1>1. SessionInv
  BY Fields DEF SessionInv, Fresh
<1>2. SenderInv
  BY DEF SenderInv, Seqs
<1>3. ReceiverInv
  BY DEF ReceiverInv, NoChunks, Exists
<1>4. AckInv
  BY DEF AckInv
<1>5. NetInv
  BY Fields, Sendable DEF NetInv
<1> QED
  BY <1>1, <1>2, <1>3, <1>4, <1>5 DEF IInv
-----------------------------------------------------------------------------
(* Steps that leave the protocol objects alone.                             *)

protocolVars == <<seq_num, base, window, next_expected, buffer>>

\* What does not depend on the state of the session survives such a step.
LEMMA ProtocolUnchanged ==
  ASSUME IInv, UNCHANGED <<protocolVars, cursor, file, op>>
  PROVE  /\ SenderInv' /\ AckInv'
         /\ \A s : Got(s)' = Got(s)
BY DEF IInv, SenderInv, AckInv, Got, Seqs, protocolVars

\* A client that gives up.
LEMMA ConnectTimeoutStep ==
  ASSUME IInv, ConnectTimeout, UNCHANGED protocolVars
  PROVE  IInv'
<1> USE DEF ConnectTimeout
<1>1. SenderInv' /\ AckInv' /\ \A s : Got(s)' = Got(s)
  BY ProtocolUnchanged
<1>2. SessionInv'
  BY DEF IInv, SessionInv, Fresh, protocolVars, Exists
<1>3. ReceiverInv'
  BY DEF IInv, ReceiverInv, protocolVars, Exists
<1>4. NetInv'
  BY <1>1 DEF IInv, NetInv, Fresh, protocolVars, Exists
<1> QED
  BY <1>1, <1>2, <1>3, <1>4 DEF IInv

\* A thread that ends for lack of packets.
LEMMA WorkerInactiveStep ==
  ASSUME IInv, WorkerInactive, UNCHANGED protocolVars
  PROVE  IInv'
<1> USE DEF WorkerInactive
<1>1. SenderInv' /\ AckInv' /\ \A s : Got(s)' = Got(s)
  BY ProtocolUnchanged
<1>2. SessionInv'
  BY DEF IInv, SessionInv, Fresh, protocolVars, Exists
<1>3. ReceiverInv'
  BY DEF IInv, ReceiverInv, protocolVars, Exists
<1>4. NetInv'
  BY <1>1 DEF IInv, NetInv, Fresh, protocolVars, Exists
<1> QED
  BY <1>1, <1>2, <1>3, <1>4 DEF IInv

\* A packet the sender may put on the net: DATA it has numbered, or CLOSE.
Current(q) == /\ q \in PossiblePackets
              /\ \/ q.type = "DATA" /\ q.seq < seq_num
                 \/ q.type = "CLOSE" /\ seq_num = N + 2

LEMMA CurrentWindow == IInv => \A q \in window : Current(q)
<1> SUFFICES ASSUME IInv, NEW q \in window PROVE Current(q)
  OBVIOUS
<1>1. q \in PossiblePackets /\ q.type \in {"DATA", "CLOSE"} /\ q.seq \in base..(seq_num - 1)
  BY DEF IInv, SenderInv
<1>2. q.type = "CLOSE" => q.seq = N + 1
  BY <1>1, Kinds
<1> QED
  BY <1>1, <1>2, SessionAssumption DEF IInv, SenderInv, Current

\* The window sent again: its packets are DATA of the current numbers or CLOSE.
LEMMA ResendStep ==
  ASSUME IInv, client = "transferring" \/ worker = "running",
         Resend(window), UNCHANGED protocolVars
  PROVE  IInv'
<1> USE DEF Resend
<1>1. SenderInv' /\ AckInv' /\ \A s : Got(s)' = Got(s)
  BY ProtocolUnchanged
<1>2. \A q \in window : Current(q)
  BY CurrentWindow
<1>3. window # {} => ~Fresh /\ worker # "none"
  BY DEF IInv, SessionInv, Fresh
<1>4. SessionInv'
  BY <1>2, <1>3, Fields DEF IInv, SessionInv, Fresh, protocolVars, Exists, Current
<1>5. ReceiverInv'
  BY DEF IInv, ReceiverInv, protocolVars, Exists
<1>6. NetInv'
  BY <1>1, <1>2, Fields DEF IInv, NetInv, Fresh, protocolVars, Exists, Current
<1> QED
  BY <1>1, <1>4, <1>5, <1>6 DEF IInv

\* A packet that only disappears, whoever was to receive it.
LEMMA VanishStep ==
  ASSUME IInv, NEW p \in net, net' = net \ {p},
         UNCHANGED <<op, client, worker, handle, cursor, file, protocolVars>>
  PROVE  IInv'
<1>1. SenderInv' /\ AckInv' /\ \A s : Got(s)' = Got(s)
  BY ProtocolUnchanged
<1>2. SessionInv'
  BY DEF IInv, SessionInv, Fresh, protocolVars, Exists
<1>3. ReceiverInv'
  BY DEF IInv, ReceiverInv, protocolVars, Exists
<1>4. NetInv'
  BY <1>1 DEF IInv, NetInv, Fresh, protocolVars, Exists
<1> QED
  BY <1>1, <1>2, <1>3, <1>4 DEF IInv

\* A packet whose delivery ends the client or the thread by an exception, or is
\* refused by a new thread, and is not answered.
LEMMA FailStep ==
  ASSUME IInv, OnceOnly, NEW p \in net, Exchange(p, {}),
         \/ /\ worker' \in {"crashed", "refused"}
            /\ UNCHANGED client
         \/ /\ client' = "aborted" /\ ClientAlive
            /\ UNCHANGED worker,
         UNCHANGED <<op, handle, cursor, file, protocolVars>>
  PROVE  IInv'
<1>1. SenderInv' /\ AckInv' /\ \A s : Got(s)' = Got(s)
  BY ProtocolUnchanged
<1>2. net' \subseteq net /\ (worker = "none" => net' = {})
  <2>1. net' \subseteq net
    BY Exchanged
  <2>2. worker = "none" => p = Syn /\ net \subseteq {Syn}
    BY DEF IInv, SessionInv
  <2>3. p = Syn => p \notin net'
    BY Exchanged, Handshake, Sendable, Fields
  <2> QED
    BY <2>1, <2>2, <2>3
<1>3. SessionInv'
  BY <1>2 DEF IInv, SessionInv, Fresh, protocolVars, Exists
<1>4. ReceiverInv'
  BY DEF IInv, ReceiverInv, protocolVars, Exists
<1>5. NetInv'
  BY <1>1, <1>2 DEF IInv, NetInv, Fresh, protocolVars, Exists
<1> QED
  BY <1>1, <1>3, <1>4, <1>5 DEF IInv

\* A second SYN does not arrive.
LEMMA WorkerSynAgainStep ==
  ASSUME IInv, NEW p \in net, WorkerSynAgain(p)
  PROVE  FALSE
BY DEF WorkerSynAgain, WorkerTakes, IInv, NetInv

\* When CLOSE arrives the receiver has written everything.
LEMMA CloseArrives ==
  ASSUME IInv, NEW p \in net, p.type \in {"CLOSE", "CLOSE_ACK"}
  PROVE  /\ seq_num = N + 2 /\ next_expected = N + 1 /\ ~Fresh /\ worker # "none"
         /\ client # "connecting"
         /\ Exists => Len(file) = N
<1>1. seq_num = N + 2
  BY DEF IInv, NetInv
<1>2. next_expected = N + 1
  BY <1>1, SessionAssumption DEF IInv, SenderInv
<1>3. ~Fresh
  BY <1>1, SessionAssumption DEF Fresh
<1> QED
  BY <1>1, <1>2, <1>3, SessionAssumption DEF IInv, SessionInv, ReceiverInv

\* The client answers CLOSE and ends: the download is complete.
LEMMA ClientCloseStep ==
  ASSUME IInv, OnceOnly, NEW p \in net, ClientClose(p), UNCHANGED protocolVars
  PROVE  IInv'
<1> USE DEF ClientClose, ClientTakes
<1>1. SenderInv' /\ AckInv' /\ \A s : Got(s)' = Got(s)
  BY ProtocolUnchanged
<1>2. net' \subseteq net \union {FinAck}
  BY Exchanged
<1>3. /\ seq_num = N + 2 /\ ~Fresh /\ worker # "none"
      /\ op = "download"
  BY CloseArrives DEF ToServer, IInv, SessionInv
<1>4. SessionInv'
  BY <1>2, <1>3 DEF IInv, SessionInv, Fresh, protocolVars, Exists
<1>5. ReceiverInv'
  BY DEF IInv, ReceiverInv, protocolVars, Exists
<1>6. NetInv'
  BY <1>1, <1>2, <1>3, Fields, Sendable DEF IInv, NetInv, Fresh, protocolVars, Exists
<1> QED
  BY <1>1, <1>4, <1>5, <1>6 DEF IInv

\* The client gets CLOSE_ACK and ends: the upload is complete.
LEMMA ClientCloseFinStep ==
  ASSUME IInv, OnceOnly, NEW p \in net, ClientCloseFin(p), UNCHANGED protocolVars
  PROVE  IInv'
<1> USE DEF ClientCloseFin, ClientTakes
<1>1. SenderInv' /\ AckInv' /\ \A s : Got(s)' = Got(s)
  BY ProtocolUnchanged
<1>2. net' \subseteq net
  BY Exchanged
<1>3. /\ seq_num = N + 2 /\ ~Fresh /\ worker # "none"
      /\ N # 0 => Exists
  BY CloseArrives DEF IInv, NetInv
<1>4. SessionInv'
  BY <1>2, <1>3 DEF IInv, SessionInv, Fresh, protocolVars, Exists
<1>5. ReceiverInv'
  BY DEF IInv, ReceiverInv, protocolVars, Exists
<1>6. NetInv'
  BY <1>1, <1>2, <1>3 DEF IInv, NetInv, Fresh, protocolVars, Exists
<1> QED
  BY <1>1, <1>4, <1>5, <1>6 DEF IInv

\* The worker answers CLOSE.  A file that was never opened is one of no chunks:
\* a running worker without a file has received nothing.
LEMMA WorkerCloseStep ==
  ASSUME IInv, OnceOnly, NEW p \in net, WorkerClose(p), UNCHANGED protocolVars
  PROVE  IInv'
<1> USE DEF WorkerClose, WorkerTakes, Closed
<1>1. SenderInv' /\ AckInv' /\ \A s : Got(s)' = Got(s)
  BY ProtocolUnchanged
<1>2. net' \subseteq net \union {FinAck}
  BY Exchanged
<1>3. /\ seq_num = N + 2 /\ next_expected = N + 1 /\ ~Fresh
      /\ client # "connecting" /\ worker # "none"
  BY CloseArrives
<1>4. N # 0 => Exists
  BY <1>3, SessionAssumption DEF IInv, ReceiverInv
<1>5. SessionInv'
  BY <1>2, <1>3, <1>4 DEF IInv, SessionInv, Fresh, protocolVars, Exists
<1>6. ReceiverInv'
  BY DEF IInv, ReceiverInv, protocolVars, Exists
<1>7. NetInv'
  BY <1>1, <1>2, <1>3, <1>4, Fields, Sendable DEF IInv, NetInv, Fresh, protocolVars, Exists
<1> QED
  BY <1>1, <1>5, <1>6, <1>7 DEF IInv

\* The worker gets CLOSE_ACK and ends.
LEMMA WorkerCloseFinStep ==
  ASSUME IInv, OnceOnly, NEW p \in net, WorkerCloseFin(p), UNCHANGED protocolVars
  PROVE  IInv'
<1> USE DEF WorkerCloseFin, WorkerTakes, Closed
<1>1. SenderInv' /\ AckInv' /\ \A s : Got(s)' = Got(s)
  BY ProtocolUnchanged
<1>2. net' \subseteq net
  BY Exchanged
<1>3. ~Fresh
  BY CloseArrives
<1>4. SessionInv'
  BY <1>2, <1>3, CloseArrives DEF IInv, SessionInv, Fresh, protocolVars, Exists
<1>5. ReceiverInv'
  BY DEF IInv, ReceiverInv, protocolVars, Exists
<1>6. NetInv'
  BY <1>1, <1>2, <1>3 DEF IInv, NetInv, Fresh, protocolVars, Exists
<1> QED
  BY <1>1, <1>4, <1>5, <1>6 DEF IInv

\* A new thread starts with the first SYN only: its protocol object is as fresh
\* as the state was.
LEMMA StartStep ==
  ASSUME IInv, OnceOnly, NEW p \in net, Start(p)
  PROVE  IInv'
<1> USE DEF Start, WorkerStart, Spawns
<1>1. worker = "none" /\ Fresh /\ net = {Syn} /\ p = Syn
  BY DEF IInv, NetInv, SessionInv
<1>2. UNCHANGED <<protocolVars, cursor, file, op, handle>>
  BY <1>1 DEF Fresh, protocolVars
<1>3. SenderInv' /\ AckInv' /\ \A s : Got(s)' = Got(s)
  BY <1>2, ProtocolUnchanged
<1>4. net' \subseteq {SynAck}
  BY <1>1, Exchanged, Handshake, Sendable, Fields
<1>5. SessionInv'
  BY <1>1, <1>2, <1>4, Fields DEF IInv, SessionInv, Fresh, protocolVars, Exists
<1>6. ReceiverInv'
  BY <1>1, <1>2 DEF IInv, ReceiverInv, Fresh, protocolVars, Exists
<1>7. NetInv'
  BY <1>1, <1>2, <1>4, Fields, Sendable DEF IInv, NetInv, SessionInv, Fresh, protocolVars
<1> QED
  BY <1>3, <1>5, <1>6, <1>7 DEF IInv
-----------------------------------------------------------------------------
(* Receiving DATA.                                                          *)

\* DATA in flight was numbered by the sender and carries the chunk of its
\* number; the handshake is over at the sender.
LEMMA DataArrives ==
  ASSUME IInv, NEW p \in net, p.type = "DATA"
  PROVE  /\ p.seq \in 1..N /\ p.data = p.seq /\ p.seq < seq_num
         /\ ~Fresh /\ worker # "none" /\ client # "connecting"
         /\ \A q \in net : q.type \notin {"SYN", "SYN_ACK"}
<1>1. p.seq \in 1..N /\ p.data = p.seq /\ p.seq < seq_num
  BY Kinds DEF IInv, NetInv
<1>2. ~Fresh
  BY <1>1 DEF Fresh
<1> QED
  BY <1>1, <1>2 DEF IInv, NetInv, SessionInv

\* The buffer that holds the new chunk too.
LEMMA BufferedChunks ==
  ASSUME IInv, NEW p \in net, p.type = "DATA", ~TooFar(p), ~Repeated(p)
  PROVE  /\ DOMAIN Buffered(p) = DOMAIN buffer \union {p.seq}
         /\ \A s \in DOMAIN Buffered(p) :
              /\ s \in next_expected..N /\ s < next_expected + W /\ s < seq_num
              /\ Buffered(p)[s] = s
<1>1. p.seq \in next_expected..N /\ p.seq < next_expected + W /\ p.seq < seq_num
      /\ p.data = p.seq
  BY DataArrives, WindowAssumption, SessionAssumption DEF TooFar, Repeated, IInv, ReceiverInv
<1>2. DOMAIN Buffered(p) = DOMAIN buffer \union {p.seq}
  BY DEF Buffered
<1>3. \A s \in DOMAIN buffer : s \in next_expected..N /\ s < next_expected + W
                              /\ s < seq_num /\ buffer[s] = s
  BY SessionAssumption DEF IInv, ReceiverInv
<1>4. \A s \in DOMAIN Buffered(p) : Buffered(p)[s] = IF s = p.seq THEN p.data ELSE buffer[s]
  BY DEF Buffered
<1> QED
  BY <1>1, <1>2, <1>3, <1>4

\* The chunks written are the next ones, and nothing the receiver had is lost.
LEMMA Accepted ==
  ASSUME IInv, NEW p \in net, p.type = "DATA",
         NEW n \in Nat, Accept(p, n)
  PROVE  /\ n \in next_expected..(N + 1) /\ n <= seq_num /\ next_expected' = n
         /\ \A s \in DOMAIN buffer' : /\ s \in (n + 1)..N
                                      /\ s < n + W /\ s < seq_num
                                      /\ buffer'[s] = s
         /\ Run(Buffered(p), n) = [i \in 1..(n - next_expected) |-> next_expected + i - 1]
         /\ \A s \in Nat : Got(s) \/ s = p.seq => s < n \/ s \in DOMAIN buffer'
         /\ net' \subseteq net \union {Ack(p.seq)}
         /\ seq_num # N + 2
<1> DEFINE got == Buffered(p)
<1>1. ~TooFar(p) /\ ~Repeated(p) /\ DeliversTo(got, n) /\ next_expected' = n
  BY DEF Accept
<1>2. /\ DOMAIN got = DOMAIN buffer \union {p.seq}
      /\ \A s \in DOMAIN got :
           /\ s \in next_expected..N /\ s < next_expected + W /\ s < seq_num
           /\ got[s] = s
  BY <1>1, BufferedChunks
<1>3. buffer' = [s \in {s \in DOMAIN got : s >= n} |-> got[s]]
  BY DEF Accept
<1> HIDE DEF got
<1>t. /\ next_expected \in 1..(N + 1) /\ next_expected <= seq_num /\ seq_num \in Nat
  BY DEF IInv, ReceiverInv, SenderInv
<1>4. n \in next_expected..(next_expected + W) /\ n \notin DOMAIN got
      /\ \A s \in next_expected..(n - 1) : s \in DOMAIN got
  BY <1>1 DEF DeliversTo
<1>5. n \in next_expected..(N + 1) /\ n <= seq_num
  <2>1. CASE n = next_expected
    BY <2>1, <1>t, SessionAssumption
  <2>2. CASE n > next_expected
    <3>1. n - 1 \in DOMAIN got
      BY <2>2, <1>4, <1>t
    <3> QED
      BY <3>1, <1>2, <1>4, <1>t, SessionAssumption
  <2> QED
    BY <2>1, <2>2, <1>4, <1>t
<1>6. DOMAIN buffer' = {s \in DOMAIN got : s >= n} /\ \A s \in DOMAIN buffer' : buffer'[s] = got[s]
  BY <1>3
<1>7. \A s \in DOMAIN buffer' : /\ s \in (n + 1)..N /\ s < n + W /\ s < seq_num
                               /\ buffer'[s] = s
  <2> SUFFICES ASSUME NEW s \in DOMAIN buffer'
               PROVE  s \in (n + 1)..N /\ s < n + W /\ s < seq_num /\ buffer'[s] = s
    OBVIOUS
  <2>1. s \in DOMAIN got /\ s >= n /\ s # n /\ buffer'[s] = got[s]
    BY <1>6, <1>4
  <2>2. s \in next_expected..N /\ s < next_expected + W /\ s < seq_num /\ got[s] = s
    BY <1>2, <2>1
  <2> QED
    BY <2>1, <2>2, <1>5, <1>t, SessionAssumption, WindowAssumption
<1>8. Run(got, n) = [i \in 1..(n - next_expected) |-> next_expected + i - 1]
  <2>1. \A i \in 1..(n - next_expected) : got[next_expected + i - 1] = next_expected + i - 1
    <3> SUFFICES ASSUME NEW i \in 1..(n - next_expected)
                 PROVE  got[next_expected + i - 1] = next_expected + i - 1
      OBVIOUS
    <3>1. next_expected + i - 1 \in next_expected..(n - 1)
      BY <1>t, <1>5, SessionAssumption
    <3> QED
      BY <3>1, <1>2, <1>4
  <2> QED
    BY <2>1 DEF Run
<1>9. \A s \in Nat : Got(s) \/ s = p.seq => s < n \/ s \in DOMAIN buffer'
  BY <1>2, <1>4, <1>5, <1>6, <1>t, SessionAssumption DEF Got
<1>10. net' \subseteq net \union {Ack(p.seq)}
  BY Exchanged DEF Accept
<1>11. seq_num # N + 2
  BY <1>1, <1>t, DataArrives, SessionAssumption DEF IInv, SenderInv, Repeated
<1> QED
  BY <1>1, <1>5, <1>7, <1>8, <1>9, <1>10, <1>11 DEF got

\* DATA the receiver has, or refuses, at most sends its ACK again.
LEMMA NothingNewStep ==
  ASSUME IInv, NEW p \in net, p.type = "DATA", NothingNew(p),
         UNCHANGED <<op, client, handle, senderVars>>, UNCHANGED buffer
  PROVE  IInv'
<1> USE DEF NothingNew, receiverVars, senderVars
<1>1. SenderInv' /\ AckInv' /\ \A s : Got(s)' = Got(s)
  BY ProtocolUnchanged DEF protocolVars
<1>2. /\ p.seq \in 1..N /\ ~Fresh /\ worker # "none" /\ client # "connecting"
      /\ \A q \in net : q.type \notin {"SYN", "SYN_ACK"}
  BY DataArrives
<1>3. net' \subseteq net \union {Ack(p.seq)} /\ (~Repeated(p) => net' \subseteq net)
  BY Exchanged
<1>4. Repeated(p) => Got(p.seq)
  BY DEF Repeated, Got
<1>5. SessionInv'
  BY <1>2, <1>3, Fields DEF IInv, SessionInv, Fresh, Exists
<1>6. ReceiverInv'
  BY DEF IInv, ReceiverInv, Exists
<1>7. Ack(p.seq) \in PossiblePackets /\ Ack(p.seq).type = "ACK" /\ Ack(p.seq).seq # 0
  BY <1>2, Fields, Sendable, SessionAssumption
<1>8. NetInv'
  BY <1>1, <1>2, <1>3, <1>4, <1>7, Fields DEF IInv, NetInv, Fresh, Exists
<1> QED
  BY <1>1, <1>5, <1>6, <1>8 DEF IInv

\* What two sequences make together (FileHandler.write appends).
LEMMA ConcatFacts ==
  ASSUME NEW S, NEW s \in Seq(S), NEW t \in Seq(S)
  PROVE  /\ s \o t \in Seq(S) /\ Len(s \o t) = Len(s) + Len(t)
         /\ \A i \in 1..(Len(s) + Len(t)) :
              (s \o t)[i] = IF i <= Len(s) THEN s[i] ELSE t[i - Len(s)]
  OBVIOUS

\* New DATA: what is acknowledged is in the file or in the buffer, unless the
\* worker dies because the file is not open.
LEMMA AcceptStep ==
  ASSUME IInv, NEW p \in net, p.type = "DATA",
         NEW n \in Nat, Accept(p, n),
         UNCHANGED <<op, client, handle, senderVars>>,
         \/ /\ Writes(p, n) /\ UNCHANGED worker
            /\ n > next_expected => Exists
         \/ /\ UNCHANGED file /\ worker' = "crashed" /\ ~Exists
  PROVE  IInv'
<1> USE DEF senderVars
<1>1. /\ n \in next_expected..(N + 1) /\ n <= seq_num /\ next_expected' = n
      /\ \A s \in DOMAIN buffer' : /\ s \in (n + 1)..N
                                   /\ s < n + W /\ s < seq_num
                                   /\ buffer'[s] = s
      /\ Run(Buffered(p), n) = [i \in 1..(n - next_expected) |-> next_expected + i - 1]
      /\ \A s \in Nat : Got(s) \/ s = p.seq => s < n \/ s \in DOMAIN buffer'
      /\ net' \subseteq net \union {Ack(p.seq)}
      /\ seq_num # N + 2
  BY Accepted
<1>2. /\ p.seq \in 1..N /\ ~Fresh /\ worker # "none" /\ client # "connecting"
      /\ \A q \in net : q.type \notin {"SYN", "SYN_ACK"}
  BY DataArrives
<1>3. \A s \in Nat : Got(s) \/ s = p.seq => Got(s)'
  BY <1>1 DEF Got
<1>4. SenderInv'
  BY <1>1 DEF IInv, SenderInv, Seqs
<1>5. AckInv'
  BY <1>3 DEF IInv, AckInv, SenderInv, Seqs
<1>6. SessionInv'
  BY <1>1, <1>2, Fields DEF IInv, SessionInv, Exists
<1>7. ReceiverInv'
  <2>t. /\ next_expected \in 1..(N + 1) /\ file \in Seq(1..N)
        /\ \A i \in 1..Len(file) : file[i] = i
        /\ Exists => Len(file) = next_expected - 1
        /\ ~Exists => file = <<>> /\ (worker = "running" => next_expected = 1)
    BY DEF IInv, ReceiverInv
  <2>1. CASE Writes(p, n) /\ UNCHANGED worker /\ (n > next_expected => Exists)
    <3> DEFINE run == [i \in 1..(n - next_expected) |-> next_expected + i - 1]
    <3>1. run \in Seq(1..N) /\ Len(run) = n - next_expected
      BY <1>1, <2>t, SessionAssumption
    <3>2. file' = file \o run
      BY <2>1, <1>1 DEF Writes
    <3>3. /\ file' \in Seq(1..N) /\ Len(file') = Len(file) + n - next_expected
          /\ \A i \in 1..Len(file') :
               file'[i] = IF i <= Len(file) THEN file[i] ELSE run[i - Len(file)]
      BY <3>1, <3>2, <2>t, <1>1, SessionAssumption
    <3>4. n = next_expected \/ Len(file) = next_expected - 1
      BY <2>1, <2>t, <1>1
    <3>l. Len(file) \in Nat /\ Len(file') \in Nat
      BY <3>3, <2>t
    <3>5. ASSUME NEW i \in 1..Len(file') PROVE file'[i] = i
      <4>1. CASE i <= Len(file)
        <5>1. i \in 1..Len(file)
          BY <4>1, <3>l
        <5>2. file'[i] = file[i]
          BY <4>1, <3>3
        <5> QED
          BY <5>1, <5>2, <2>t
      <4>2. CASE i > Len(file)
        <5>1. Len(file) = next_expected - 1 /\ i - Len(file) \in 1..(n - next_expected)
          BY <4>2, <3>3, <3>4, <3>l, <2>t, <1>1
        <5>2. file'[i] = run[i - Len(file)]
          BY <4>2, <3>3, <3>l
        <5> QED
          BY <5>1, <5>2, <3>l, <2>t
      <4> QED
        BY <4>1, <4>2, <3>l
    <3>6. Exists' => Len(file') = n - 1
      <4>1. Exists' => Exists
        BY DEF Exists
      <4>2. Exists => Len(file) = next_expected - 1
        BY <2>t
      <4>3. Len(file') = Len(file) + n - next_expected
        BY <3>3
      <4>4. next_expected \in Nat
        BY <2>t, SessionAssumption
      <4> QED
        BY <4>1, <4>2, <4>3, <4>4, <3>l
    <3>7. ~Exists' => file' = <<>> /\ (worker' = "running" => n = 1)
      <4>1. SUFFICES ASSUME ~Exists' PROVE file' = <<>> /\ (worker' = "running" => n = 1)
        OBVIOUS
      <4>2. ~Exists /\ n = next_expected
        BY <4>1, <2>1, <1>1, <2>t DEF Exists
      <4>3. file' = file
        BY <4>2, <3>2, <2>t, SessionAssumption
      <4> QED
        BY <4>2, <4>3, <2>1, <2>t
    <3> QED
      BY <3>3, <3>5, <3>6, <3>7, <1>1, <2>t, SessionAssumption DEF ReceiverInv
  <2>2. CASE UNCHANGED file /\ worker' = "crashed" /\ ~Exists
    BY <2>2, <2>t, <1>1 DEF ReceiverInv, Exists
  <2> QED
    BY <2>1, <2>2
<1>8. Ack(p.seq) \in PossiblePackets /\ Ack(p.seq).type = "ACK" /\ Ack(p.seq).seq = p.seq /\ p.seq # 0
  BY <1>2, Fields, Sendable, SessionAssumption
<1>9. NetInv'
  <2> SUFFICES ASSUME NEW q \in net'
               PROVE  NetInv!(q)'
    BY DEF NetInv
  <2>1. CASE q \in net
    <3>1. NetInv!(q)
      BY <2>1 DEF IInv, NetInv
    <3>2. q.type = "ACK" => q.seq \in Nat
      BY <3>1, Kinds, SessionAssumption
    <3> QED
      BY <2>1, <3>1, <3>2, <1>1, <1>2, <1>3 DEF Exists
  <2>2. CASE q = Ack(p.seq)
    BY <2>2, <1>2, <1>3, <1>8, Kinds, SessionAssumption
  <2> QED
    BY <2>1, <2>2, <1>1
<1> QED
  BY <1>4, <1>5, <1>6, <1>7, <1>9 DEF IInv
-----------------------------------------------------------------------------
(* Sending.                                                                 *)

\* read returns no more chunks than asked for, and no more than there are.
LEMMA ReadBounds ==
  ASSUME NEW at \in 0..N, NEW advance \in Nat
  PROVE  /\ Read(at, advance) \in 0..advance
         /\ at + Read(at, advance) \in 0..N
         /\ Read(at, advance) = 0 => advance = 0 \/ at = N
BY SessionAssumption DEF Read

\* Before CLOSE the number of a pushed packet is the position of its chunk.
LEMMA PushedPackets ==
  ASSUME cursor \in 0..N, seq_num = cursor + 1, NEW advance \in Nat
  PROVE  /\ \A q \in Pushed(cursor, advance) :
              \E s \in seq_num..(seq_num + Read(cursor, advance) - 1) : q = Data(s, s)
         /\ \A s \in seq_num..(seq_num + Read(cursor, advance) - 1) :
              Data(s, s) \in Pushed(cursor, advance)
<1> DEFINE k == Read(cursor, advance)
<1>1. k \in Nat
  <2>1. k \in 0..advance
    BY ReadBounds
  <2> QED
    BY <2>1
<1> HIDE DEF k
<1>2. Pushed(cursor, advance) = {Data(seq_num + i, cursor + i + 1) : i \in 0..(k - 1)}
  BY DEF Pushed, k
<1>3. ASSUME NEW q \in Pushed(cursor, advance)
      PROVE  \E s \in seq_num..(seq_num + k - 1) : q = Data(s, s)
  <2>1. PICK i \in 0..(k - 1) : q = Data(seq_num + i, cursor + i + 1)
    BY <1>2
  <2>2. seq_num + i = cursor + i + 1 /\ seq_num + i \in seq_num..(seq_num + k - 1)
    BY <1>1, SessionAssumption
  <2> QED
    BY <2>1, <2>2
<1>4. ASSUME NEW s \in seq_num..(seq_num + k - 1)
      PROVE  Data(s, s) \in Pushed(cursor, advance)
  <2>1. s - seq_num \in 0..(k - 1) /\ seq_num + (s - seq_num) = s
        /\ cursor + (s - seq_num) + 1 = s
    BY <1>1, SessionAssumption
  <2> QED
    BY <2>1, <1>2
<1> QED
  BY <1>3, <1>4 DEF k

\* The receiver that has every number below seq_num waits for seq_num.
LEMMA AllGot ==
  ASSUME IInv, \A s \in 1..(seq_num - 1) : Got(s), seq_num = N + 1
  PROVE  next_expected = N + 1
<1>1. next_expected \in 1..(N + 1) /\ next_expected \notin DOMAIN buffer
  BY SessionAssumption DEF IInv, ReceiverInv
<1>2. next_expected <= N => Got(next_expected)
  BY <1>1, SessionAssumption
<1> QED
  BY <1>1, <1>2, SessionAssumption DEF Got

\* handle_ack: win is what an acknowledgement left of the window and b where it
\* begins now; advance is how far it moved, or the whole window at the start.
LEMMA Handled ==
  ASSUME IInv, NEW win \in SUBSET window, NEW advance \in Nat,
         NEW b \in base..seq_num,
         seq_num = cursor + 1, seq_num + advance <= b + W,
         advance = 0 => win # {},
         \A q \in win : q.seq >= b,
         b < seq_num => b \in Seqs(win),
         \A s \in 1..(seq_num - 1) : s \in Seqs(win) \/ Got(s),
         HandleAck(cursor, advance, win), base' = b,
         UNCHANGED receiverVars, UNCHANGED buffer
  PROVE  /\ SenderInv' /\ AckInv' /\ seq_num' >= seq_num
         /\ \A q \in NewPackets(cursor, advance, win) : Current(q)'
<1> DEFINE k == Read(cursor, advance)
<1>t. /\ cursor \in 0..N /\ seq_num \in 1..(N + 1) /\ base \in 1..seq_num /\ b \in Nat
      /\ \A q \in win : /\ q \in PossiblePackets /\ q.type \in {"DATA", "CLOSE"}
                        /\ q.seq \in b..(seq_num - 1)
  BY SessionAssumption DEF IInv, SenderInv
<1>k. k \in 0..advance /\ cursor + k \in 0..N /\ (k = 0 => advance = 0 \/ cursor = N)
  BY ReadBounds, <1>t
<1>g. \A s : Got(s)' = Got(s)
  BY DEF Got, receiverVars
<1> HIDE DEF k
<1>1. CASE Finishes(cursor, advance, win)
  <2>1. k = 0 /\ win = {} /\ cursor = N /\ seq_num = N + 1 /\ b = seq_num
    BY <1>1, <1>k, <1>t DEF Finishes, k, Seqs
  <2>2. /\ window' = {Fin(N + 1)} /\ seq_num' = N + 2 /\ cursor' = N
        /\ NewPackets(cursor, advance, win) = {Fin(N + 1)}
    BY <1>1, <2>1, SessionAssumption DEF HandleAck, NewPackets, k
  <2>3. next_expected = N + 1
    BY <2>1, AllGot DEF Seqs
  <2>4. Fin(N + 1) \in PossiblePackets /\ Fin(N + 1).type = "CLOSE" /\ Fin(N + 1).seq = N + 1
    BY Sendable, Fields
  <2>5. Seqs(window') = {N + 1}
    BY <2>2, <2>4 DEF Seqs
  <2>6. SenderInv'
    BY <2>1, <2>2, <2>3, <2>4, <2>5, SessionAssumption, WindowAssumption
       DEF SenderInv, receiverVars, Seqs
  <2>7. AckInv'
    <3> SUFFICES ASSUME NEW s \in 1..(seq_num' - 1)
                 PROVE  s \in Seqs(window') \/ Got(s)
      BY <1>g, <2>2 DEF AckInv, Seqs
    <3>1. s = N + 1 \/ s \in 1..(seq_num - 1)
      BY <2>1, <2>2, SessionAssumption
    <3> QED
      BY <3>1, <2>1, <2>5 DEF Seqs
  <2> QED
    BY <2>1, <2>2, <2>4, <2>6, <2>7, SessionAssumption DEF Current
<1>2. CASE ~Finishes(cursor, advance, win)
  <2> DEFINE pushed == Pushed(cursor, advance)
  <2>1. /\ window' = win \union pushed /\ seq_num' = seq_num + k /\ cursor' = cursor + k
        /\ NewPackets(cursor, advance, win) = pushed
    BY <1>2 DEF HandleAck, NewPackets, k
  <2>2. /\ \A q \in pushed : \E s \in seq_num..(seq_num + k - 1) : q = Data(s, s)
        /\ \A s \in seq_num..(seq_num + k - 1) : Data(s, s) \in pushed
    BY PushedPackets, <1>t DEF k
  <2> HIDE DEF pushed
  <2>3. \A q \in pushed : /\ q \in PossiblePackets /\ q.type = "DATA"
                         /\ q.seq \in seq_num..(seq_num + k - 1)
    BY <2>2, <1>t, <1>k, Sendable, Fields, SessionAssumption
  <2>4. \A s \in seq_num..(seq_num + k - 1) : s \in {q.seq : q \in pushed}
    BY <2>2, Fields
  <2>5. \A q \in window' : /\ q \in PossiblePackets /\ q.type \in {"DATA", "CLOSE"}
                          /\ q.seq \in b..(seq_num' - 1)
    BY <2>1, <2>3, <1>t, <1>k
  <2>6. b < seq_num' => b \in Seqs(window')
    BY <2>1, <2>4, <1>t, <1>k DEF Seqs
  <2>7. SenderInv'
    BY <2>1, <2>5, <2>6, <1>t, <1>k, SessionAssumption, WindowAssumption DEF SenderInv
  <2>8. AckInv'
    <3> SUFFICES ASSUME NEW s \in 1..(seq_num' - 1)
                 PROVE  s \in Seqs(window') \/ Got(s)
      BY <1>g, <2>1 DEF AckInv, Seqs
    <3>1. CASE s < seq_num
      BY <3>1, <2>1, <1>t DEF Seqs
    <3>2. CASE s >= seq_num
      BY <3>2, <2>1, <2>4, <1>t, <1>k DEF Seqs
    <3> QED
      BY <3>1, <3>2, <1>t
  <2> QED
    BY <2>1, <2>3, <2>7, <2>8, <1>t, <1>k DEF Current
<1> QED
  BY <1>1, <1>2

\* An ACK that is not discarded names a number the receiver has, and CLOSE was
\* not sent yet.
LEMMA AckArrives ==
  ASSUME IInv, NEW p \in net, p.type = "ACK", p.seq # 0, p.seq >= base
  PROVE  /\ p.seq \in base..(seq_num - 1) /\ Got(p.seq)
         /\ seq_num = cursor + 1 /\ handle # "closed"
         /\ ~Fresh /\ worker # "none" /\ client \notin {"connecting", "done"}
         /\ \A q \in net : q.type \notin {"SYN", "SYN_ACK", "CLOSE", "CLOSE_ACK"}
<1>1. p.seq \in 0..N /\ Got(p.seq)
  BY Kinds DEF IInv, NetInv
<1>2. /\ seq_num \in Nat /\ base \in 1..seq_num /\ cursor \in 0..N
      /\ next_expected \in 1..(N + 1) /\ next_expected <= seq_num
      /\ \A s \in DOMAIN buffer : s < seq_num
  BY DEF IInv, SenderInv, ReceiverInv
<1>3. p.seq \in base..(seq_num - 1)
  BY <1>1, <1>2, SessionAssumption DEF Got
<1>4. seq_num = cursor + 1
  <2>1. SUFFICES ASSUME window = {Fin(N + 1)}, seq_num = N + 2 PROVE FALSE
    BY DEF IInv, SenderInv
  <2>2. base \in Seqs(window)
    BY <1>2, <1>3 DEF IInv, SenderInv
  <2>3. base = N + 1
    BY <2>1, <2>2, Fields DEF Seqs
  <2> QED
    BY <2>3, <1>1, <1>2, SessionAssumption
<1>5. seq_num # N + 2 /\ ~Fresh
  BY <1>2, <1>3, <1>4, SessionAssumption DEF Fresh
<1> QED
  BY <1>1, <1>3, <1>4, <1>5 DEF IInv, SessionInv, NetInv

\* The window after an ACK: what left it is at the receiver.
LEMMA Slid ==
  ASSUME IInv, NEW p \in net, p.type = "ACK", p.seq # 0, p.seq >= base,
         NEW b, SlidesTo(Unacked(p.seq), b)
  PROVE  /\ Unacked(p.seq) \subseteq window /\ b \in base..seq_num
         /\ \A q \in Unacked(p.seq) : q.seq >= b
         /\ b < seq_num => b \in Seqs(Unacked(p.seq))
         /\ b - base \in Nat /\ seq_num + (b - base) <= b + W
         /\ b - base = 0 => Unacked(p.seq) # {}
         /\ \A s \in 1..(seq_num - 1) : s \in Seqs(Unacked(p.seq)) \/ Got(s)
<1> DEFINE win == Unacked(p.seq)
<1>1. /\ seq_num \in Nat /\ base \in 1..seq_num /\ seq_num <= base + W
      /\ \A q \in window : q.seq \in base..(seq_num - 1)
  BY DEF IInv, SenderInv
<1>2. p.seq \in base..(seq_num - 1) /\ Got(p.seq)
  BY AckArrives
<1>3. win \subseteq window
  BY DEF Unacked
<1>4. /\ b \in base..seq_num /\ \A s \in base..(b - 1) : s \notin Seqs(win)
      /\ b < seq_num => b \in Seqs(win)
  BY DEF SlidesTo
<1>5. ASSUME NEW q \in win PROVE q.seq >= b
  BY <1>1, <1>3, <1>4 DEF Seqs
<1>6. b - base \in Nat /\ seq_num + (b - base) <= b + W
  BY <1>1, <1>4, WindowAssumption
<1>7. b - base = 0 => win # {}
  BY <1>1, <1>2, <1>4 DEF Seqs
<1>8. ASSUME NEW s \in 1..(seq_num - 1) PROVE s \in Seqs(win) \/ Got(s)
  BY <1>2 DEF IInv, AckInv, Seqs, Unacked
<1> QED
  BY <1>3, <1>4, <1>5, <1>6, <1>7, <1>8

\* ACK of new data: the window slides and the sender goes on.
LEMMA AckStep ==
  ASSUME IInv, NEW p \in net, p.type = "ACK", p.seq # 0, p.seq >= base,
         NEW b, SlidesTo(Unacked(p.seq), b), base' = b,
         HandleAck(cursor, b - base, Unacked(p.seq)),
         NEW late \in SUBSET window,
         Exchange(p, late \union NewPackets(cursor, b - base, Unacked(p.seq))),
         UNCHANGED <<op, client, worker, handle, receiverVars, buffer>>
  PROVE  IInv'
<1> USE DEF receiverVars
<1> DEFINE new == NewPackets(cursor, b - base, Unacked(p.seq))
<1>1. /\ SenderInv' /\ AckInv' /\ seq_num' >= seq_num
      /\ \A q \in new : Current(q)'
  BY Slid, AckArrives, Handled DEF receiverVars
<1>2. net' \subseteq net \union late \union new
  BY Exchanged
<1>3. /\ seq_num = cursor + 1 /\ ~Fresh /\ worker # "none" /\ handle # "closed"
      /\ client \notin {"connecting", "done"}
      /\ \A q \in net : q.type \notin {"SYN", "SYN_ACK", "CLOSE", "CLOSE_ACK"}
  BY AckArrives
<1>4. \A q \in late : Current(q) /\ q.type = "DATA"
  BY <1>3, CurrentWindow, SessionAssumption DEF Current, IInv, SenderInv
<1>5. \A s : Got(s)' = Got(s)
  BY DEF Got
<1>t. seq_num \in Nat /\ seq_num' \in Nat
  BY <1>1 DEF IInv, SenderInv
<1> HIDE DEF new
<1>6. SessionInv'
  BY <1>3 DEF IInv, SessionInv, Exists
<1>7. ReceiverInv'
  <2>1. next_expected \in Nat /\ \A s \in DOMAIN buffer : s \in Nat
    BY SessionAssumption DEF IInv, ReceiverInv
  <2> QED
    BY <2>1, <1>1, <1>t DEF IInv, ReceiverInv, Exists
<1>8. NetInv'
  <2> SUFFICES ASSUME NEW q \in net'
               PROVE  NetInv!(q)'
    BY DEF NetInv
  <2>1. CASE q \in net
    <3>1. NetInv!(q)
      BY <2>1 DEF IInv, NetInv
    <3>2. q.type = "DATA" => q.seq \in Nat
      BY <3>1, Kinds, SessionAssumption
    <3> QED
      BY <2>1, <3>1, <3>2, <1>1, <1>3, <1>5, <1>t
  <2>2. CASE q \in late
    <3>1. q.type = "DATA" => q.seq \in Nat
      BY <2>2, <1>4, Kinds, SessionAssumption DEF Current
    <3> QED
      BY <2>2, <3>1, <1>1, <1>4, <1>t DEF Current
  <2>3. CASE q \in new
    BY <2>3, <1>1 DEF Current
  <2> QED
    BY <1>2, <2>1, <2>2, <2>3
<1> QED
  BY <1>1, <1>6, <1>7, <1>8 DEF IInv

\* ACK of new data that ends the worker: the window slides, nothing is sent.
LEMMA AckFailsStep ==
  ASSUME IInv, NEW p \in net, WorkerAckFails(p)
  PROVE  IInv'
<1> USE DEF receiverVars, WorkerAckFails, WorkerTakes
<1>1. PICK b \in base..seq_num : SlidesTo(Unacked(p.seq), b) /\ base' = b
  OBVIOUS
<1>t. base \in Nat \ {0}
  BY DEF IInv, SenderInv
<1>2. p.seq # 0
  BY <1>t
<1>3. /\ Unacked(p.seq) \subseteq window
      /\ \A q \in Unacked(p.seq) : q.seq >= b
      /\ b < seq_num => b \in Seqs(Unacked(p.seq))
      /\ \A s \in 1..(seq_num - 1) : s \in Seqs(Unacked(p.seq)) \/ Got(s)
  BY <1>1, <1>2, Slid
<1>4. seq_num = cursor + 1 /\ ~Fresh /\ client \notin {"connecting", "done"} /\ worker # "none"
      /\ \A q \in net : q.type \notin {"SYN", "SYN_ACK", "CLOSE", "CLOSE_ACK"}
  BY <1>2, AckArrives
<1>5. \A s : Got(s)' = Got(s)
  BY DEF Got
<1>6. SenderInv'
  BY <1>1, <1>3, <1>4, <1>t, WindowAssumption DEF IInv, SenderInv, Seqs
<1>7. AckInv'
  BY <1>3, <1>5 DEF AckInv, Seqs
<1>8. net' \subseteq net
  BY Exchanged
<1>9. SessionInv'
  BY <1>4 DEF IInv, SessionInv, Exists
<1>10. ReceiverInv'
  BY DEF IInv, ReceiverInv, Exists
<1>11. NetInv'
  BY <1>4, <1>5, <1>8 DEF IInv, NetInv, Exists
<1> QED
  BY <1>6, <1>7, <1>9, <1>10, <1>11 DEF IInv

\* An ACK that is discarded.
LEMMA DiscardStep ==
  ASSUME IInv, NEW p \in net, DiscardAck(p),
         UNCHANGED <<op, client, handle, receiverVars, buffer>>
  PROVE  IInv'
<1> USE DEF DiscardAck, receiverVars, senderVars
<1>1. SenderInv' /\ AckInv' /\ \A s : Got(s)' = Got(s)
  BY ProtocolUnchanged DEF protocolVars
<1>2. net' \subseteq net
  BY Exchanged
<1>3. SessionInv'
  BY <1>2 DEF IInv, SessionInv, Fresh, Exists
<1>4. ReceiverInv'
  BY DEF IInv, ReceiverInv, Exists
<1>5. NetInv'
  BY <1>1, <1>2 DEF IInv, NetInv, Fresh, Exists
<1> QED
  BY <1>1, <1>3, <1>4, <1>5 DEF IInv
-----------------------------------------------------------------------------
(* The handshake.                                                           *)

\* The first window, or CLOSE when the file is empty.
LEMMA FirstWindow ==
  ASSUME IInv, Fresh, HandleAck(0, W, {}),
         UNCHANGED receiverVars, UNCHANGED <<base, buffer>>
  PROVE  /\ SenderInv' /\ AckInv' /\ seq_num' >= seq_num
         /\ \A q \in NewPackets(0, W, {}) : Current(q)'
<1>1. /\ cursor = 0 /\ seq_num = 1 /\ base = 1 /\ window = {}
      /\ base' = 1
  BY DEF Fresh
<1>2. HandleAck(cursor, W, {})
  BY <1>1
<1>3. seq_num = cursor + 1 /\ seq_num + W <= 1 + W /\ W \in Nat /\ W # 0
      /\ {} \in SUBSET window /\ 1 \in base..seq_num
      /\ (1 < seq_num => 1 \in Seqs({}))
      /\ \A s \in 1..(seq_num - 1) : s \in Seqs({}) \/ Got(s)
  BY <1>1, WindowAssumption
<1>4. /\ SenderInv' /\ AckInv' /\ seq_num' >= seq_num
      /\ \A q \in NewPackets(cursor, W, {}) : Current(q)'
  BY <1>1, <1>2, <1>3, Handled
<1> QED
  BY <1>1, <1>4

\* SYN_ACK: the sender of an upload starts from the beginning of its file.
LEMMA ClientSynAckStep ==
  ASSUME IInv, OnceOnly, NEW p \in net, ClientSynAck(p), UNCHANGED buffer
  PROVE  IInv'
<1> USE DEF ClientSynAck, ClientTakes, ClientAlive, receiverVars
<1>1. /\ p = SynAck /\ Fresh /\ Ack(0) \notin net /\ worker # "none"
      /\ client = "connecting"
      /\ p \in PossiblePackets /\ op \in {"upload", "download"}
  BY Kinds DEF IInv, NetInv, SessionInv
<1>2. \A q \in net : q = p \/ q.type \notin {"SYN", "SYN_ACK", "CLOSE", "CLOSE_ACK", "DATA"}
  BY <1>1, Kinds, SessionAssumption DEF IInv, NetInv, Fresh
<1>3. ~MayRepeat(p)
  BY <1>1, Handshake, Fields
<1>g. \A s : Got(s)' = Got(s)
  BY DEF Got
<1>4. PICK new : /\ SenderInv' /\ AckInv' /\ \A q \in new : Current(q)'
                 /\ seq_num' >= 1
                 /\ Exchange(p, {Ack(0)} \union new)
  <2>1. CASE op = "upload"
    <3>1. PICK late \in SUBSET window :
             Exchange(p, {Ack(0)} \union late \union NewPackets(cursor, W, window))
      BY <2>1
    <3>2. late = {} /\ cursor = 0 /\ window = {} /\ seq_num = 1
      BY <1>1 DEF Fresh
    <3>3. /\ SenderInv' /\ AckInv' /\ seq_num' >= seq_num
          /\ \A q \in NewPackets(0, W, {}) : Current(q)'
      BY <2>1, <1>1, <3>2, FirstWindow
    <3>4. Exchange(p, {Ack(0)} \union NewPackets(0, W, {}))
      BY <3>1, <3>2
    <3> QED
      BY <3>2, <3>3, <3>4
  <2>2. CASE op = "download"
    <3>1. SenderInv' /\ AckInv' /\ seq_num' >= 1
      BY <2>2, <1>1, ProtocolUnchanged DEF protocolVars, senderVars, Fresh
    <3>2. Exchange(p, {Ack(0)} \union {})
      <4>1. {Ack(0)} \union {} = {Ack(0)}
        OBVIOUS
      <4> QED
        BY <2>2, <4>1
    <3>3. \A q \in {} : Current(q)'
      OBVIOUS
    <3> QED
      BY <3>1, <3>2, <3>3
  <2> QED
    BY <1>1, <2>1, <2>2
<1>5. /\ net' \subseteq net \union {Ack(0)} \union new
      /\ p \notin net'
  <2>1. p \notin new /\ p # Ack(0)
    BY <1>1, <1>4, Fields DEF Current
  <2> QED
    BY <2>1, <1>3, <1>4, Exchanged
<1>6. op = "download" => Fresh'
  BY <1>1 DEF Fresh, senderVars
<1>7. SessionInv'
  BY <1>1, <1>6 DEF IInv, SessionInv, Exists, Fresh
<1>8. ReceiverInv'
  BY <1>1, <1>4, SessionAssumption DEF IInv, ReceiverInv, Exists, Fresh, NoChunks, SenderInv
<1>9. NetInv'
  <2> SUFFICES ASSUME NEW q \in net'
               PROVE  NetInv!(q)'
    BY DEF NetInv
  <2>1. CASE q \in net /\ q # p
    BY <2>1, <1>1, <1>2, <1>g, Fields, Kinds DEF IInv, NetInv, Fresh, Types
  <2>2. CASE q = Ack(0)
    BY <2>2, <1>1, Fields, Sendable, SessionAssumption DEF Fresh
  <2>3. CASE q \in new
    BY <2>3, <1>4 DEF Current
  <2> QED
    BY <1>5, <2>1, <2>2, <2>3
<1> QED
  BY <1>4, <1>7, <1>8, <1>9 DEF IInv

\* ACK 0 arrives once, before any file is opened by the worker.
LEMMA InitArrives ==
  ASSUME IInv, OnceOnly, NEW p \in net, p.type = "ACK", p.seq = 0
  PROVE  /\ handle = "none" /\ client # "connecting" /\ worker # "none"
         /\ p = Ack(0)
         /\ ~MayRepeat(p)
         /\ \A q \in net : q.type \notin {"SYN", "SYN_ACK"}
         /\ op = "download" => Fresh
<1>1. p \in PossiblePackets /\ p = Ack(0)
  BY Kinds DEF IInv, NetInv
<1> QED
  BY <1>1, Handshake DEF IInv, NetInv, SessionInv

\* ACK 0 of an upload: the file is created, empty as it was.
LEMMA WorkerCreatesStep ==
  ASSUME IInv, OnceOnly, NEW p \in net, WorkerCreates(p)
  PROVE  IInv'
<1> USE DEF WorkerCreates, WorkerTakes, senderVars
<1>1. /\ handle = "none" /\ client # "connecting" /\ worker = "running"
      /\ p = Ack(0) /\ ~MayRepeat(p) /\ op = "upload"
      /\ \A q \in net : q.type \notin {"SYN", "SYN_ACK"}
  BY InitArrives
<1>2. file = <<>> /\ next_expected = 1
  BY <1>1 DEF IInv, ReceiverInv, Exists
<1>3. SenderInv' /\ AckInv' /\ \A s : Got(s)' = Got(s)
  BY <1>2, ProtocolUnchanged DEF protocolVars
<1>4. net' \subseteq net /\ p \notin net'
  BY <1>1, Exchanged
<1>5. SessionInv'
  BY <1>1, <1>4 DEF IInv, SessionInv, Exists
<1>6. ReceiverInv'
  BY <1>1, <1>2 DEF IInv, ReceiverInv, Exists
<1>7. \A q \in net : q.type = "ACK" /\ q.seq = 0 => q = Ack(0)
  BY Kinds DEF IInv, NetInv
<1>8. NetInv'
  BY <1>1, <1>3, <1>4, <1>7 DEF IInv, NetInv, Exists
<1> QED
  BY <1>3, <1>5, <1>6, <1>8 DEF IInv

\* ACK 0 of a download: the worker sends its first window.
LEMMA WorkerOpensStep ==
  ASSUME IInv, OnceOnly, NEW p \in net, WorkerOpens(p), UNCHANGED buffer
  PROVE  IInv'
<1> USE DEF WorkerOpens, WorkerTakes, receiverVars
<1>1. /\ client # "connecting" /\ worker = "running"
      /\ p = Ack(0) /\ ~MayRepeat(p) /\ op = "download" /\ Fresh
      /\ \A q \in net : q.type \notin {"SYN", "SYN_ACK"}
  BY InitArrives
<1>2. HandleAck(0, W, {}) /\ Exchange(p, NewPackets(0, W, {})) /\ seq_num = 1
  BY <1>1 DEF Fresh
<1> DEFINE new == NewPackets(0, W, {})
<1>3. /\ SenderInv' /\ AckInv' /\ seq_num' >= 1
      /\ \A q \in new : Current(q)'
  BY <1>1, <1>2, FirstWindow DEF receiverVars
<1> HIDE DEF new
<1>4. p \notin new
  BY <1>1, <1>3, Fields DEF Current
<1>5. net' \subseteq net \union new /\ p \notin net'
  BY <1>1, <1>2, <1>4, Exchanged DEF new
<1>6. SessionInv'
  BY <1>1, SessionAssumption DEF IInv, SessionInv, Exists, Fresh
<1>7. ReceiverInv'
  BY <1>1, <1>3, SessionAssumption DEF IInv, ReceiverInv, Exists, Fresh, NoChunks, SenderInv
<1>g. \A s : Got(s)' = Got(s)
  BY DEF Got
<1>8. \A q \in net : /\ q.type = "ACK" /\ q.seq = 0 => q = Ack(0)
                    /\ q.type \notin {"SYN", "SYN_ACK", "DATA", "CLOSE", "CLOSE_ACK"}
  BY <1>1, Kinds, SessionAssumption DEF IInv, NetInv, Fresh
<1>9. NetInv'
  <2> SUFFICES ASSUME NEW q \in net'
               PROVE  NetInv!(q)'
    BY DEF NetInv
  <2>1. CASE q \in net
    BY <2>1, <1>1, <1>5, <1>8, <1>g DEF IInv, NetInv
  <2>2. CASE q \in new
    BY <2>2, <1>3 DEF Current
  <2> QED
    BY <1>5, <2>1, <2>2
<1> QED
  BY <1>3, <1>6, <1>7, <1>9 DEF IInv

\* ACK 0 of a download of a missing file; nothing can be late yet.
LEMMA WorkerOpenFailsStep ==
  ASSUME IInv, OnceOnly, NEW p \in net, WorkerOpenFails(p), UNCHANGED buffer
  PROVE  IInv'
<1>1. op = "download" /\ Fresh
  BY InitArrives DEF WorkerOpenFails, WorkerTakes
<1>2. UNCHANGED <<op, handle, cursor, file, client, protocolVars>> /\ worker' = "crashed"
      /\ Exchange(p, {})
  BY <1>1 DEF WorkerOpenFails, Fresh, receiverVars, protocolVars
<1> QED
  BY <1>2, FailStep
-----------------------------------------------------------------------------
(* Every step preserves the invariant.                                      *)

LEMMA DeliverStep ==
  ASSUME IInv, OnceOnly, NEW p \in net, Deliver(p)
  PROVE  IInv'
<1>t. next_expected \in Nat /\ next_expected + W \in Nat
  BY SessionAssumption, WindowAssumption DEF IInv, ReceiverInv
<1>1. CASE ClientSynAck(p)
  BY <1>1, ClientSynAckStep DEF ClientSynAck, receiverVars
<1>2. CASE ClientAck(p)
  <2> USE <1>2 DEF ClientAck, ClientTakes, ToServer, receiverVars
  <2>1. CASE DiscardAck(p)
    BY <2>1, DiscardStep
  <2>2. CASE ~DiscardAck(p)
    <3>1. p.seq # 0 /\ p.type = "ACK" /\ p.seq >= base
      BY <2>2
    <3>2. PICK b \in base..seq_num, late \in SUBSET Unacked(p.seq) :
             /\ SlidesTo(Unacked(p.seq), b)
             /\ base' = b
             /\ HandleAck(cursor, b - base, Unacked(p.seq))
             /\ Exchange(p, late \union NewPackets(cursor, b - base, Unacked(p.seq)))
      BY <2>2
    <3>3. late \in SUBSET window
      BY DEF Unacked
    <3> QED
      BY <2>2, <3>1, <3>2, <3>3, AckStep
  <2> QED
    BY <2>1, <2>2
<1>3. CASE ClientData(p)
  <2> USE <1>3 DEF ClientData, ClientTakes
  <2>1. CASE NothingNew(p)
    BY <2>1, NothingNewStep DEF NothingNew, receiverVars
  <2>2. CASE \E n \in next_expected..(next_expected + W) : Accept(p, n) /\ Writes(p, n)
    <3>1. PICK n \in next_expected..(next_expected + W) : Accept(p, n) /\ Writes(p, n)
      BY <2>2
    <3>2. n \in Nat /\ UNCHANGED worker /\ Exists
      BY <1>t, <3>1 DEF Exists, ToServer, IInv, SessionInv, Accept, NothingNew
    <3> QED
      BY <3>1, <3>2, AcceptStep
  <2> QED
    BY <2>1, <2>2
<1>4. CASE Start(p)
  BY <1>4, StartStep
<1>5. CASE WorkerCreates(p)
  BY <1>5, WorkerCreatesStep
<1>6. CASE WorkerOpens(p)
  BY <1>6, WorkerOpensStep DEF WorkerOpens, receiverVars
<1>7. CASE WorkerOpenFails(p)
  BY <1>7, WorkerOpenFailsStep DEF WorkerOpenFails, receiverVars
<1>8. CASE WorkerAck(p)
  <2> USE <1>8 DEF WorkerAck, WorkerTakes, receiverVars
  <2>1. CASE DiscardAck(p)
    BY <2>1, DiscardStep
  <2>2. CASE ~DiscardAck(p)
    <3>1. p.type = "ACK" /\ p.seq >= base /\ p.seq # 0
      BY <2>2 DEF IInv, SenderInv
    <3>2. PICK b \in base..seq_num :
             /\ SlidesTo(Unacked(p.seq), b)
             /\ base' = b
             /\ HandleAck(cursor, b - base, Unacked(p.seq))
             /\ Exchange(p, NewPackets(cursor, b - base, Unacked(p.seq)))
      BY <2>2
    <3>3. {} \in SUBSET window
          /\ Exchange(p, {} \union NewPackets(cursor, b - base, Unacked(p.seq)))
      <4>1. {} \union NewPackets(cursor, b - base, Unacked(p.seq))
              = NewPackets(cursor, b - base, Unacked(p.seq))
        OBVIOUS
      <4> QED
        BY <3>2, <4>1
    <3> QED
      BY <2>2, <3>1, <3>2, <3>3, AckStep
  <2> QED
    BY <2>1, <2>2
<1>9. CASE WorkerAckFails(p)
  BY <1>9, AckFailsStep
<1>10. CASE WorkerData(p)
  <2> USE <1>10 DEF WorkerData, WorkerTakes
  <2>1. CASE NothingNew(p)
    BY <2>1, NothingNewStep DEF NothingNew, receiverVars
  <2>2. CASE \E n \in next_expected..(next_expected + W) :
               /\ Accept(p, n) /\ Writes(p, n) /\ UNCHANGED worker
               /\ n > next_expected => handle = "open"
    <3>1. PICK n \in next_expected..(next_expected + W) :
               /\ Accept(p, n) /\ Writes(p, n) /\ UNCHANGED worker
               /\ n > next_expected => handle = "open"
      BY <2>2
    <3>2. n \in Nat /\ (n > next_expected => Exists)
      BY <1>t, <3>1 DEF Exists
    <3> QED
      BY <3>1, <3>2, AcceptStep
  <2> QED
    BY <2>1, <2>2
<1>11. CASE WorkerDataFails(p)
  <2> USE <1>11 DEF WorkerDataFails, WorkerTakes
  <2>1. PICK n \in (next_expected + 1)..(next_expected + W) : Accept(p, n)
    OBVIOUS
  <2>2. n \in Nat /\ n > next_expected /\ p.type = "DATA"
    BY <1>t
  <2>3. ~Exists
    <3>1. seq_num # N + 2
      BY <2>1, <2>2, Accepted
    <3> QED
      BY <3>1 DEF Exists, ToServer, IInv, SessionInv
  <2> QED
    BY <2>1, <2>2, <2>3, AcceptStep
<1>12. CASE SessionStep(p)
  <2> USE <1>12 DEF SessionStep, protocolVars
  <2>1. CASE ClientClose(p)
    BY <2>1, ClientCloseStep
  <2>2. CASE ClientCloseFin(p)
    BY <2>2, ClientCloseFinStep
  <2>3. CASE WorkerOversized(p)
    BY <2>3, FailStep DEF WorkerOversized
  <2>4. CASE WorkerRefuses(p)
    BY <2>4, FailStep DEF WorkerRefuses
  <2>5. CASE WorkerSynAgain(p)
    BY <2>5, WorkerSynAgainStep
  <2>6. CASE WorkerClose(p)
    BY <2>6, WorkerCloseStep
  <2>7. CASE WorkerCloseFin(p)
    BY <2>7, WorkerCloseFinStep
  <2>8. CASE Swallow(p)
    BY <2>8, VanishStep DEF Swallow
  <2> QED
    BY <2>1, <2>2, <2>3, <2>4, <2>5, <2>6, <2>7, <2>8
<1> QED
  BY <1>1, <1>2, <1>3, <1>4, <1>5, <1>6, <1>7, <1>8, <1>9, <1>10, <1>11, <1>12 DEF Deliver

LEMMA NextInv == IInv /\ OnceOnly /\ [Next]_vars => IInv'
<1> SUFFICES ASSUME IInv, OnceOnly, [Next]_vars
             PROVE  IInv'
  OBVIOUS
<1>1. ASSUME NEW p \in net, Deliver(p) PROVE IInv'
  BY <1>1, DeliverStep
<1>2. ASSUME NEW p \in net, Disturb(p) PROVE IInv'
  <2> USE <1>2 DEF Disturb, protocolVars
  <2>1. CASE Lose(p)
    BY <2>1, VanishStep DEF Lose
  <2>2. CASE DeliverCorrupt(p)
    BY <2>2, FailStep DEF DeliverCorrupt
  <2> QED
    BY <2>1, <2>2
<1>3. CASE ClientTimeout
  BY <1>3, ResendStep DEF ClientTimeout, protocolVars
<1>4. CASE WorkerTimeout
  BY <1>4, ResendStep DEF WorkerTimeout, protocolVars
<1>5. CASE GiveUp
  BY <1>5, ConnectTimeoutStep, WorkerInactiveStep DEF GiveUp, protocolVars
<1>6. CASE UNCHANGED vars
  <2>1. SenderInv' /\ AckInv' /\ \A s : Got(s)' = Got(s)
    BY <1>6, ProtocolUnchanged DEF vars, sessionVars, protocolVars
  <2>2. SessionInv' /\ ReceiverInv'
    BY <1>6 DEF IInv, SessionInv, ReceiverInv, Fresh, Exists, vars, sessionVars
  <2>3. NetInv'
    BY <1>6, <2>1 DEF IInv, NetInv, Fresh, Exists, vars, sessionVars
  <2> QED
    BY <2>1, <2>2, <2>3 DEF IInv
<1> QED
  BY <1>1, <1>2, <1>3, <1>4, <1>5, <1>6 DEF Next

\* The inductive invariant holds throughout every behaviour.
THEOREM Invariance == OnceOnly /\ Spec => []IInv
<1>1. OnceOnly /\ Init => IInv /\ OnceOnly
  BY InitInv
<1>2. IInv /\ OnceOnly /\ [Next]_vars => (IInv /\ OnceOnly)'
  BY NextInv DEF OnceOnly
<1> QED
  BY <1>1, <1>2, PTL DEF Spec
-----------------------------------------------------------------------------
(* What follows from it.                                                    *)

\* The destination file is a prefix of the source in every state: chunks are
\* written in order and once (Client.handle_data, Server._handle_data).
THEOREM PrefixCorrect == OnceOnly /\ Spec => []FileIsPrefix
<1>1. IInv => FileIsPrefix
  <2> SUFFICES ASSUME IInv PROVE FileIsPrefix
    OBVIOUS
  <2>1. Len(file) <= N
    BY SessionAssumption DEF IInv, ReceiverInv
  <2> QED
    BY <2>1 DEF IInv, ReceiverInv, FileIsPrefix
<1> QED
  BY <1>1, Invariance, PTL

\* A client that ended normally left a complete copy, if the file is not empty
\* (Client.handle_close, handle_close_fin).
THEOREM CompleteCorrect == OnceOnly /\ N # 0 /\ Spec => []DoneMeansComplete
<1>1. IInv /\ N # 0 => DoneMeansComplete
  <2> SUFFICES ASSUME IInv, N # 0, client = "done" PROVE Exists /\ Len(file) = N
    BY DEF DoneMeansComplete
  <2>1. seq_num = N + 2 /\ Exists
    BY DEF IInv, SessionInv
  <2>2. next_expected = N + 1
    BY <2>1, SessionAssumption DEF IInv, SenderInv
  <2> QED
    BY <2>1, <2>2, SessionAssumption DEF IInv, ReceiverInv
<1>2. N # 0 => [](N # 0)
  OBVIOUS
<1> QED
  BY <1>1, <1>2, Invariance, PTL

\* The window never begins beyond what the receiver waits for.
LEMMA BaseReceived == IInv => base <= next_expected
<1> SUFFICES ASSUME IInv, next_expected < base PROVE FALSE
  BY DEF IInv, SenderInv, ReceiverInv
<1>1. next_expected \in 1..(seq_num - 1) /\ next_expected \notin DOMAIN buffer
  BY SessionAssumption DEF IInv, SenderInv, ReceiverInv
<1>2. next_expected \notin Seqs(window)
  BY <1>1 DEF IInv, SenderInv, Seqs
<1> QED
  BY <1>1, <1>2 DEF IInv, AckInv, Got

\* The receiver never has to refuse DATA as too far in the future (_handle_data).
THEOREM NeverTooFar == OnceOnly /\ Spec => []NoDataRefused
<1>1. IInv => NoDataRefused
  <2> SUFFICES ASSUME IInv, NEW p \in net, p.type = "DATA" PROVE ~TooFar(p)
    BY DEF NoDataRefused
  <2>1. p.seq \in Nat /\ p.seq < seq_num
    BY DataArrives, SessionAssumption
  <2> QED
    BY <2>1, BaseReceived, WindowAssumption DEF IInv, SenderInv, ReceiverInv, TooFar
<1> QED
  BY <1>1, Invariance, PTL

\* Neither buffer outgrows the window size (handle_ack reads as many chunks as
\* the window slid, _handle_data buffers nothing beyond the window).
THEOREM Bounded == OnceOnly /\ Spec => []BuffersBounded
<1>1. IInv => BuffersBounded
  <2> SUFFICES ASSUME IInv PROVE BuffersBounded
    OBVIOUS
  <2>t. base \in Int /\ next_expected \in Int /\ seq_num \in Int /\ W \in Int /\ W > 0
    BY WindowAssumption, SessionAssumption DEF IInv, SenderInv, ReceiverInv
  <2>1. Cardinality(window) <= W
    <3> DEFINE slots == base..(base + W - 1)
               seqOf == [q \in window |-> q.seq]
    <3>1. \A q \in window : q.seq \in slots
      BY <2>t DEF IInv, SenderInv
    <3>2. \A q, r \in window : q.seq = r.seq => q = r
      <4> SUFFICES ASSUME NEW q \in window, NEW r \in window, q.seq = r.seq PROVE q = r
        OBVIOUS
      <4>1. q \in PossiblePackets /\ r \in PossiblePackets
            /\ q.type \in {"DATA", "CLOSE"} /\ r.type \in {"DATA", "CLOSE"}
        BY DEF IInv, SenderInv
      <4>2. CASE q.type = r.type
        BY <4>1, <4>2, Kinds
      <4>3. CASE q.type # r.type
        BY <4>1, <4>3, Kinds, SessionAssumption
      <4> QED
        BY <4>2, <4>3
    <3>3. seqOf \in Injection(window, slots)
      BY <3>1, <3>2 DEF Injection, IsInjective
    <3>4. IsFiniteSet(slots) /\ Cardinality(slots) = W
      BY <2>t, FS_Interval
    <3> QED
      BY <3>3, <3>4, FS_Injection
  <2>2. Cardinality(DOMAIN buffer) < W
    <3> DEFINE slots == (next_expected + 1)..(next_expected + W - 1)
    <3>1. DOMAIN buffer \subseteq slots
      BY <2>t, SessionAssumption DEF IInv, ReceiverInv
    <3>2. IsFiniteSet(slots) /\ Cardinality(slots) = W - 1
      BY <2>t, FS_Interval
    <3>3. IsFiniteSet(DOMAIN buffer) /\ Cardinality(DOMAIN buffer) <= Cardinality(slots)
      BY <3>1, <3>2, FS_Subset
    <3>4. Cardinality(DOMAIN buffer) \in Nat
      BY <3>3, FS_CardinalityType
    <3> QED
      BY <2>t, <3>2, <3>3, <3>4
  <2> QED
    BY <2>1, <2>2 DEF BuffersBounded
<1> QED
  BY <1>1, Invariance, PTL
-----------------------------------------------------------------------------
(* Selective Repeat implements FileTransfer.                                *)

\* The file that is written in full.
LEMMA WholeFile ==
  ASSUME IInv, Exists, next_expected = N + 1
  PROVE  file = FT!Prefix(N)
<1>1. Len(file) = N /\ file \in Seq(1..N) /\ \A i \in 1..N : file[i] = i
  BY SessionAssumption DEF IInv, ReceiverInv
<1> QED
  BY <1>1, SessionAssumption DEF FT!Prefix

\* New chunks are a delivery, if any was completed.
LEMMA AcceptRefines ==
  ASSUME IInv, NEW p \in net, p.type = "DATA", NEW n \in Nat, Accept(p, n), Writes(p, n),
         n > next_expected => Exists, UNCHANGED <<op, handle, client>>
  PROVE  FT!Deliver \/ UNCHANGED FT!ftVars
<1>1. /\ n \in next_expected..(N + 1)
      /\ Run(Buffered(p), n) = [i \in 1..(n - next_expected) |-> next_expected + i - 1]
      /\ seq_num # N + 2
  BY Accepted
<1>2. /\ next_expected \in 1..(N + 1) /\ file \in Seq(1..N)
      /\ \A i \in 1..Len(file) : file[i] = i
      /\ Exists => Len(file) = next_expected - 1
  BY DEF IInv, ReceiverInv
<1>3. UNCHANGED <<Exists, Outcome>>
  BY DEF Exists, Outcome
<1>4. CASE n = next_expected
  <2>1. Run(Buffered(p), n) = <<>>
    BY <1>1, <1>2, <1>4, SessionAssumption
  <2>2. file' = file
    BY <2>1, <1>2 DEF Writes
  <2> QED
    BY <2>2, <1>3 DEF FT!ftVars
<1>5. CASE n > next_expected
  <2> DEFINE run == [i \in 1..(n - next_expected) |-> next_expected + i - 1]
  <2>1. Exists /\ Len(file) = next_expected - 1 /\ n - 1 \in (Len(file) + 1)..N
    BY <1>1, <1>2, <1>5, SessionAssumption
  <2>2. run \in Seq(1..N) /\ Len(run) = n - next_expected
    BY <1>1, <1>2, SessionAssumption
  <2>3. file' = file \o run
    BY <1>1 DEF Writes
  <2>4. /\ file' \in Seq(1..N) /\ Len(file') = Len(file) + Len(run)
        /\ \A i \in 1..(Len(file) + Len(run)) :
             file'[i] = IF i <= Len(file) THEN file[i] ELSE run[i - Len(file)]
    <3> HIDE DEF run
    <3> QED
      BY <2>2, <2>3, <1>2, ConcatFacts
  <2>l. Len(file') = n - 1 /\ Len(file) \in Nat /\ n - 1 \in Nat
    BY <2>1, <2>2, <2>4, <1>1, <1>2, SessionAssumption
  <2>5. \A i \in 1..(n - 1) : file'[i] = i
    <3> SUFFICES ASSUME NEW i \in 1..(n - 1) PROVE file'[i] = i
      OBVIOUS
    <3>i. i \in Int /\ i \in 1..(Len(file) + Len(run))
      BY <2>1, <2>2, <1>1, <1>2, SessionAssumption
    <3>1. CASE i <= Len(file)
      <4>1. i \in 1..Len(file)
        BY <3>1, <3>i, <2>l
      <4>2. file'[i] = file[i]
        BY <3>1, <3>i, <2>4
      <4> QED
        BY <4>1, <4>2, <1>2
    <3>2. CASE ~(i <= Len(file))
      <4> DEFINE k == i - Len(file)
      <4>1. k \in 1..(n - next_expected) /\ next_expected + k - 1 = i
        BY <3>2, <3>i, <2>1, <2>2, <2>l, <1>1, <1>2, SessionAssumption
      <4>2. file'[i] = run[k]
        <5> HIDE DEF run
        <5> QED
          BY <3>2, <3>i, <2>4
      <4>3. run[k] = next_expected + k - 1
        BY <4>1
      <4> QED
        BY <4>1, <4>2, <4>3
    <3> QED
      BY <3>1, <3>2
  <2>6. file' = FT!Prefix(n - 1)
    BY <2>4, <2>l, <2>5 DEF FT!Prefix
  <2>7. Outcome # "success"
    BY <1>1 DEF Outcome, IInv, SessionInv
  <2> QED
    BY <2>1, <2>6, <2>7, <1>3 DEF FT!Deliver
<1> QED
  BY <1>1, <1>2, <1>4, <1>5, SessionAssumption

\* Every delivery of a packet is a step of FileTransfer, or none.
LEMMA DeliverRefines ==
  ASSUME IInv, OnceOnly, N # 0, NEW p \in net, Deliver(p)
  PROVE  FT!FTNext \/ UNCHANGED FT!ftVars
<1> USE DEF FT!ftVars
<1>t. next_expected \in Nat /\ next_expected + W \in Nat
  BY SessionAssumption, WindowAssumption DEF IInv, ReceiverInv
<1>1. CASE ClientSynAck(p)
  BY <1>1 DEF ClientSynAck, ClientTakes, ClientAlive, receiverVars, Exists, Outcome
<1>2. CASE ClientAck(p)
  BY <1>2 DEF ClientAck, receiverVars, Exists, Outcome
<1>3. CASE ClientData(p)
  <2> USE <1>3 DEF ClientData, ClientTakes
  <2>1. CASE NothingNew(p)
    BY <2>1 DEF NothingNew, receiverVars, Exists, Outcome
  <2>2. CASE \E n \in next_expected..(next_expected + W) : Accept(p, n) /\ Writes(p, n)
    <3>1. PICK n \in next_expected..(next_expected + W) : Accept(p, n) /\ Writes(p, n)
      BY <2>2
    <3>2. n \in Nat /\ Exists
      BY <1>t, <3>1 DEF Exists, ToServer, IInv, SessionInv
    <3> QED
      BY <3>1, <3>2, AcceptRefines DEF FT!FTNext
  <2> QED
    BY <2>1, <2>2
<1>4. CASE Start(p)
  <2>1. worker = "none" /\ Fresh
    BY <1>4 DEF Start, WorkerStart, Spawns, IInv, NetInv, SessionInv
  <2> QED
    BY <1>4, <2>1 DEF Start, WorkerStart, Fresh, Exists, Outcome
<1>5. CASE WorkerCreates(p)
  <2>1. handle = "none" /\ op = "upload" /\ file = <<>>
    BY <1>5, InitArrives DEF WorkerCreates, WorkerTakes, IInv, ReceiverInv, Exists
  <2>2. FT!Create
    BY <1>5, <2>1 DEF WorkerCreates, FT!Create, Exists, Outcome
  <2> QED
    BY <2>2 DEF FT!FTNext
<1>6. CASE WorkerOpens(p)
  BY <1>6 DEF WorkerOpens, receiverVars, Exists, Outcome
<1>7. CASE WorkerOpenFails(p)
  BY <1>7 DEF WorkerOpenFails, WorkerTakes, receiverVars, Exists, Outcome
<1>8. CASE WorkerAck(p)
  BY <1>8 DEF WorkerAck, receiverVars, Exists, Outcome
<1>9. CASE WorkerAckFails(p)
  BY <1>9 DEF WorkerAckFails, receiverVars, Exists, Outcome
<1>10. CASE WorkerData(p)
  <2> USE <1>10 DEF WorkerData, WorkerTakes
  <2>1. CASE NothingNew(p)
    BY <2>1 DEF NothingNew, receiverVars, Exists, Outcome
  <2>2. CASE \E n \in next_expected..(next_expected + W) :
               /\ Accept(p, n) /\ Writes(p, n)
               /\ n > next_expected => handle = "open"
    <3>1. PICK n \in next_expected..(next_expected + W) :
               /\ Accept(p, n) /\ Writes(p, n)
               /\ n > next_expected => handle = "open"
      BY <2>2
    <3>2. n \in Nat /\ (n > next_expected => Exists)
      BY <1>t, <3>1 DEF Exists
    <3> QED
      BY <3>1, <3>2, AcceptRefines DEF FT!FTNext
  <2> QED
    BY <2>1, <2>2
<1>11. CASE WorkerDataFails(p)
  BY <1>11 DEF WorkerDataFails, Exists, Outcome
<1>12. CASE SessionStep(p)
  <2> USE <1>12 DEF SessionStep
  <2>1. CASE ClientClose(p) \/ ClientCloseFin(p)
    <3> USE <2>1 DEF ClientClose, ClientCloseFin, ClientTakes, ClientAlive
    <3>1. next_expected = N + 1
      BY CloseArrives
    <3>2. Exists
      BY DEF IInv, SessionInv, NetInv, Exists, ToServer
    <3>3. file = FT!Prefix(N)
      BY <3>1, <3>2, WholeFile
    <3>4. Outcome = "pending" /\ Outcome' = "success" /\ Exists' = Exists /\ file' = file
      BY DEF Outcome, Exists
    <3> QED
      BY <3>2, <3>3, <3>4 DEF FT!Succeed, FT!FTNext
  <2>2. CASE WorkerOversized(p) \/ WorkerRefuses(p) \/ WorkerSynAgain(p) \/ Swallow(p)
    BY <2>2 DEF WorkerOversized, WorkerRefuses, WorkerSynAgain, Swallow, Exists, Outcome
  <2>3. CASE WorkerClose(p) \/ WorkerCloseFin(p)
    BY <2>3 DEF WorkerClose, WorkerCloseFin, Closed, Exists, Outcome
  <2> QED
    BY <2>1, <2>2, <2>3
<1> QED
  BY <1>1, <1>2, <1>3, <1>4, <1>5, <1>6, <1>7, <1>8, <1>9, <1>10, <1>11, <1>12 DEF Deliver

\* Every step is one of FileTransfer, or leaves what it speaks of alone.
LEMMA StepRefines ==
  ASSUME IInv, OnceOnly, N # 0, [Next]_vars
  PROVE  FT!FTNext \/ UNCHANGED FT!ftVars
<1> USE DEF FT!ftVars
<1>1. ASSUME NEW p \in net, Deliver(p) PROVE FT!FTNext \/ UNCHANGED FT!ftVars
  BY <1>1, DeliverRefines
<1>2. ASSUME NEW p \in net, Disturb(p) PROVE FT!FTNext \/ UNCHANGED FT!ftVars
  BY <1>2 DEF Disturb, Lose, DeliverCorrupt, ClientAlive, FT!FTNext, FT!Fail, Exists, Outcome
<1>3. CASE ClientTimeout \/ WorkerTimeout
  BY <1>3 DEF ClientTimeout, WorkerTimeout, Resend, Exists, Outcome
<1>4. CASE GiveUp
  BY <1>4 DEF GiveUp, ConnectTimeout, WorkerInactive, FT!FTNext, FT!Fail, Exists, Outcome
<1>5. CASE UNCHANGED vars
  BY <1>5 DEF vars, sessionVars, Exists, Outcome
<1> QED
  BY <1>1, <1>2, <1>3, <1>4, <1>5 DEF Next

\* Selective Repeat implements FileTransfer for a file that is not empty: the
\* destination grows by the next chunks of the source only, not at all once the
\* client has ended normally, and a client ends normally with a complete copy.
THEOREM Refinement == OnceOnly /\ N # 0 /\ Spec => ImplementsFileTransfer
<1>1. Init => FT!FTInit
  BY DEF Init, SessionInit, FT!FTInit, Exists, Outcome
<1>2. IInv /\ OnceOnly /\ N # 0 /\ [Next]_vars => [FT!FTNext]_(FT!ftVars)
  BY StepRefines
<1>3. OnceOnly => []OnceOnly
  BY DEF OnceOnly
<1>4. N # 0 => [](N # 0)
  OBVIOUS
<1> QED
  BY <1>1, <1>2, <1>3, <1>4, Invariance, PTL DEF Spec, ImplementsFileTransfer, FT!FTSpec

\* A copy whose client has ended normally is never touched again, whatever is
\* still in flight and whatever the worker does afterwards (handle_ack,
\* handle_close_fin, _raise_thread for a late packet).
Final == [][client = "done" => client' = "done" /\ file' = file]_vars

\* It follows from the refinement: FileTransfer has no step after success.
THEOREM FinalCorrect == OnceOnly /\ N # 0 /\ Spec => Final
<1>1. IInv /\ OnceOnly /\ N # 0 /\ [Next]_vars =>
        [client = "done" => client' = "done" /\ file' = file]_vars
  <2> SUFFICES ASSUME IInv, OnceOnly, N # 0, [Next]_vars, client = "done"
               PROVE  client' = "done" /\ file' = file
    OBVIOUS
  <2>1. FT!FTNext \/ UNCHANGED FT!ftVars
    BY StepRefines
  <2>2. Outcome = "success" /\ (Outcome' = "success" => client' = "done")
    BY DEF Outcome
  <2>3. Outcome' = "success" /\ file' = file
    BY <2>1, <2>2 DEF FT!FTNext, FT!Create, FT!Deliver, FT!Succeed, FT!Fail, FT!ftVars
  <2> QED
    BY <2>2, <2>3
<1>2. OnceOnly => []OnceOnly
  BY DEF OnceOnly
<1>3. N # 0 => [](N # 0)
  OBVIOUS
<1> QED
  BY <1>1, <1>2, <1>3, Invariance, PTL DEF Spec, Final
=============================================================================
