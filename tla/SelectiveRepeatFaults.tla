------------------------ MODULE SelectiveRepeatFaults ------------------------
(***************************************************************************)
(* What SelectiveRepeat keeps under every fault, repeated handshake        *)
(* packets included, for every file length N and window size W.            *)
(*                                                                         *)
(* The argument.  Numbers and chunks may fall apart: a repeated ACK 0 or   *)
(* SYN_ACK pushes a second window, or the file once more, and a new thread *)
(* numbers from 1 again.  But the receiver never gives a number back       *)
(* (Kept), so that an ACK names a number it has however late it arrives    *)
(* (Sound), whoever was to get it.                                         *)
(***************************************************************************)
EXTENDS SelectiveRepeat, FiniteSetTheorems, SequenceTheorems, TLAPS

\* The receiver has number s.
Got(s) == s < next_expected \/ s \in DOMAIN buffer

VarTypes ==
  /\ op \in {"upload", "download"}
  /\ client \in {"connecting", "transferring", "done", "aborted"}
  /\ worker \in {"none", "running", "finished", "refused", "crashed", "inactive"}
  /\ handle \in {"none", "open", "closed"}
  /\ cursor \in 0..N
  /\ file \in Seq(1..N)
  /\ seq_num \in Nat \ {0} /\ base \in 1..seq_num
  /\ next_expected \in Nat \ {0}

\* The worker of an upload starts once, and nothing has been received then.
ThreadInv ==
  op = "upload" => /\ worker # "finished"
                   /\ worker = "none" => next_expected = 1 /\ buffer = NoChunks

\* The window holds packets numbered from base on, base among them.
WindowInv ==
  /\ \A q \in window : q.type \in {"DATA", "CLOSE"} /\ q.seq \in base..(seq_num - 1)
  /\ base < seq_num => base \in Seqs(window)

\* The chunks in the buffer are ahead of the one the receiver waits for.
BufferInv ==
  \A s \in DOMAIN buffer : /\ s \in (next_expected + 1)..(next_expected + W - 1)
                           /\ buffer[s] \in 1..N

\* Every number that was given out is in the window or at the receiver.
AckInv == \A s \in 1..(seq_num - 1) : s \in Seqs(window) \/ Got(s)

\* What a packet says is true: the receiver has what an ACK names and what
\* precedes CLOSE, and DATA is a chunk of the file.
Sound(p) == /\ p \in Packets
            /\ p.type = "ACK" /\ p.seq # 0 => Got(p.seq)
            /\ p.type = "DATA" => p.data \in 1..N
            /\ p.type = "CLOSE" => p.seq <= next_expected
PacketsInv == \A p \in net \union window : Sound(p)

FaultInv == /\ VarTypes /\ ThreadInv /\ WindowInv /\ BufferInv /\ AckInv
            /\ PacketsInv /\ NeverIdle

\* The receiver gives nothing back.
Kept == next_expected <= next_expected' /\ \A s \in Nat : Got(s) => Got(s)'
-----------------------------------------------------------------------------
\* The fields of the packets the program makes.
LEMMA Fields ==
  /\ Syn.type = "SYN" /\ SynAck.type = "SYN_ACK" /\ FinAck.type = "CLOSE_ACK"
  /\ \A s : Ack(s).type = "ACK" /\ Ack(s).seq = s
  /\ \A s, c : Data(s, c).type = "DATA" /\ Data(s, c).seq = s /\ Data(s, c).data = c
  /\ \A s : Fin(s).type = "CLOSE" /\ Fin(s).seq = s
  /\ Syn \in Packets /\ SynAck \in Packets /\ FinAck \in Packets
  /\ \A s \in Nat : Ack(s) \in Packets /\ Fin(s) \in Packets
  /\ \A s, c \in Nat : Data(s, c) \in Packets
BY DEF Syn, SynAck, FinAck, Ack, Data, Fin, Packet, Packets, Types

\* A delivery adds replies only.
LEMMA Exchanged ==
  ASSUME NEW p \in net, NEW replies, Exchange(p, replies)
  PROVE  net' \subseteq net \union replies
BY DEF Exchange

\* What a packet says stays true.
LEMMA StaysSound ==
  ASSUME VarTypes, VarTypes', Kept, NEW p, Sound(p)
  PROVE  Sound(p)'
BY DEF VarTypes, Kept, Sound, Packets

LEMMA FaultInit == Init => FaultInv
<1> SUFFICES ASSUME Init PROVE FaultInv
  OBVIOUS
<1> USE SessionAssumption, WindowAssumption DEF Init, SessionInit
<1>1. VarTypes /\ ThreadInv /\ AckInv /\ NeverIdle
  BY DEF VarTypes, ThreadInv, AckInv, NeverIdle, Sending
<1>2. WindowInv /\ BufferInv
  BY DEF WindowInv, BufferInv, Seqs, NoChunks
<1>3. PacketsInv
  BY Fields DEF PacketsInv, Sound
<1> QED
  BY <1>1, <1>2, <1>3 DEF FaultInv
-----------------------------------------------------------------------------
(* Steps that leave the protocol objects alone.                             *)

protocolVars == <<seq_num, base, window, next_expected, buffer>>

\* Such a step is harmless if what it sends is true and it does not begin a
\* transfer or a second thread.
LEMMA QuietStep ==
  ASSUME FaultInv, UNCHANGED <<protocolVars, cursor, op>>, VarTypes', ThreadInv',
         \A q \in net' : q \in net \/ Sound(q),
         Sending' => Sending
  PROVE  FaultInv' /\ Kept
<1> USE DEF protocolVars
<1>1. Kept
  BY DEF Kept, Got, FaultInv, VarTypes
<1>2. WindowInv' /\ BufferInv' /\ AckInv' /\ NeverIdle'
  BY DEF FaultInv, WindowInv, BufferInv, AckInv, Got, Seqs, NeverIdle
<1>3. PacketsInv'
  BY <1>1, StaysSound DEF FaultInv, PacketsInv
<1> QED
  BY <1>1, <1>2, <1>3 DEF FaultInv

\* The handlers of the session.
LEMMA SessionQuiet ==
  ASSUME FaultInv, NEW p \in net, SessionStep(p)
  PROVE  FaultInv' /\ Kept
<1>0. VarTypes /\ ThreadInv
  BY DEF FaultInv
<1>1. UNCHANGED <<protocolVars, cursor, op>> /\ UNCHANGED file
  BY DEF SessionStep, protocolVars, ClientClose, ClientCloseFin, WorkerOversized,
         WorkerRefuses, WorkerSynAgain, WorkerClose, WorkerCloseFin, Swallow
<1>2. net' \subseteq net \union {SynAck, FinAck}
  BY Exchanged DEF SessionStep, ClientClose, ClientCloseFin, WorkerOversized,
         WorkerRefuses, WorkerSynAgain, WorkerClose, WorkerCloseFin, Swallow
<1>3. /\ client' \in {client, "done"}
      /\ worker' \in {worker, "crashed", "refused"} \/ (worker' = "finished" /\ ToServer(p) /\ p.type = "CLOSE_ACK")
      /\ handle' \in {handle, Closed}
  BY DEF SessionStep, ClientClose, ClientCloseFin, WorkerOversized,
         WorkerRefuses, WorkerSynAgain, WorkerClose, WorkerCloseFin, Swallow, WorkerTakes
<1>4. worker' = "finished" => worker = "finished" \/ op = "download"
  BY <1>3 DEF ToServer
<1>5. VarTypes' /\ ThreadInv'
  BY <1>0, <1>1, <1>3, <1>4 DEF VarTypes, ThreadInv, Closed, protocolVars
<1>6. Sending' => Sending
  BY <1>1, <1>3 DEF Sending, Closed
<1>7. \A q \in net' : q \in net \/ Sound(q)
  BY <1>2, Fields DEF Sound
<1> QED
  BY <1>1, <1>5, <1>6, <1>7, QuietStep

\* Damage, loss and the waits that end without a packet.
LEMMA DisturbedQuiet ==
  ASSUME FaultInv, (\E p \in net : Disturb(p)) \/ GiveUp
  PROVE  FaultInv' /\ Kept
<1>0. VarTypes /\ ThreadInv
  BY DEF FaultInv
<1>1. UNCHANGED <<protocolVars, cursor, op>> /\ UNCHANGED <<file, handle>>
  BY DEF Disturb, GiveUp, Lose, DeliverCorrupt, ConnectTimeout, WorkerInactive, protocolVars
<1>2. net' \subseteq net
  BY Exchanged DEF Disturb, GiveUp, Lose, DeliverCorrupt, ConnectTimeout, WorkerInactive
<1>3. client' \in {client, "aborted"} /\ worker' \in {worker, "crashed", "inactive"}
  BY DEF Disturb, GiveUp, Lose, DeliverCorrupt, ConnectTimeout, WorkerInactive
<1>4. VarTypes' /\ ThreadInv'
  BY <1>0, <1>1, <1>3 DEF VarTypes, ThreadInv, protocolVars
<1>5. Sending' => Sending
  BY <1>1, <1>3 DEF Sending
<1> QED
  BY <1>1, <1>2, <1>4, <1>5, QuietStep

\* The window sent again.
LEMMA ResendQuiet ==
  ASSUME FaultInv, ClientTimeout \/ WorkerTimeout
  PROVE  FaultInv' /\ Kept
<1>0. VarTypes /\ ThreadInv
  BY DEF FaultInv
<1>1. UNCHANGED <<protocolVars, cursor, op>> /\ UNCHANGED <<file, handle, client, worker>>
      /\ net' = net \union window
  BY DEF ClientTimeout, WorkerTimeout, Resend, protocolVars
<1>2. VarTypes' /\ ThreadInv' /\ (Sending' => Sending)
  BY <1>0, <1>1 DEF VarTypes, ThreadInv, protocolVars, Sending
<1> QED
  BY <1>1, <1>2, QuietStep DEF PacketsInv, FaultInv

\* An ACK that is discarded.
LEMMA DiscardQuiet ==
  ASSUME FaultInv, NEW p \in net, DiscardAck(p),
         UNCHANGED <<op, client, handle, receiverVars, buffer>>
  PROVE  FaultInv' /\ Kept
<1>0. VarTypes /\ ThreadInv
  BY DEF FaultInv
<1> USE DEF DiscardAck, receiverVars, senderVars
<1>1. net' \subseteq net
  BY Exchanged
<1>2. VarTypes' /\ ThreadInv' /\ (Sending' => Sending)
  BY <1>0 DEF VarTypes, ThreadInv, Sending
<1> QED
  BY <1>1, <1>2, QuietStep DEF protocolVars

\* DATA the receiver has, or refuses, at most sends its ACK again.
LEMMA NothingNewQuiet ==
  ASSUME FaultInv, NEW p \in net, NothingNew(p),
         UNCHANGED <<op, client, handle, senderVars>>
  PROVE  FaultInv' /\ Kept
<1>0. VarTypes /\ ThreadInv
  BY DEF FaultInv
<1> USE DEF NothingNew, receiverVars, senderVars
<1>1. VarTypes' /\ ThreadInv' /\ (Sending' => Sending)
  BY <1>0 DEF VarTypes, ThreadInv, Sending
<1>2. p.seq \in Nat
  BY DEF FaultInv, PacketsInv, Sound, Packets
<1>3. CASE Repeated(p)
  <2>1. Sound(Ack(p.seq))
    BY <1>2, <1>3, Fields DEF Sound, Got, Repeated
  <2>2. \A q \in net' : q \in net \/ Sound(q)
    BY <2>1, Exchanged
  <2> QED
    BY <1>1, <2>2, QuietStep DEF protocolVars
<1>4. CASE ~Repeated(p)
  <2>1. net' \subseteq net
    BY <1>4, Exchanged
  <2> QED
    BY <1>1, <2>1, QuietStep DEF protocolVars
<1> QED
  BY <1>3, <1>4
-----------------------------------------------------------------------------
(* Receiving new DATA.                                                      *)

\* The receiver moves forward only, and has the number that arrived.
LEMMA Accepted ==
  ASSUME FaultInv, NEW p \in net, p.type = "DATA", NEW n \in Nat, Accept(p, n)
  PROVE  /\ next_expected' = n /\ n \in Nat \ {0} /\ p.seq \in Nat
         /\ BufferInv' /\ Kept /\ Got(p.seq)'
         /\ Run(Buffered(p), n) \in Seq(1..N)
<1> DEFINE got == Buffered(p)
<1>t. /\ next_expected \in Nat \ {0} /\ p.seq \in Nat /\ p.data \in 1..N
      /\ \A s \in DOMAIN buffer : /\ s \in (next_expected + 1)..(next_expected + W - 1)
                                  /\ buffer[s] \in 1..N
  BY DEF FaultInv, VarTypes, BufferInv, PacketsInv, Sound, Packets
<1>1. ~TooFar(p) /\ ~Repeated(p) /\ DeliversTo(got, n) /\ next_expected' = n
  BY DEF Accept
<1>2. p.seq \in next_expected..(next_expected + W - 1)
  BY <1>1, <1>t, WindowAssumption DEF TooFar, Repeated
<1>3. /\ DOMAIN got = DOMAIN buffer \union {p.seq}
      /\ \A s \in DOMAIN got : got[s] = IF s = p.seq THEN p.data ELSE buffer[s]
  BY DEF Buffered
<1>4. \A s \in DOMAIN got : s \in next_expected..(next_expected + W - 1) /\ got[s] \in 1..N
  BY <1>2, <1>3, <1>t, WindowAssumption
<1>5. buffer' = [s \in {s \in DOMAIN got : s >= n} |-> got[s]]
  BY DEF Accept
<1> HIDE DEF got
<1>6. n \in next_expected..(next_expected + W) /\ n \notin DOMAIN got
      /\ \A s \in next_expected..(n - 1) : s \in DOMAIN got
  BY <1>1 DEF DeliversTo
<1>7. DOMAIN buffer' = {s \in DOMAIN got : s >= n} /\ \A s \in DOMAIN buffer' : buffer'[s] = got[s]
  BY <1>5
<1>8. BufferInv'
  <2> SUFFICES ASSUME NEW s \in DOMAIN buffer'
               PROVE  s \in (n + 1)..(n + W - 1) /\ buffer'[s] \in 1..N
    BY <1>1 DEF BufferInv
  <2>1. s \in DOMAIN got /\ s >= n /\ s # n /\ buffer'[s] = got[s]
    BY <1>6, <1>7
  <2> QED
    BY <2>1, <1>4, <1>6, <1>t, WindowAssumption
<1>9. \A s \in Nat : Got(s) \/ s = p.seq => s < n \/ s \in DOMAIN buffer'
  BY <1>3, <1>6, <1>7, <1>t DEF Got
<1>10. Run(got, n) \in Seq(1..N)
  <2>1. ASSUME NEW i \in 1..(n - next_expected) PROVE got[next_expected + i - 1] \in 1..N
    <3>1. next_expected + i - 1 \in next_expected..(n - 1)
      BY <1>6, <1>t
    <3> QED
      BY <3>1, <1>4, <1>6
  <2>2. n - next_expected \in Nat
    BY <1>6, <1>t
  <2>3. Run(got, n) \in [1..(n - next_expected) -> 1..N]
    BY <2>1 DEF Run
  <2> QED
    BY <2>2, <2>3, SeqDef
<1> QED
  BY <1>1, <1>6, <1>8, <1>9, <1>10, <1>t DEF Got, Kept, got

\* New DATA, written or not.
LEMMA AcceptKeeps ==
  ASSUME FaultInv, NEW p \in net, p.type = "DATA", NEW n \in Nat, Accept(p, n),
         op = "upload" => worker \notin {"none", "finished"},
         UNCHANGED <<op, client, handle, senderVars>>,
         \/ Writes(p, n) /\ UNCHANGED worker
         \/ UNCHANGED file /\ worker' = "crashed"
  PROVE  FaultInv' /\ Kept
<1> USE DEF senderVars
<1>1. /\ next_expected' = n /\ n \in Nat \ {0} /\ p.seq \in Nat
      /\ BufferInv' /\ Kept /\ Got(p.seq)'
      /\ Run(Buffered(p), n) \in Seq(1..N)
  BY Accepted
<1>2. VarTypes'
  <2>1. file \in Seq(1..N)
    BY DEF FaultInv, VarTypes
  <2>2. file' \in Seq(1..N)
    <3>1. file \o Run(Buffered(p), n) \in Seq(1..N)
      BY <1>1, <2>1
    <3> QED
      BY <2>1, <3>1 DEF Writes
  <2> QED
    BY <1>1, <2>2 DEF FaultInv, VarTypes
<1>3. ThreadInv' /\ WindowInv' /\ NeverIdle'
  BY DEF FaultInv, ThreadInv, WindowInv, NeverIdle, Sending, Seqs
<1>4. AckInv'
  BY <1>1 DEF FaultInv, VarTypes, AckInv, Seqs, Kept
<1>5. net' \subseteq net \union {Ack(p.seq)}
  BY Exchanged DEF Accept
<1>6. PacketsInv'
  <2>1. ASSUME NEW q \in net \union window PROVE Sound(q)'
    BY <1>1, <1>2, StaysSound DEF FaultInv, PacketsInv
  <2>2. Sound(Ack(p.seq))'
    BY <1>1, Fields DEF Sound
  <2> QED
    BY <1>5, <2>1, <2>2 DEF PacketsInv
<1> QED
  BY <1>1, <1>2, <1>3, <1>4, <1>6 DEF FaultInv
-----------------------------------------------------------------------------
(* Sending.                                                                 *)

\* read returns no more chunks than asked for, and no more than there are.
LEMMA ReadBounds ==
  ASSUME NEW at \in 0..N, NEW advance \in Nat
  PROVE  /\ Read(at, advance) \in 0..advance
         /\ at + Read(at, advance) \in 0..N
         /\ Read(at, advance) = 0 => advance = 0 \/ at = N
BY SessionAssumption DEF Read

\* The packets made of the chunks read: one under each of the next numbers.
LEMMA PushedPackets ==
  ASSUME seq_num \in Nat \ {0}, NEW at \in 0..N, NEW advance \in Nat
  PROVE  /\ \A q \in Pushed(at, advance) :
              /\ q \in Packets /\ q.type = "DATA" /\ q.data \in 1..N
              /\ q.seq \in seq_num..(seq_num + Read(at, advance) - 1)
         /\ \A s \in seq_num..(seq_num + Read(at, advance) - 1) :
              s \in Seqs(Pushed(at, advance))
<1> DEFINE k == Read(at, advance)
<1>1. k \in Nat /\ at + k <= N
  BY ReadBounds, SessionAssumption
<1> HIDE DEF k
<1>2. Pushed(at, advance) = {Data(seq_num + i, at + i + 1) : i \in 0..(k - 1)}
  BY DEF Pushed, k
<1>3. ASSUME NEW q \in Pushed(at, advance)
      PROVE  /\ q \in Packets /\ q.type = "DATA" /\ q.data \in 1..N
             /\ q.seq \in seq_num..(seq_num + k - 1)
  <2>1. PICK i \in 0..(k - 1) : q = Data(seq_num + i, at + i + 1)
    BY <1>2
  <2>2. seq_num + i \in Nat /\ at + i + 1 \in 1..N /\ seq_num + i \in seq_num..(seq_num + k - 1)
    BY <1>1, SessionAssumption
  <2> QED
    BY <2>1, <2>2, Fields
<1>4. ASSUME NEW s \in seq_num..(seq_num + k - 1) PROVE s \in Seqs(Pushed(at, advance))
  <2>1. s - seq_num \in 0..(k - 1) /\ seq_num + (s - seq_num) = s
    BY <1>1
  <2>2. Data(s, at + (s - seq_num) + 1) \in Pushed(at, advance)
    BY <2>1, <1>2
  <2> QED
    BY <2>2, Fields DEF Seqs
<1> QED
  BY <1>3, <1>4 DEF k

\* The receiver that has every number below seq_num waits for seq_num or a later.
LEMMA AllGot ==
  ASSUME FaultInv, \A s \in 1..(seq_num - 1) : Got(s)
  PROVE  seq_num <= next_expected
<1>1. /\ seq_num \in Nat \ {0} /\ next_expected \in Nat \ {0} /\ next_expected \notin DOMAIN buffer
  BY DEF FaultInv, VarTypes, BufferInv
<1>2. next_expected < seq_num => Got(next_expected)
  BY <1>1
<1> QED
  BY <1>1, <1>2 DEF Got

\* A window that was cut down to win and begins at b now: what left it is at the
\* receiver.
Cut(win, b) ==
  /\ win \subseteq window /\ b \in base..seq_num
  /\ \A q \in win : q.seq >= b
  /\ b < seq_num => b \in Seqs(win)
  /\ \A s \in 1..(seq_num - 1) : s \in Seqs(win) \/ Got(s)

\* handle_ack sends what is true, and leaves nothing to send again only when it
\* was called with an empty window that did not move.
LEMMA Handled ==
  ASSUME FaultInv, NEW at \in 0..N, NEW advance \in Nat, NEW win, NEW b, Cut(win, b),
         HandleAck(at, advance, win), base' = b,
         UNCHANGED receiverVars
  PROVE  /\ seq_num' \in Nat \ {0} /\ base' \in 1..seq_num' /\ cursor' \in 0..N
         /\ WindowInv' /\ AckInv'
         /\ \A q \in window' : Sound(q)
         /\ NewPackets(at, advance, win) \subseteq window'
         /\ advance # 0 \/ win # {} => window' # {}
<1> DEFINE k == Read(at, advance)
<1>t. /\ seq_num \in Nat \ {0} /\ base \in 1..seq_num /\ b \in 1..seq_num
      /\ \A q \in win : /\ q.type \in {"DATA", "CLOSE"} /\ q.seq \in b..(seq_num - 1)
                        /\ Sound(q)
  BY DEF FaultInv, VarTypes, WindowInv, PacketsInv, Cut
<1>k. k \in 0..advance /\ at + k \in 0..N /\ (k = 0 => advance = 0 \/ at = N)
  BY ReadBounds
<1>g. \A s : Got(s)' = Got(s)
  BY DEF Got, receiverVars
<1>c. /\ b < seq_num => b \in Seqs(win)
      /\ \A s \in 1..(seq_num - 1) : s \in Seqs(win) \/ Got(s)
  BY DEF Cut
<1> HIDE DEF k
<1>1. CASE Finishes(at, advance, win)
  <2>1. k = 0 /\ win = {} /\ b = seq_num
    BY <1>1, <1>c, <1>t DEF Finishes, k, Seqs
  <2>2. /\ window' = {Fin(seq_num)} /\ seq_num' = seq_num + 1 /\ cursor' = at
        /\ NewPackets(at, advance, win) = {Fin(seq_num)}
    BY <1>1, <1>k, <2>1 DEF HandleAck, NewPackets, k
  <2>3. seq_num <= next_expected
    BY <1>c, <2>1, AllGot DEF Seqs
  <2>4. Sound(Fin(seq_num)) /\ Fin(seq_num).type = "CLOSE" /\ Fin(seq_num).seq = seq_num
    BY <2>3, <1>t, Fields DEF Sound
  <2>5. Seqs(window') = {seq_num}
    BY <2>2, <2>4 DEF Seqs
  <2>6. WindowInv'
    BY <2>1, <2>2, <2>4, <2>5, <1>t DEF WindowInv, Seqs
  <2>7. AckInv'
    <3> SUFFICES ASSUME NEW s \in 1..(seq_num' - 1)
                 PROVE  s \in Seqs(window') \/ Got(s)
      BY <1>g DEF AckInv, Seqs
    <3>1. s = seq_num \/ s \in 1..(seq_num - 1)
      BY <2>2, <1>t
    <3> QED
      BY <3>1, <2>1, <2>5, <1>c DEF Seqs
  <2> QED
    BY <2>1, <2>2, <2>4, <2>6, <2>7, <1>t
<1>2. CASE ~Finishes(at, advance, win)
  <2> DEFINE pushed == Pushed(at, advance)
  <2>1. /\ window' = win \union pushed /\ seq_num' = seq_num + k /\ cursor' = at + k
        /\ NewPackets(at, advance, win) = pushed
    BY <1>2 DEF HandleAck, NewPackets, k
  <2>2. /\ \A q \in pushed : /\ q \in Packets /\ q.type = "DATA" /\ q.data \in 1..N
                             /\ q.seq \in seq_num..(seq_num + k - 1)
        /\ \A s \in seq_num..(seq_num + k - 1) : s \in Seqs(pushed)
    BY PushedPackets, <1>t DEF k
  <2> HIDE DEF pushed
  <2>3. seq_num' \in Nat \ {0} /\ base' \in 1..seq_num' /\ cursor' \in 0..N
    BY <2>1, <1>t, <1>k
  <2>4. \A q \in window' : /\ q.type \in {"DATA", "CLOSE"} /\ Sound(q)
                          /\ q.seq \in b..(seq_num' - 1)
    BY <2>1, <2>2, <1>t, <1>k DEF Sound
  <2>5. b < seq_num' => b \in Seqs(window')
    BY <2>1, <2>2, <1>c, <1>t, <1>k DEF Seqs
  <2>6. WindowInv'
    BY <2>4, <2>5 DEF WindowInv
  <2>7. AckInv'
    <3> SUFFICES ASSUME NEW s \in 1..(seq_num' - 1)
                 PROVE  s \in Seqs(window') \/ Got(s)
      BY <1>g DEF AckInv, Seqs
    <3>1. CASE s < seq_num
      BY <3>1, <2>1, <1>c, <1>t DEF Seqs
    <3>2. CASE s >= seq_num
      BY <3>2, <2>1, <2>2, <1>t, <1>k DEF Seqs
    <3> QED
      BY <3>1, <3>2, <1>t
  <2>8. advance # 0 \/ win # {} => window' # {}
    <3> SUFFICES ASSUME advance # 0, win = {} PROVE pushed # {}
      BY <2>1
    <3>1. k # 0
      BY <1>2, <1>k DEF Finishes, k
    <3>2. seq_num \in Seqs(pushed)
      BY <3>1, <2>2, <1>k, <1>t
    <3> QED
      BY <3>2 DEF Seqs
  <2> QED
    BY <2>1, <2>3, <2>4, <2>6, <2>7, <2>8
<1> QED
  BY <1>1, <1>2
\* A step that reads and sends.
LEMMA SendKeeps ==
  ASSUME FaultInv, NEW at \in 0..N, NEW advance \in Nat, NEW win, NEW b, Cut(win, b),
         HandleAck(at, advance, win), base' = b,
         UNCHANGED receiverVars, UNCHANGED <<op, worker>>,
         client' \in {client, "transferring"}, handle' \in {handle, "open"},
         net' \subseteq net \union window \union NewPackets(at, advance, win) \union {Ack(0)},
         Sending' => advance # 0 \/ win # {}
  PROVE  FaultInv' /\ Kept
<1> USE DEF receiverVars
<1>1. /\ seq_num' \in Nat \ {0} /\ base' \in 1..seq_num' /\ cursor' \in 0..N
      /\ WindowInv' /\ AckInv'
      /\ \A q \in window' : Sound(q)
      /\ NewPackets(at, advance, win) \subseteq window'
      /\ advance # 0 \/ win # {} => window' # {}
  BY Handled DEF receiverVars
<1>2. VarTypes' /\ ThreadInv'
  BY <1>1 DEF FaultInv, VarTypes, ThreadInv
<1>3. Kept
  BY DEF Kept, Got, FaultInv, VarTypes
<1>4. BufferInv' /\ NeverIdle'
  BY <1>1 DEF FaultInv, BufferInv, NeverIdle
<1>5. Sound(Ack(0))
  BY Fields DEF Sound
<1>6. \A q \in net' \union window' : Sound(q)
  BY <1>1, <1>5 DEF FaultInv, PacketsInv
<1>7. PacketsInv'
  BY <1>2, <1>3, <1>6, StaysSound DEF PacketsInv, FaultInv
<1> QED
  BY <1>1, <1>2, <1>3, <1>4, <1>7 DEF FaultInv

\* The window as it stands, where it stands.
LEMMA Uncut == FaultInv => Cut(window, base)
BY DEF FaultInv, VarTypes, WindowInv, AckInv, Cut

\* The window without the number an ACK names, moved as far as it goes.
LEMMA AckCuts ==
  ASSUME FaultInv, NEW p \in net, p.type = "ACK", p.seq >= base,
         NEW b, SlidesTo(Unacked(p.seq), b)
  PROVE  /\ Cut(Unacked(p.seq), b) /\ b - base \in Nat
         /\ window # {} => b - base # 0 \/ Unacked(p.seq) # {}
<1> DEFINE win == Unacked(p.seq)
<1>1. /\ seq_num \in Nat \ {0} /\ base \in 1..seq_num
      /\ \A q \in window : q.seq \in base..(seq_num - 1)
      /\ \A s \in 1..(seq_num - 1) : s \in Seqs(window) \/ Got(s)
  BY DEF FaultInv, VarTypes, WindowInv, AckInv
<1>2. Got(p.seq)
  BY <1>1 DEF FaultInv, PacketsInv, Sound
<1>3. win \subseteq window /\ \A q \in window : q \in win \/ q.seq = p.seq
  BY DEF Unacked
<1>4. /\ b \in base..seq_num /\ \A s \in base..(b - 1) : s \notin Seqs(win)
      /\ b < seq_num => b \in Seqs(win)
  BY DEF SlidesTo
<1>5. ASSUME NEW q \in win PROVE q.seq >= b
  BY <1>1, <1>3, <1>4 DEF Seqs
<1>6. ASSUME NEW s \in 1..(seq_num - 1) PROVE s \in Seqs(win) \/ Got(s)
  BY <1>1, <1>2, <1>3 DEF Seqs
<1>7. window # {} => b - base # 0 \/ win # {}
  BY <1>1, <1>4 DEF Seqs
<1> QED
  BY <1>1, <1>3, <1>4, <1>5, <1>6, <1>7 DEF Cut

\* SYN_ACK at the client.
LEMMA ClientSynAckKeeps ==
  ASSUME FaultInv, NEW p \in net, ClientSynAck(p)
  PROVE  FaultInv' /\ Kept
<1> USE DEF ClientSynAck
<1>1. CASE op = "upload"
  <2>1. PICK late \in SUBSET window :
          Exchange(p, {Ack(0)} \union late \union NewPackets(cursor, W, window))
    BY <1>1
  <2>2. net' \subseteq net \union window \union NewPackets(cursor, W, window) \union {Ack(0)}
    BY <2>1, Exchanged
  <2>3. /\ HandleAck(cursor, W, window) /\ base' = base
        /\ UNCHANGED receiverVars /\ UNCHANGED <<op, worker>>
        /\ client' = "transferring" /\ handle' = handle
    BY <1>1 DEF receiverVars
  <2>4. cursor \in 0..N /\ W \in Nat /\ W # 0
    BY WindowAssumption DEF FaultInv, VarTypes
  <2> QED
    BY <2>2, <2>3, <2>4, Uncut, SendKeeps
<1>2. CASE op = "download"
  <2>1. UNCHANGED <<protocolVars, cursor, op>> /\ UNCHANGED <<file, worker, handle>>
        /\ client' = "transferring" /\ net' \subseteq net \union {Ack(0)}
    BY <1>2, Exchanged DEF protocolVars, senderVars, receiverVars
  <2>2. VarTypes' /\ ThreadInv' /\ (Sending' => Sending)
    BY <1>2, <2>1 DEF FaultInv, VarTypes, ThreadInv, protocolVars, Sending
  <2>3. \A q \in net' : q \in net \/ Sound(q)
    BY <2>1, Fields DEF Sound
  <2> QED
    BY <2>1, <2>2, <2>3, QuietStep
<1> QED
  BY <1>1, <1>2

\* ACK at the client, and at the worker.
LEMMA ClientAckKeeps ==
  ASSUME FaultInv, NEW p \in net, ClientAck(p)
  PROVE  FaultInv' /\ Kept
<1> USE DEF ClientAck, ClientTakes
<1>1. CASE DiscardAck(p)
  BY <1>1, DiscardQuiet DEF receiverVars
<1>2. CASE ~DiscardAck(p)
  <2>1. PICK b \in base..seq_num, late \in SUBSET Unacked(p.seq) :
          /\ SlidesTo(Unacked(p.seq), b) /\ base' = b
          /\ HandleAck(cursor, b - base, Unacked(p.seq))
          /\ Exchange(p, late \union NewPackets(cursor, b - base, Unacked(p.seq)))
    BY <1>2
  <2>2. p.seq >= base /\ p.type = "ACK" /\ client' = client /\ handle' = handle
        /\ UNCHANGED <<op, worker>> /\ UNCHANGED receiverVars
    BY <1>2
  <2>3. op = "upload"
    <3>1. p.seq # 0 \/ ToServer(p)
      BY DEF ToServer
    <3> QED
      BY <3>1 DEF ToServer, FaultInv, VarTypes
  <2>4. window # {}
    BY <2>3 DEF FaultInv, NeverIdle, Sending
  <2>5. net' \subseteq net \union window \union NewPackets(cursor, b - base, Unacked(p.seq)) \union {Ack(0)}
    BY <2>1, Exchanged DEF Unacked
  <2>7. cursor \in 0..N
    BY DEF FaultInv, VarTypes
  <2> QED
    BY <2>1, <2>2, <2>4, <2>5, <2>7, AckCuts, SendKeeps
<1> QED
  BY <1>1, <1>2

LEMMA WorkerAckKeeps ==
  ASSUME FaultInv, NEW p \in net, WorkerAck(p)
  PROVE  FaultInv' /\ Kept
<1> USE DEF WorkerAck, WorkerTakes
<1>1. CASE DiscardAck(p)
  BY <1>1, DiscardQuiet DEF receiverVars
<1>2. CASE ~DiscardAck(p)
  <2>1. PICK b \in base..seq_num :
          /\ SlidesTo(Unacked(p.seq), b) /\ base' = b
          /\ HandleAck(cursor, b - base, Unacked(p.seq))
          /\ Exchange(p, NewPackets(cursor, b - base, Unacked(p.seq)))
    BY <1>2
  <2>2. p.seq >= base /\ p.type = "ACK" /\ client' = client /\ handle' = handle
        /\ UNCHANGED <<op, worker>> /\ UNCHANGED receiverVars
    BY <1>2
  <2>4. window # {}
    BY <1>2 DEF FaultInv, NeverIdle, Sending
  <2>5. net' \subseteq net \union window \union NewPackets(cursor, b - base, Unacked(p.seq)) \union {Ack(0)}
    BY <2>1, Exchanged
  <2>7. cursor \in 0..N
    BY DEF FaultInv, VarTypes
  <2> QED
    BY <2>1, <2>2, <2>4, <2>5, <2>7, AckCuts, SendKeeps
<1> QED
  BY <1>1, <1>2

\* ACK that ends the worker: the window slides, nothing is sent.
LEMMA AckFailsKeeps ==
  ASSUME FaultInv, NEW p \in net, WorkerAckFails(p)
  PROVE  FaultInv' /\ Kept
<1> USE DEF WorkerAckFails, WorkerTakes, receiverVars
<1>1. PICK b \in base..seq_num : SlidesTo(Unacked(p.seq), b) /\ base' = b
  OBVIOUS
<1>2. Cut(Unacked(p.seq), b)
  BY <1>1, AckCuts
<1>3. VarTypes' /\ ThreadInv' /\ BufferInv' /\ Kept
  BY <1>1 DEF FaultInv, VarTypes, ThreadInv, BufferInv, Kept, Got
<1>4. WindowInv' /\ AckInv'
  BY <1>1, <1>2 DEF FaultInv, VarTypes, WindowInv, AckInv, Cut, Seqs, Got
<1>5. NeverIdle'
  BY DEF NeverIdle, Sending
<1>6. net' \subseteq net /\ window' \subseteq window
  BY <1>2, Exchanged DEF Cut
<1>7. PacketsInv'
  BY <1>3, <1>6, StaysSound DEF FaultInv, PacketsInv
<1> QED
  BY <1>3, <1>4, <1>5, <1>7 DEF FaultInv

\* ACK 0 at the worker.
LEMMA WorkerOpensKeeps ==
  ASSUME FaultInv, NEW p \in net, WorkerOpens(p)
  PROVE  FaultInv' /\ Kept
<1> USE DEF WorkerOpens
<1>1. /\ HandleAck(0, W, window) /\ base' = base
      /\ UNCHANGED receiverVars /\ UNCHANGED <<op, worker>>
      /\ client' = client /\ handle' = "open"
  OBVIOUS
<1>2. net' \subseteq net \union window \union NewPackets(0, W, window) \union {Ack(0)}
  BY Exchanged
<1>3. 0 \in 0..N /\ W \in Nat /\ W # 0
  BY WindowAssumption, SessionAssumption
<1> QED
  BY <1>1, <1>2, <1>3, Uncut, SendKeeps

LEMMA WorkerCreatesKeeps ==
  ASSUME FaultInv, NEW p \in net, WorkerCreates(p)
  PROVE  FaultInv' /\ Kept
<1> USE DEF WorkerCreates, WorkerTakes, senderVars
<1>1. UNCHANGED <<protocolVars, cursor, op>> /\ net' \subseteq net
  BY Exchanged DEF protocolVars
<1>2. VarTypes' /\ ThreadInv' /\ (Sending' => Sending)
  BY DEF FaultInv, VarTypes, ThreadInv, Sending
<1> QED
  BY <1>1, <1>2, QuietStep

LEMMA WorkerOpenFailsKeeps ==
  ASSUME FaultInv, NEW p \in net, WorkerOpenFails(p)
  PROVE  FaultInv' /\ Kept
<1> USE DEF WorkerOpenFails, WorkerTakes, receiverVars
<1>1. Kept /\ VarTypes' /\ ThreadInv'
  BY SessionAssumption DEF FaultInv, VarTypes, ThreadInv, Kept, Got
<1>2. WindowInv' /\ BufferInv' /\ AckInv' /\ NeverIdle'
  BY DEF FaultInv, WindowInv, BufferInv, AckInv, Got, Seqs, NeverIdle, Sending
<1>3. net' \subseteq net
  BY Exchanged
<1>4. PacketsInv'
  BY <1>1, <1>3, StaysSound DEF FaultInv, PacketsInv
<1> QED
  BY <1>1, <1>2, <1>4 DEF FaultInv

\* A new thread: the receiver it makes is as fresh as the one there was, and its
\* sender has given out no number.
LEMMA StartKeeps ==
  ASSUME FaultInv, NEW p \in net, Start(p)
  PROVE  FaultInv' /\ Kept
<1> USE DEF Start, WorkerStart, Spawns
<1>1. net' \subseteq net \union {SynAck} /\ Sound(SynAck)
  BY Exchanged, Fields DEF Sound
<1>2. CASE op = "upload"
  <2>1. next_expected = 1 /\ buffer = NoChunks
    BY <1>2 DEF FaultInv, ThreadInv
  <2>2. UNCHANGED <<protocolVars, cursor, op>>
    BY <1>2, <2>1 DEF protocolVars
  <2>3. VarTypes' /\ ThreadInv' /\ (Sending' => Sending)
    BY <1>2, <2>1 DEF FaultInv, VarTypes, ThreadInv, Sending
  <2>4. \A q \in net' : q \in net \/ Sound(q)
    BY <1>1
  <2> QED
    BY <2>2, <2>3, <2>4, QuietStep
<1>3. CASE op = "download"
  <2>1. Kept /\ VarTypes' /\ ThreadInv' /\ AckInv' /\ BufferInv'
    BY <1>3 DEF FaultInv, VarTypes, ThreadInv, AckInv, BufferInv, Kept, Got
  <2>2. WindowInv' /\ NeverIdle'
    BY <1>3 DEF WindowInv, NeverIdle, Sending, Seqs
  <2>3. \A q \in net' : q \in net \/ Sound(q)
    BY <1>1
  <2>4. PacketsInv'
    BY <1>1, <1>3, <2>1, <2>3, StaysSound DEF FaultInv, PacketsInv
  <2> QED
    BY <2>1, <2>2, <2>4 DEF FaultInv
<1> QED
  BY <1>2, <1>3 DEF FaultInv, VarTypes

\* DATA at either end.
LEMMA DataKeeps ==
  ASSUME FaultInv, NEW p \in net, ClientData(p) \/ WorkerData(p) \/ WorkerDataFails(p)
  PROVE  FaultInv' /\ Kept
<1> USE DEF ClientData, WorkerData, WorkerDataFails, ClientTakes, WorkerTakes
<1>0. /\ p.type = "DATA" /\ UNCHANGED <<op, client, handle, senderVars>>
      /\ op = "upload" => worker = "running"
  BY DEF ToServer, senderVars
<1>1. CASE NothingNew(p)
  BY <1>0, <1>1, NothingNewQuiet
<1>2. CASE ~NothingNew(p)
  <2>1. next_expected \in Nat /\ W \in Nat
    BY WindowAssumption DEF FaultInv, VarTypes
  <2>2. PICK n \in Nat : /\ Accept(p, n)
                         /\ \/ Writes(p, n) /\ UNCHANGED worker
                            \/ UNCHANGED file /\ worker' = "crashed"
    BY <1>2, <2>1
  <2> QED
    BY <1>0, <2>2, AcceptKeeps
<1> QED
  BY <1>1, <1>2
-----------------------------------------------------------------------------
LEMMA StepKeeps == ASSUME FaultInv, [Next]_vars PROVE FaultInv' /\ Kept
<1>1. ASSUME NEW p \in net, Deliver(p) PROVE FaultInv' /\ Kept
  BY <1>1, ClientSynAckKeeps, ClientAckKeeps, DataKeeps, StartKeeps, WorkerCreatesKeeps,
     WorkerOpensKeeps, WorkerOpenFailsKeeps, WorkerAckKeeps, AckFailsKeeps, SessionQuiet
     DEF Deliver
<1>2. CASE UNCHANGED vars
  <2>1. VarTypes' /\ ThreadInv' /\ (Sending' => Sending)
    BY <1>2 DEF vars, sessionVars, FaultInv, VarTypes, ThreadInv, Sending
  <2>2. UNCHANGED <<protocolVars, cursor, op>> /\ UNCHANGED net
    BY <1>2 DEF vars, sessionVars, protocolVars
  <2> QED
    BY <2>1, <2>2, QuietStep
<1> QED
  BY <1>1, <1>2, DisturbedQuiet, ResendQuiet DEF Next

\* FaultInv holds in every reachable state, whatever the faults.
THEOREM FaultInvariance == Spec => []FaultInv
<1>1. FaultInv /\ [Next]_vars => FaultInv'
  BY StepKeeps
<1> QED
  BY FaultInit, <1>1, PTL DEF Spec

\* Every variable of the protocol has its type (TypeOK), repeated handshake
\* packets included (SelectiveRepeat, Client.py, Server.py).
THEOREM TypeCorrect == Spec => []TypeOK
<1>1. FaultInv => TypeOK
  BY DEF FaultInv, VarTypes, PacketsInv, Sound, BufferInv, TypeOK
<1> QED
  BY <1>1, FaultInvariance, PTL

\* What the sender took out of its window is at the receiver, however often the
\* handshake was repeated and whichever thread numbered the packets (_handle_ack).
THEOREM AckedCorrect == Spec => []AckedIsReceived
<1>1. FaultInv => AckedIsReceived
  BY DEF FaultInv, AckInv, Got, AckedIsReceived
<1> QED
  BY <1>1, FaultInvariance, PTL

\* When CLOSE is sent the receiver has every number before it, even if chunks
\* were pushed twice (handle_ack, fin).
THEOREM CloseCorrect == Spec => []CloseMeansReceived
<1>1. FaultInv => CloseMeansReceived
  BY DEF FaultInv, PacketsInv, Sound, CloseMeansReceived
<1> QED
  BY <1>1, FaultInvariance, PTL

\* An end that has to finish its file has a packet to send again (handle_ack,
\* get_timedouts): the safety half of TransferCompletes.
THEOREM NeverIdleCorrect == Spec => []NeverIdle
<1>1. FaultInv => NeverIdle
  BY DEF FaultInv
<1> QED
  BY <1>1, FaultInvariance, PTL

LEMMA Below == ASSUME NEW m \in Nat, NEW s \in Nat \ {0}, s < m PROVE s \in 1..(m - 1)
OBVIOUS

\* The receiver takes no number back, whatever arrives late or twice, SYN included
\* (_handle_data, _handle_syn, _raise_thread).
THEOREM KeepsCorrect == Spec => KeepsReceived
<1>1. FaultInv /\ [Next]_vars => [Received \subseteq Received']_vars
  <2> SUFFICES ASSUME FaultInv, [Next]_vars PROVE Received \subseteq Received'
    OBVIOUS
  <2>1. Kept /\ VarTypes /\ VarTypes' /\ BufferInv /\ BufferInv'
    BY StepKeeps DEF FaultInv
  <2>2. \A s \in Received : s \in Nat \ {0} /\ Got(s)
    BY <2>1 DEF Received, Got, VarTypes, BufferInv
  <2>3. next_expected' \in Nat
    BY <2>1 DEF VarTypes
  <2>4. ASSUME NEW s \in Nat \ {0}, Got(s)' PROVE s \in Received'
    <3>1. s < next_expected' => s \in 1..(next_expected' - 1)
      BY <2>3, Below
    <3>2. Received' = 1..(next_expected' - 1) \union DOMAIN buffer'
      BY DEF Received
    <3> QED
      BY <2>4, <3>1, <3>2 DEF Got
  <2> QED
    BY <2>1, <2>2, <2>4 DEF Kept
<1> QED
  BY <1>1, FaultInvariance, PTL DEF Spec, KeepsReceived

\* The buffer of early chunks stays below the window size under every fault,
\* however far repeated handshake packets drive the sender's window (_handle_data).
THEOREM BufferBounded == Spec => [](Cardinality(DOMAIN buffer) < W)
<1>1. FaultInv => Cardinality(DOMAIN buffer) < W
  <2> SUFFICES ASSUME FaultInv PROVE Cardinality(DOMAIN buffer) < W
    OBVIOUS
  <2> DEFINE ahead == (next_expected + 1)..(next_expected + W - 1)
  <2>1. next_expected \in Nat /\ W \in Nat \ {0}
    BY WindowAssumption DEF FaultInv, VarTypes
  <2>2. DOMAIN buffer \subseteq ahead
    BY DEF FaultInv, BufferInv
  <2>3. IsFiniteSet(ahead) /\ Cardinality(ahead) = W - 1
    BY <2>1, FS_Interval
  <2>4. Cardinality(DOMAIN buffer) <= Cardinality(ahead) /\ IsFiniteSet(DOMAIN buffer)
    BY <2>2, <2>3, FS_Subset
  <2>5. Cardinality(DOMAIN buffer) \in Nat
    BY <2>4, FS_CardinalityType
  <2> QED
    BY <2>1, <2>3, <2>4, <2>5
<1> QED
  BY <1>1, FaultInvariance, PTL
=============================================================================
